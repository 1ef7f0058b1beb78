------------------------- MODULE AgentTasks_proofs -------------------------
(* Proofs about AgentTasks: TaskInv is inductive, and with it the accounting *)
(* of AI work is right for every number of tasks, decisions, stalls and      *)
(* faults.                                                                   *)
EXTENDS AgentTasks, TLAPS

USE TasksAssumption DEF Tasks, Goto, Fault, Disturb, Settle, Unwind, EndJob, queue, history

\* At first there is no task.
LEMMA InitTaskInv == Init => TaskInv
BY DEF Init, TaskInv, TypeOK, NoTask, RequestsInOrder, RequestInOrder, DecisionsInOrder,
       ReservationsInOrder, ReservationInOrder, UndisturbedInOrder, SettledLikeTheWork,
       NoLeakedReservation, OutputIsCharged
-----------------------------------------------------------------------------
(* Every action keeps TaskInv *)

\* A reservation is made for a task that has no row and no job yet.
LEMMA ReserveKeeps ==
  ASSUME TaskInv, NEW t \in Tasks, NEW direct \in BOOLEAN,
         Reserve(t, direct)
  PROVE  TaskInv'
<1>1. TypeOK'
  <2>1. request' \in [Tasks -> {"idle", "create", "add", "mark", "release", "refused", "done",
                                "failed", "lost"}]
    BY DEF TaskInv, Reserve, TypeOK
  <2>2. input' \in [Tasks -> [holds : UserTasks \cup {None}, direct : BOOLEAN]]
    BY DEF TaskInv, Reserve, TypeOK
  <2>3. reservation' \in [UserTasks -> {"ABSENT", "RESERVED", "COMMITTED", "RELEASED"}]
    BY DEF TaskInv, Reserve, TypeOK
  <2>. QED  BY <2>1, <2>2, <2>3 DEF TaskInv, Reserve, TypeOK
<1>2. RequestsInOrder'
  BY DEF TaskInv, Reserve, RequestsInOrder, RequestInOrder, NoTask, TypeOK,
       DecisionsInOrder
<1>3. ReservationsInOrder'
  BY DEF TaskInv, Reserve, ReservationsInOrder, ReservationInOrder, TypeOK
<1>4. UndisturbedInOrder'
  BY DEF TaskInv, Reserve, UndisturbedInOrder, RequestsInOrder, RequestInOrder,
       ReservationsInOrder, ReservationInOrder, TypeOK
<1>5. SettledLikeTheWork'
  <2>1. t \notin delivered \cup spoiled
    BY DEF TaskInv, Reserve, RequestsInOrder, RequestInOrder
  <2>2. \A u \in delivered \cup spoiled : input'[u] = input[u]
    BY <2>1 DEF TaskInv, Reserve, TypeOK
  <2>3. ASSUME NEW r \in UserTasks, r # t
        PROVE  reservation'[r] = reservation[r] /\ request'[r] = request[r]
    BY <2>3 DEF TaskInv, Reserve, TypeOK
  <2>4. reservation'[t] = "RESERVED"
    BY DEF TaskInv, Reserve, TypeOK
  <2>5. delivered' = delivered /\ spoiled' = spoiled
    BY DEF Reserve
  <2>. QED  BY <2>2, <2>3, <2>4, <2>5 DEF TaskInv, SettledLikeTheWork
<1>6. NoLeakedReservation'
  BY DEF TaskInv, Reserve, NoLeakedReservation, Settling, RequestsInOrder,
       RequestInOrder, ReservationsInOrder, ReservationInOrder, UndisturbedInOrder,
       TypeOK
<1>7. OutputIsCharged'
  BY DEF TaskInv, Reserve, OutputIsCharged, RequestsInOrder, RequestInOrder,
       ReservationsInOrder, ReservationInOrder, UndisturbedInOrder, TypeOK
<1>8. DecisionsInOrder'
  BY DEF TaskInv, Reserve, DecisionsInOrder
<1>. QED  BY <1>1, <1>2, <1>3, <1>4, <1>5, <1>6, <1>7, <1>8 DEF TaskInv

\* A refused task has nothing.
LEMMA QuotaRefusesKeeps ==
  ASSUME TaskInv, NEW t \in Tasks,
         QuotaRefuses(t)
  PROVE  TaskInv'
<1>1. TypeOK'
  BY DEF TaskInv, QuotaRefuses, TypeOK, Final, NoTask, DecisionsInOrder
<1>2. RequestsInOrder'
  BY DEF TaskInv, QuotaRefuses, RequestsInOrder, RequestInOrder, NoTask, TypeOK,
       DecisionsInOrder
<1>3. ReservationsInOrder'
  BY DEF TaskInv, QuotaRefuses, ReservationsInOrder, ReservationInOrder, TypeOK
<1>4. UndisturbedInOrder'
  BY DEF TaskInv, QuotaRefuses, UndisturbedInOrder, RequestsInOrder, RequestInOrder,
       ReservationsInOrder, ReservationInOrder, TypeOK
<1>5. SettledLikeTheWork'
  BY DEF TaskInv, QuotaRefuses, SettledLikeTheWork, RequestsInOrder, RequestInOrder,
       ReservationsInOrder, ReservationInOrder, UndisturbedInOrder, TypeOK
<1>6. NoLeakedReservation'
  BY DEF TaskInv, QuotaRefuses, NoLeakedReservation, Settling, RequestsInOrder,
       RequestInOrder, ReservationsInOrder, ReservationInOrder, UndisturbedInOrder,
       TypeOK
<1>7. DecisionsInOrder' /\ OutputIsCharged'
  BY DEF TaskInv, QuotaRefuses, DecisionsInOrder, OutputIsCharged
<1>. QED  BY <1>1, <1>2, <1>3, <1>4, <1>5, <1>6, <1>7 DEF TaskInv

\* A retry shares a reservation, which is disturbed from then on.
LEMMA RetryKeeps ==
  ASSUME TaskInv, NEW t \in Tasks, NEW old \in Tasks,
         Retry(t, old)
  PROVE  TaskInv'
<1>1. TypeOK'
  BY DEF TaskInv, Retry, TypeOK, Final, NoTask, DecisionsInOrder
<1>2. RequestsInOrder'
  BY DEF TaskInv, Retry, RequestsInOrder, RequestInOrder, NoTask, TypeOK,
       DecisionsInOrder
<1>3. ReservationsInOrder'
  BY DEF TaskInv, Retry, ReservationsInOrder, ReservationInOrder, TypeOK
<1>4. UndisturbedInOrder'
  BY DEF TaskInv, Retry, UndisturbedInOrder, RequestsInOrder, RequestInOrder,
       ReservationsInOrder, ReservationInOrder, TypeOK
<1>5. SettledLikeTheWork'
  BY DEF TaskInv, Retry, SettledLikeTheWork, RequestsInOrder, RequestInOrder,
       ReservationsInOrder, ReservationInOrder, UndisturbedInOrder, TypeOK
<1>6. NoLeakedReservation'
  BY DEF TaskInv, Retry, NoLeakedReservation, Settling, RequestsInOrder,
       RequestInOrder, ReservationsInOrder, ReservationInOrder, UndisturbedInOrder,
       TypeOK
<1>7. OutputIsCharged'
  BY DEF TaskInv, Retry, OutputIsCharged, RequestsInOrder, RequestInOrder,
       ReservationsInOrder, ReservationInOrder, UndisturbedInOrder, TypeOK
<1>8. DecisionsInOrder'
  BY DEF TaskInv, Retry, DecisionsInOrder
<1>. QED  BY <1>1, <1>2, <1>3, <1>4, <1>5, <1>6, <1>7, <1>8 DEF TaskInv

\* A redeployment has no reservation.
LEMMA RedeployKeeps ==
  ASSUME TaskInv, NEW t \in Tasks,
         Redeploy(t)
  PROVE  TaskInv'
<1>1. TypeOK'
  BY DEF TaskInv, Redeploy, TypeOK, Final, NoTask, DecisionsInOrder
<1>2. RequestsInOrder'
  BY DEF TaskInv, Redeploy, RequestsInOrder, RequestInOrder, NoTask, TypeOK,
       DecisionsInOrder
<1>3. ReservationsInOrder'
  BY DEF TaskInv, Redeploy, ReservationsInOrder, ReservationInOrder, TypeOK
<1>4. UndisturbedInOrder'
  BY DEF TaskInv, Redeploy, UndisturbedInOrder, RequestsInOrder, RequestInOrder,
       ReservationsInOrder, ReservationInOrder, TypeOK
<1>5. SettledLikeTheWork'
  BY DEF TaskInv, Redeploy, SettledLikeTheWork, RequestsInOrder, RequestInOrder,
       ReservationsInOrder, ReservationInOrder, UndisturbedInOrder, TypeOK
<1>6. NoLeakedReservation'
  BY DEF TaskInv, Redeploy, NoLeakedReservation, Settling, RequestsInOrder,
       RequestInOrder, ReservationsInOrder, ReservationInOrder, UndisturbedInOrder,
       TypeOK
<1>7. DecisionsInOrder' /\ OutputIsCharged'
  BY DEF TaskInv, Redeploy, DecisionsInOrder, OutputIsCharged
<1>. QED  BY <1>1, <1>2, <1>3, <1>4, <1>5, <1>6, <1>7 DEF TaskInv

\* The row comes before the job.
LEMMA CreateRowKeeps ==
  ASSUME TaskInv, NEW t \in Tasks,
         CreateRow(t)
  PROVE  TaskInv'
<1>1. TypeOK'
  BY DEF TaskInv, CreateRow, TypeOK, Final, NoTask, DecisionsInOrder
<1>2. RequestsInOrder'
  BY DEF TaskInv, CreateRow, RequestsInOrder, RequestInOrder, NoTask, TypeOK,
       DecisionsInOrder
<1>3. DecisionsInOrder'
  BY DEF TaskInv, CreateRow, DecisionsInOrder, TypeOK, NoTask
<1>4. ReservationsInOrder'
  BY DEF TaskInv, CreateRow, ReservationsInOrder, ReservationInOrder, TypeOK
<1>5. UndisturbedInOrder'
  BY DEF TaskInv, CreateRow, UndisturbedInOrder, RequestsInOrder, RequestInOrder,
       ReservationsInOrder, ReservationInOrder, TypeOK
<1>6. SettledLikeTheWork'
  BY DEF TaskInv, CreateRow, SettledLikeTheWork, RequestsInOrder, RequestInOrder,
       ReservationsInOrder, ReservationInOrder, UndisturbedInOrder, TypeOK
<1>7. NoLeakedReservation'
  BY DEF TaskInv, CreateRow, NoLeakedReservation, Settling, RequestsInOrder,
       RequestInOrder, ReservationsInOrder, ReservationInOrder, UndisturbedInOrder,
       TypeOK
<1>8. OutputIsCharged'
  BY DEF TaskInv, CreateRow, OutputIsCharged
<1>. QED  BY <1>1, <1>2, <1>3, <1>4, <1>5, <1>6, <1>7, <1>8 DEF TaskInv

\* A job is added when the row is there and the reservation open.
LEMMA AddJobKeeps ==
  ASSUME TaskInv, NEW t \in Tasks,
         AddJob(t)
  PROVE  TaskInv'
<1>1. TypeOK'
  BY DEF TaskInv, AddJob, TypeOK, Final, NoTask, DecisionsInOrder
<1>2. RequestsInOrder'
  <2>1. CASE input[t].direct
    BY <2>1 DEF TaskInv, AddJob, RequestsInOrder, RequestInOrder, NoTask, TypeOK,
         DecisionsInOrder
  <2>2. CASE ~(input[t].direct)
    BY <2>2 DEF TaskInv, AddJob, RequestsInOrder, RequestInOrder, NoTask, TypeOK,
         DecisionsInOrder
  <2>. QED  BY <2>1, <2>2
<1>3. ReservationsInOrder'
  <2>1. CASE input[t].direct
    BY <2>1 DEF TaskInv, AddJob, ReservationsInOrder, ReservationInOrder, TypeOK
  <2>2. CASE ~(input[t].direct)
    BY <2>2 DEF TaskInv, AddJob, ReservationsInOrder, ReservationInOrder, TypeOK
  <2>. QED  BY <2>1, <2>2
<1>4. UndisturbedInOrder'
  <2>1. CASE input[t].direct
    BY <2>1 DEF TaskInv, AddJob, UndisturbedInOrder, RequestsInOrder, RequestInOrder,
         ReservationsInOrder, ReservationInOrder, TypeOK
  <2>2. CASE ~(input[t].direct)
    BY <2>2 DEF TaskInv, AddJob, UndisturbedInOrder, RequestsInOrder, RequestInOrder,
         ReservationsInOrder, ReservationInOrder, TypeOK
  <2>. QED  BY <2>1, <2>2
<1>5. SettledLikeTheWork'
  <2>1. CASE input[t].direct
    BY <2>1 DEF TaskInv, AddJob, SettledLikeTheWork, RequestsInOrder, RequestInOrder,
         ReservationsInOrder, ReservationInOrder, UndisturbedInOrder, TypeOK
  <2>2. CASE ~(input[t].direct)
    BY <2>2 DEF TaskInv, AddJob, SettledLikeTheWork, RequestsInOrder, RequestInOrder,
         ReservationsInOrder, ReservationInOrder, UndisturbedInOrder, TypeOK
  <2>. QED  BY <2>1, <2>2
<1>6. NoLeakedReservation'
  <2>1. CASE input[t].direct
    BY <2>1 DEF TaskInv, AddJob, NoLeakedReservation, Settling, RequestsInOrder,
         RequestInOrder, ReservationsInOrder, ReservationInOrder, UndisturbedInOrder,
         TypeOK
  <2>2. CASE ~(input[t].direct)
    BY <2>2 DEF TaskInv, AddJob, NoLeakedReservation, Settling, RequestsInOrder,
         RequestInOrder, ReservationsInOrder, ReservationInOrder, UndisturbedInOrder,
         TypeOK
  <2>. QED  BY <2>1, <2>2
<1>7. DecisionsInOrder' /\ OutputIsCharged'
  BY DEF TaskInv, AddJob, DecisionsInOrder, OutputIsCharged
<1>. QED  BY <1>1, <1>2, <1>3, <1>4, <1>5, <1>6, <1>7 DEF TaskInv

\* Without a job nobody but the request settles the reservation.
LEMMA QueueingFailsKeeps ==
  ASSUME TaskInv, NEW t \in Tasks,
         QueueingFails(t)
  PROVE  TaskInv'
<1>1. TypeOK'
  <2>1. CASE t \in UserTasks
    BY <2>1 DEF TaskInv, QueueingFails, TypeOK, Final, NoTask, DecisionsInOrder
  <2>2. CASE ~(t \in UserTasks)
    BY <2>2 DEF TaskInv, QueueingFails, TypeOK, Final, NoTask, DecisionsInOrder
  <2>. QED  BY <2>1, <2>2
<1>2. RequestsInOrder'
  <2>1. CASE t \in UserTasks
    BY <2>1 DEF TaskInv, QueueingFails, RequestsInOrder, RequestInOrder, NoTask,
         TypeOK, DecisionsInOrder
  <2>2. CASE ~(t \in UserTasks)
    BY <2>2 DEF TaskInv, QueueingFails, RequestsInOrder, RequestInOrder, NoTask,
         TypeOK, DecisionsInOrder
  <2>. QED  BY <2>1, <2>2
<1>3. ReservationsInOrder'
  <2>1. CASE t \in UserTasks
    BY <2>1 DEF TaskInv, QueueingFails, ReservationsInOrder, ReservationInOrder, TypeOK
  <2>2. CASE ~(t \in UserTasks)
    BY <2>2 DEF TaskInv, QueueingFails, ReservationsInOrder, ReservationInOrder, TypeOK
  <2>. QED  BY <2>1, <2>2
<1>4. UndisturbedInOrder'
  <2>1. CASE t \in UserTasks
    BY <2>1 DEF TaskInv, QueueingFails, UndisturbedInOrder, RequestsInOrder,
         RequestInOrder, ReservationsInOrder, ReservationInOrder, TypeOK
  <2>2. CASE ~(t \in UserTasks)
    BY <2>2 DEF TaskInv, QueueingFails, UndisturbedInOrder, RequestsInOrder,
         RequestInOrder, ReservationsInOrder, ReservationInOrder, TypeOK
  <2>. QED  BY <2>1, <2>2
<1>5. SettledLikeTheWork'
  <2>1. CASE t \in UserTasks
    BY <2>1 DEF TaskInv, QueueingFails, SettledLikeTheWork, RequestsInOrder,
         RequestInOrder, ReservationsInOrder, ReservationInOrder, UndisturbedInOrder,
         TypeOK
  <2>2. CASE ~(t \in UserTasks)
    BY <2>2 DEF TaskInv, QueueingFails, SettledLikeTheWork, RequestsInOrder,
         RequestInOrder, ReservationsInOrder, ReservationInOrder, UndisturbedInOrder,
         TypeOK
  <2>. QED  BY <2>1, <2>2
<1>6. NoLeakedReservation'
  <2>1. CASE t \in UserTasks
    BY <2>1 DEF TaskInv, QueueingFails, NoLeakedReservation, Settling, RequestsInOrder,
         RequestInOrder, ReservationsInOrder, ReservationInOrder, UndisturbedInOrder,
         TypeOK
  <2>2. CASE ~(t \in UserTasks)
    BY <2>2 DEF TaskInv, QueueingFails, NoLeakedReservation, Settling, RequestsInOrder,
         RequestInOrder, ReservationsInOrder, ReservationInOrder, UndisturbedInOrder,
         TypeOK
  <2>. QED  BY <2>1, <2>2
<1>7. DecisionsInOrder' /\ OutputIsCharged'
  BY DEF TaskInv, QueueingFails, DecisionsInOrder, OutputIsCharged
<1>. QED  BY <1>1, <1>2, <1>3, <1>4, <1>5, <1>6, <1>7 DEF TaskInv

\* The job may be there although the request gives up.
LEMMA AddUnansweredKeeps ==
  ASSUME TaskInv, NEW t \in Tasks,
         AddUnanswered(t)
  PROVE  TaskInv'
<1>1. TypeOK'
  <2>1. CASE t \in UserTasks
    BY <2>1 DEF TaskInv, AddUnanswered, TypeOK, Final, NoTask, DecisionsInOrder
  <2>2. CASE ~(t \in UserTasks)
    BY <2>2 DEF TaskInv, AddUnanswered, TypeOK, Final, NoTask, DecisionsInOrder
  <2>. QED  BY <2>1, <2>2
<1>2. RequestsInOrder'
  <2>1. CASE t \in UserTasks
    BY <2>1 DEF TaskInv, AddUnanswered, RequestsInOrder, RequestInOrder, NoTask,
         TypeOK, DecisionsInOrder
  <2>2. CASE ~(t \in UserTasks)
    BY <2>2 DEF TaskInv, AddUnanswered, RequestsInOrder, RequestInOrder, NoTask,
         TypeOK, DecisionsInOrder
  <2>. QED  BY <2>1, <2>2
<1>3. ReservationsInOrder'
  <2>1. CASE t \in UserTasks
    BY <2>1 DEF TaskInv, AddUnanswered, ReservationsInOrder, ReservationInOrder, TypeOK
  <2>2. CASE ~(t \in UserTasks)
    BY <2>2 DEF TaskInv, AddUnanswered, ReservationsInOrder, ReservationInOrder, TypeOK
  <2>. QED  BY <2>1, <2>2
<1>4. UndisturbedInOrder'
  <2>1. CASE t \in UserTasks
    BY <2>1 DEF TaskInv, AddUnanswered, UndisturbedInOrder, RequestsInOrder,
         RequestInOrder, ReservationsInOrder, ReservationInOrder, TypeOK
  <2>2. CASE ~(t \in UserTasks)
    BY <2>2 DEF TaskInv, AddUnanswered, UndisturbedInOrder, RequestsInOrder,
         RequestInOrder, ReservationsInOrder, ReservationInOrder, TypeOK
  <2>. QED  BY <2>1, <2>2
<1>5. SettledLikeTheWork'
  <2>1. CASE t \in UserTasks
    BY <2>1 DEF TaskInv, AddUnanswered, SettledLikeTheWork, RequestsInOrder,
         RequestInOrder, ReservationsInOrder, ReservationInOrder, UndisturbedInOrder,
         TypeOK
  <2>2. CASE ~(t \in UserTasks)
    BY <2>2 DEF TaskInv, AddUnanswered, SettledLikeTheWork, RequestsInOrder,
         RequestInOrder, ReservationsInOrder, ReservationInOrder, UndisturbedInOrder,
         TypeOK
  <2>. QED  BY <2>1, <2>2
<1>6. NoLeakedReservation'
  <2>1. CASE t \in UserTasks
    BY <2>1 DEF TaskInv, AddUnanswered, NoLeakedReservation, Settling, RequestsInOrder,
         RequestInOrder, ReservationsInOrder, ReservationInOrder, UndisturbedInOrder,
         TypeOK
  <2>2. CASE ~(t \in UserTasks)
    BY <2>2 DEF TaskInv, AddUnanswered, NoLeakedReservation, Settling, RequestsInOrder,
         RequestInOrder, ReservationsInOrder, ReservationInOrder, UndisturbedInOrder,
         TypeOK
  <2>. QED  BY <2>1, <2>2
<1>7. OutputIsCharged'
  <2>1. CASE t \in UserTasks
    BY <2>1 DEF TaskInv, AddUnanswered, OutputIsCharged, RequestsInOrder,
         RequestInOrder, ReservationsInOrder, ReservationInOrder, UndisturbedInOrder,
         TypeOK
  <2>2. CASE ~(t \in UserTasks)
    BY <2>2 DEF TaskInv, AddUnanswered, OutputIsCharged, RequestsInOrder,
         RequestInOrder, ReservationsInOrder, ReservationInOrder, UndisturbedInOrder,
         TypeOK
  <2>. QED  BY <2>1, <2>2
<1>8. DecisionsInOrder'
  BY DEF TaskInv, AddUnanswered, DecisionsInOrder
<1>. QED  BY <1>1, <1>2, <1>3, <1>4, <1>5, <1>6, <1>7, <1>8 DEF TaskInv

\* A request that failed gives back its own reservation.
LEMMA ReleaseKeeps ==
  ASSUME TaskInv, NEW t \in Tasks,
         Release(t)
  PROVE  TaskInv'
<1>1. TypeOK'
  BY DEF TaskInv, Release, TypeOK, Final, NoTask, DecisionsInOrder
<1>2. RequestsInOrder'
  BY DEF TaskInv, Release, RequestsInOrder, RequestInOrder, NoTask, TypeOK,
       DecisionsInOrder
<1>3. ReservationsInOrder'
  BY DEF TaskInv, Release, ReservationsInOrder, ReservationInOrder, TypeOK
<1>4. UndisturbedInOrder'
  BY DEF TaskInv, Release, UndisturbedInOrder, RequestsInOrder, RequestInOrder,
       ReservationsInOrder, ReservationInOrder, TypeOK
<1>5. SettledLikeTheWork'
  BY DEF TaskInv, Release, SettledLikeTheWork, RequestsInOrder, RequestInOrder,
       ReservationsInOrder, ReservationInOrder, UndisturbedInOrder, TypeOK
<1>6. NoLeakedReservation'
  BY DEF TaskInv, Release, NoLeakedReservation, Settling, RequestsInOrder,
       RequestInOrder, ReservationsInOrder, ReservationInOrder, UndisturbedInOrder,
       TypeOK
<1>7. OutputIsCharged'
  BY DEF TaskInv, Release, OutputIsCharged, RequestsInOrder, RequestInOrder,
       ReservationsInOrder, ReservationInOrder, UndisturbedInOrder, TypeOK
<1>8. DecisionsInOrder'
  BY DEF TaskInv, Release, DecisionsInOrder
<1>. QED  BY <1>1, <1>2, <1>3, <1>4, <1>5, <1>6, <1>7, <1>8 DEF TaskInv

\* The website is the task's business only.
LEMMA MarkGeneratingKeeps ==
  ASSUME TaskInv, NEW t \in Tasks,
         MarkGenerating(t)
  PROVE  TaskInv'
<1>1. TypeOK'
  BY DEF TaskInv, MarkGenerating, TypeOK, Final, NoTask, DecisionsInOrder
<1>2. RequestsInOrder'
  BY DEF TaskInv, MarkGenerating, RequestsInOrder, RequestInOrder, NoTask, TypeOK,
       DecisionsInOrder
<1>3. ReservationsInOrder'
  BY DEF TaskInv, MarkGenerating, ReservationsInOrder, ReservationInOrder, TypeOK
<1>4. UndisturbedInOrder'
  BY DEF TaskInv, MarkGenerating, UndisturbedInOrder, RequestsInOrder, RequestInOrder,
       ReservationsInOrder, ReservationInOrder, TypeOK
<1>5. SettledLikeTheWork'
  BY DEF TaskInv, MarkGenerating, SettledLikeTheWork, RequestsInOrder, RequestInOrder,
       ReservationsInOrder, ReservationInOrder, UndisturbedInOrder, TypeOK
<1>6. NoLeakedReservation'
  BY DEF TaskInv, MarkGenerating, NoLeakedReservation, Settling, RequestsInOrder,
       RequestInOrder, ReservationsInOrder, ReservationInOrder, UndisturbedInOrder,
       TypeOK
<1>7. DecisionsInOrder' /\ OutputIsCharged'
  BY DEF TaskInv, MarkGenerating, DecisionsInOrder, OutputIsCharged
<1>. QED  BY <1>1, <1>2, <1>3, <1>4, <1>5, <1>6, <1>7 DEF TaskInv

\* A lost request leaves its reservation disturbed.
LEMMA RequestLostKeeps ==
  ASSUME TaskInv, NEW t \in Tasks,
         RequestLost(t)
  PROVE  TaskInv'
<1>1. TypeOK'
  BY DEF TaskInv, RequestLost, TypeOK, Final, NoTask, DecisionsInOrder
<1>2. RequestsInOrder'
  BY DEF TaskInv, RequestLost, RequestsInOrder, RequestInOrder, NoTask, TypeOK,
       DecisionsInOrder
<1>3. ReservationsInOrder'
  BY DEF TaskInv, RequestLost, ReservationsInOrder, ReservationInOrder, TypeOK
<1>4. UndisturbedInOrder'
  BY DEF TaskInv, RequestLost, UndisturbedInOrder, RequestsInOrder, RequestInOrder,
       ReservationsInOrder, ReservationInOrder, TypeOK
<1>5. SettledLikeTheWork'
  BY DEF TaskInv, RequestLost, SettledLikeTheWork, RequestsInOrder, RequestInOrder,
       ReservationsInOrder, ReservationInOrder, UndisturbedInOrder, TypeOK
<1>6. NoLeakedReservation'
  BY DEF TaskInv, RequestLost, NoLeakedReservation, Settling, RequestsInOrder,
       RequestInOrder, ReservationsInOrder, ReservationInOrder, UndisturbedInOrder,
       TypeOK
<1>7. OutputIsCharged'
  BY DEF TaskInv, RequestLost, OutputIsCharged, RequestsInOrder, RequestInOrder,
       ReservationsInOrder, ReservationInOrder, UndisturbedInOrder, TypeOK
<1>8. DecisionsInOrder'
  BY DEF TaskInv, RequestLost, DecisionsInOrder
<1>. QED  BY <1>1, <1>2, <1>3, <1>4, <1>5, <1>6, <1>7, <1>8 DEF TaskInv

\* A worker takes a job whose row is there.
LEMMA TakeKeeps ==
  ASSUME TaskInv, NEW t \in Tasks,
         Take(t)
  PROVE  TaskInv'
<1>1. TypeOK'
  BY DEF TaskInv, Take, TypeOK, Final, NoTask, DecisionsInOrder
<1>2. RequestsInOrder'
  BY DEF TaskInv, Take, RequestsInOrder, RequestInOrder, NoTask, TypeOK,
       DecisionsInOrder
<1>3. DecisionsInOrder'
  BY DEF TaskInv, Take, DecisionsInOrder, TypeOK, NoTask
<1>4. UndisturbedInOrder'
  BY DEF TaskInv, Take, UndisturbedInOrder, RequestsInOrder, RequestInOrder,
       ReservationsInOrder, ReservationInOrder, TypeOK
<1>5. NoLeakedReservation'
  BY DEF TaskInv, Take, NoLeakedReservation, Settling, RequestsInOrder, RequestInOrder,
       ReservationsInOrder, ReservationInOrder, UndisturbedInOrder, TypeOK
<1>6. OutputIsCharged'
  BY DEF TaskInv, Take, OutputIsCharged, RequestsInOrder, RequestInOrder,
       ReservationsInOrder, ReservationInOrder, UndisturbedInOrder, TypeOK
<1>7. ReservationsInOrder' /\ SettledLikeTheWork'
  BY DEF TaskInv, Take, ReservationsInOrder, ReservationInOrder, SettledLikeTheWork
<1>. QED  BY <1>1, <1>2, <1>3, <1>4, <1>5, <1>6, <1>7 DEF TaskInv

\* The first output of an undisturbed task is about to be charged.
LEMMA DeliverKeeps ==
  ASSUME TaskInv, NEW t \in Tasks,
         Deliver(t)
  PROVE  TaskInv'
<1>1. TypeOK'
  BY DEF TaskInv, Deliver, TypeOK, Final, NoTask, DecisionsInOrder
<1>2. RequestsInOrder'
  BY DEF TaskInv, Deliver, RequestsInOrder, RequestInOrder, NoTask, TypeOK,
       DecisionsInOrder
<1>3. DecisionsInOrder'
  BY DEF TaskInv, Deliver, DecisionsInOrder, TypeOK, NoTask
<1>4. UndisturbedInOrder'
  BY DEF TaskInv, Deliver, UndisturbedInOrder, RequestsInOrder, RequestInOrder,
       ReservationsInOrder, ReservationInOrder, TypeOK
<1>5. SettledLikeTheWork'
  BY DEF TaskInv, Deliver, SettledLikeTheWork, RequestsInOrder, RequestInOrder,
       ReservationsInOrder, ReservationInOrder, UndisturbedInOrder, TypeOK
<1>6. OutputIsCharged'
  BY DEF TaskInv, Deliver, OutputIsCharged, RequestsInOrder, RequestInOrder,
       ReservationsInOrder, ReservationInOrder, UndisturbedInOrder, TypeOK
<1>7. ReservationsInOrder' /\ NoLeakedReservation'
  BY DEF TaskInv, Deliver, ReservationsInOrder, ReservationInOrder,
       NoLeakedReservation, Settling
<1>. QED  BY <1>1, <1>2, <1>3, <1>4, <1>5, <1>6, <1>7 DEF TaskInv

\* So is its failure about to be reported.
LEMMA AgentFailsKeeps ==
  ASSUME TaskInv, NEW t \in Tasks,
         AgentFails(t)
  PROVE  TaskInv'
<1>1. TypeOK'
  BY DEF TaskInv, AgentFails, TypeOK, Final, NoTask, DecisionsInOrder
<1>2. RequestsInOrder'
  BY DEF TaskInv, AgentFails, RequestsInOrder, RequestInOrder, NoTask, TypeOK,
       DecisionsInOrder
<1>3. DecisionsInOrder'
  BY DEF TaskInv, AgentFails, DecisionsInOrder, TypeOK, NoTask
<1>4. UndisturbedInOrder'
  BY DEF TaskInv, AgentFails, UndisturbedInOrder, RequestsInOrder, RequestInOrder,
       ReservationsInOrder, ReservationInOrder, TypeOK
<1>5. SettledLikeTheWork'
  BY DEF TaskInv, AgentFails, SettledLikeTheWork, RequestsInOrder, RequestInOrder,
       ReservationsInOrder, ReservationInOrder, UndisturbedInOrder, TypeOK
<1>6. OutputIsCharged'
  BY DEF TaskInv, AgentFails, OutputIsCharged, RequestsInOrder, RequestInOrder,
       ReservationsInOrder, ReservationInOrder, UndisturbedInOrder, TypeOK
<1>7. ReservationsInOrder' /\ NoLeakedReservation'
  BY DEF TaskInv, AgentFails, ReservationsInOrder, ReservationInOrder,
       NoLeakedReservation, Settling
<1>. QED  BY <1>1, <1>2, <1>3, <1>4, <1>5, <1>6, <1>7 DEF TaskInv

\* A run settles the reservation as it ended.
LEMMA ReportKeeps ==
  ASSUME TaskInv, NEW t \in Tasks,
         Report(t)
  PROVE  TaskInv'
<1>1. TypeOK'
  BY DEF TaskInv, Report, TypeOK, Final, NoTask, DecisionsInOrder
<1>2. RequestsInOrder'
  BY DEF TaskInv, Report, RequestsInOrder, RequestInOrder, NoTask, TypeOK,
       DecisionsInOrder
<1>3. ReservationsInOrder'
  BY DEF TaskInv, Report, ReservationsInOrder, ReservationInOrder, TypeOK
<1>4. UndisturbedInOrder'
  BY DEF TaskInv, Report, UndisturbedInOrder, RequestsInOrder, RequestInOrder,
       ReservationsInOrder, ReservationInOrder, TypeOK
<1>5. SettledLikeTheWork'
  BY DEF TaskInv, Report, SettledLikeTheWork, RequestsInOrder, RequestInOrder,
       ReservationsInOrder, ReservationInOrder, UndisturbedInOrder, TypeOK
<1>6. NoLeakedReservation'
  BY DEF TaskInv, Report, NoLeakedReservation, Settling, RequestsInOrder,
       RequestInOrder, ReservationsInOrder, ReservationInOrder, UndisturbedInOrder,
       TypeOK
<1>7. OutputIsCharged'
  BY DEF TaskInv, Report, OutputIsCharged, RequestsInOrder, RequestInOrder,
       ReservationsInOrder, ReservationInOrder, UndisturbedInOrder, TypeOK
<1>8. DecisionsInOrder'
  BY DEF TaskInv, Report, DecisionsInOrder
<1>. QED  BY <1>1, <1>2, <1>3, <1>4, <1>5, <1>6, <1>7, <1>8 DEF TaskInv

\* A lost report leaves the reservation disturbed.
LEMMA ReportLostKeeps ==
  ASSUME TaskInv, NEW t \in Tasks,
         ReportLost(t)
  PROVE  TaskInv'
<1>1. TypeOK'
  BY DEF TaskInv, ReportLost, TypeOK, Final, NoTask, DecisionsInOrder
<1>2. RequestsInOrder'
  BY DEF TaskInv, ReportLost, RequestsInOrder, RequestInOrder, NoTask, TypeOK,
       DecisionsInOrder
<1>3. ReservationsInOrder'
  BY DEF TaskInv, ReportLost, ReservationsInOrder, ReservationInOrder, TypeOK
<1>4. UndisturbedInOrder'
  BY DEF TaskInv, ReportLost, UndisturbedInOrder, RequestsInOrder, RequestInOrder,
       ReservationsInOrder, ReservationInOrder, TypeOK
<1>5. NoLeakedReservation'
  BY DEF TaskInv, ReportLost, NoLeakedReservation, Settling, RequestsInOrder,
       RequestInOrder, ReservationsInOrder, ReservationInOrder, UndisturbedInOrder,
       TypeOK
<1>6. OutputIsCharged'
  BY DEF TaskInv, ReportLost, OutputIsCharged, RequestsInOrder, RequestInOrder,
       ReservationsInOrder, ReservationInOrder, UndisturbedInOrder, TypeOK
<1>7. DecisionsInOrder' /\ SettledLikeTheWork'
  BY DEF TaskInv, ReportLost, DecisionsInOrder, SettledLikeTheWork
<1>. QED  BY <1>1, <1>2, <1>3, <1>4, <1>5, <1>6, <1>7 DEF TaskInv

\* So does a dead worker.
LEMMA RunnerCrashKeeps ==
  ASSUME TaskInv, NEW t \in Tasks,
         RunnerCrash(t)
  PROVE  TaskInv'
<1>1. TypeOK'
  <2>0. job \in [Tasks -> {"none", "waiting", "active", "ended", "failed"}]
    BY DEF TaskInv, TypeOK
  <2>1. job' \in [Tasks -> {"none", "waiting", "active", "ended", "failed"}]
    <3>1. CASE job' = [job EXCEPT ![t] = "waiting"]
      BY <2>0, <3>1
    <3>2. CASE job' = [job EXCEPT ![t] = "failed"]
      BY <2>0, <3>2
    <3>. QED  BY <3>1, <3>2 DEF RunnerCrash
  <2>2. stalls' \in [Tasks -> 0..MaxStalled] /\ faults' \in 0..MaxFaults
    BY TasksAssumption DEF TaskInv, RunnerCrash, TypeOK, Fault
  <2>3. run' \in [Tasks -> {"none", "agent", "COMMITTED", "RELEASED"}]
    BY DEF TaskInv, RunnerCrash, TypeOK
  <2>4. disturbed' \subseteq UserTasks
    BY DEF TaskInv, RunnerCrash, TypeOK, Disturb
  <2>. QED  BY <2>1, <2>2, <2>3, <2>4 DEF TaskInv, RunnerCrash, TypeOK, history
<1>2. RequestsInOrder'
  BY DEF TaskInv, RunnerCrash, RequestsInOrder, RequestInOrder, NoTask, TypeOK,
       DecisionsInOrder
<1>3. ReservationsInOrder'
  BY DEF TaskInv, RunnerCrash, ReservationsInOrder, ReservationInOrder, TypeOK
<1>4. UndisturbedInOrder'
  BY DEF TaskInv, RunnerCrash, UndisturbedInOrder, RequestsInOrder, RequestInOrder,
       ReservationsInOrder, ReservationInOrder, TypeOK
<1>5. NoLeakedReservation'
  BY DEF TaskInv, RunnerCrash, NoLeakedReservation, Settling, RequestsInOrder,
       RequestInOrder, ReservationsInOrder, ReservationInOrder, UndisturbedInOrder,
       TypeOK
<1>6. OutputIsCharged'
  BY DEF TaskInv, RunnerCrash, OutputIsCharged, RequestsInOrder, RequestInOrder,
       ReservationsInOrder, ReservationInOrder, UndisturbedInOrder, TypeOK
<1>7. DecisionsInOrder' /\ SettledLikeTheWork'
  BY DEF TaskInv, RunnerCrash, DecisionsInOrder, SettledLikeTheWork
<1>. QED  BY <1>1, <1>2, <1>3, <1>4, <1>5, <1>6, <1>7 DEF TaskInv

\* Approvals read a task there is.
LEMMA StartApproveKeeps ==
  ASSUME TaskInv, NEW d \in Decisions, NEW t \in Tasks, NEW supplied \in BOOLEAN,
         StartApprove(d, t, supplied)
  PROVE  TaskInv'
<1>1. TypeOK'
  BY DEF TaskInv, StartApprove, TypeOK, Final, NoTask, DecisionsInOrder
<1>2. DecisionsInOrder'
  BY DEF TaskInv, StartApprove, DecisionsInOrder, TypeOK, NoTask
<1>3. RequestsInOrder' /\ ReservationsInOrder' /\ UndisturbedInOrder' /\
     SettledLikeTheWork' /\ NoLeakedReservation' /\ OutputIsCharged'
  BY DEF TaskInv, StartApprove, RequestsInOrder, RequestInOrder, ReservationsInOrder,
       ReservationInOrder, UndisturbedInOrder, SettledLikeTheWork, NoLeakedReservation,
       Settling, OutputIsCharged
<1>. QED  BY <1>1, <1>2, <1>3 DEF TaskInv

\* So do rejections.
LEMMA StartRejectKeeps ==
  ASSUME TaskInv, NEW d \in Decisions, NEW t \in Tasks,
         StartReject(d, t)
  PROVE  TaskInv'
<1>1. TypeOK'
  BY DEF TaskInv, StartReject, TypeOK, Final, NoTask, DecisionsInOrder
<1>2. DecisionsInOrder'
  BY DEF TaskInv, StartReject, DecisionsInOrder, TypeOK, NoTask
<1>3. RequestsInOrder' /\ ReservationsInOrder' /\ UndisturbedInOrder' /\
     SettledLikeTheWork' /\ NoLeakedReservation' /\ OutputIsCharged'
  BY DEF TaskInv, StartReject, RequestsInOrder, RequestInOrder, ReservationsInOrder,
       ReservationInOrder, UndisturbedInOrder, SettledLikeTheWork, NoLeakedReservation,
       Settling, OutputIsCharged
<1>. QED  BY <1>1, <1>2, <1>3 DEF TaskInv

\* A decision writes over the row, but never takes it away.
LEMMA DecideTaskKeeps ==
  ASSUME TaskInv, NEW d \in Decisions,
         DecideTask(d)
  PROVE  TaskInv'
<1>1. TypeOK'
  <2>1. CASE decision[d].at = "approve"
    BY <2>1 DEF TaskInv, DecideTask, TypeOK, Final, NoTask, DecisionsInOrder
  <2>2. CASE ~(decision[d].at = "approve")
    BY <2>2 DEF TaskInv, DecideTask, TypeOK, Final, NoTask, DecisionsInOrder
  <2>. QED  BY <2>1, <2>2
<1>2. RequestsInOrder'
  BY DEF TaskInv, DecideTask, RequestsInOrder, RequestInOrder, NoTask, TypeOK,
       DecisionsInOrder
<1>3. DecisionsInOrder'
  BY DEF TaskInv, DecideTask, DecisionsInOrder, TypeOK, NoTask
<1>4. ReservationsInOrder' /\ UndisturbedInOrder' /\ SettledLikeTheWork' /\
     NoLeakedReservation' /\ OutputIsCharged'
  BY DEF TaskInv, DecideTask, ReservationsInOrder, ReservationInOrder,
       UndisturbedInOrder, SettledLikeTheWork, NoLeakedReservation, Settling,
       OutputIsCharged
<1>. QED  BY <1>1, <1>2, <1>3, <1>4 DEF TaskInv

\* Publishing touches the website alone.
LEMMA DecideWebsiteKeeps ==
  ASSUME TaskInv, NEW d \in Decisions,
         DecideWebsite(d)
  PROVE  TaskInv'
<1>1. TypeOK'
  <2>1. CASE decision[d].at = "publish"
    BY <2>1 DEF TaskInv, DecideWebsite, TypeOK, Final, NoTask, DecisionsInOrder
  <2>2. CASE ~(decision[d].at = "publish")
    BY <2>2 DEF TaskInv, DecideWebsite, TypeOK, Final, NoTask, DecisionsInOrder
  <2>. QED  BY <2>1, <2>2
<1>2. DecisionsInOrder'
  BY DEF TaskInv, DecideWebsite, DecisionsInOrder, TypeOK, NoTask
<1>3. RequestsInOrder' /\ ReservationsInOrder' /\ UndisturbedInOrder' /\
     SettledLikeTheWork' /\ NoLeakedReservation' /\ OutputIsCharged'
  BY DEF TaskInv, DecideWebsite, RequestsInOrder, RequestInOrder, ReservationsInOrder,
       ReservationInOrder, UndisturbedInOrder, SettledLikeTheWork, NoLeakedReservation,
       Settling, OutputIsCharged
<1>. QED  BY <1>1, <1>2, <1>3 DEF TaskInv

\* So does the administration.
LEMMA SetWebsiteKeeps ==
  ASSUME TaskInv, NEW status,
         SetWebsite(status)
  PROVE  TaskInv'
<1>1. TypeOK'
  BY DEF TaskInv, SetWebsite, TypeOK, Final, NoTask, DecisionsInOrder
<1>2. RequestsInOrder' /\ DecisionsInOrder' /\ ReservationsInOrder' /\
     UndisturbedInOrder' /\ SettledLikeTheWork' /\ NoLeakedReservation' /\
     OutputIsCharged'
  BY DEF TaskInv, SetWebsite, RequestsInOrder, RequestInOrder, DecisionsInOrder,
       ReservationsInOrder, ReservationInOrder, UndisturbedInOrder, SettledLikeTheWork,
       NoLeakedReservation, Settling, OutputIsCharged
<1>. QED  BY <1>1, <1>2 DEF TaskInv

\* TaskInv is inductive.
LEMMA NextTaskInv == TaskInv /\ [Next]_vars => TaskInv'
<1>. SUFFICES ASSUME TaskInv, [Next]_vars PROVE TaskInv'
  OBVIOUS
<1>1. ASSUME NEW t \in Tasks, Enqueue(t) PROVE TaskInv'
  BY <1>1, ReserveKeeps, QuotaRefusesKeeps, RedeployKeeps, RetryKeeps, CreateRowKeeps,
     AddJobKeeps, QueueingFailsKeeps, AddUnansweredKeeps, ReleaseKeeps,
     MarkGeneratingKeeps, RequestLostKeeps
     DEF Enqueue
<1>2. ASSUME NEW t \in Tasks, Work(t) PROVE TaskInv'
  BY <1>2, TakeKeeps, DeliverKeeps, AgentFailsKeeps, ReportKeeps DEF Work
<1>3. ASSUME NEW d \in Decisions, Decide(d) PROVE TaskInv'
  BY <1>3, StartRejectKeeps, StartApproveKeeps, DecideTaskKeeps, DecideWebsiteKeeps
       DEF Decide
<1>4. CASE UNCHANGED vars
  <2>1. TypeOK' /\ RequestsInOrder' /\ DecisionsInOrder'
    BY <1>4 DEF TaskInv, vars, TypeOK, RequestsInOrder, RequestInOrder, DecisionsInOrder
  <2>2. ReservationsInOrder' /\ UndisturbedInOrder'
    BY <1>4 DEF TaskInv, vars, ReservationsInOrder, ReservationInOrder, UndisturbedInOrder
  <2>3. SettledLikeTheWork' /\ NoLeakedReservation' /\ OutputIsCharged'
    BY <1>4 DEF TaskInv, vars, SettledLikeTheWork, NoLeakedReservation, Settling,
         OutputIsCharged
  <2>. QED  BY <2>1, <2>2, <2>3 DEF TaskInv
<1>. QED  BY <1>1, <1>2, <1>3, <1>4, ReportLostKeeps, RunnerCrashKeeps,
     SetWebsiteKeeps DEF Next
-----------------------------------------------------------------------------
(* The theorems *)

\* At every moment requests, jobs, runs and reservations are in order.
THEOREM TasksInOrder == Spec => []TaskInv
BY InitTaskInv, NextTaskInv, PTL DEF Spec

\* No reservation is committed without an output or given back without a
\* failure, for any number of retries, crashes and decisions.
THEOREM ReservationsFollowWork == Spec => []SettledLikeTheWork
<1>1. TaskInv => SettledLikeTheWork
  BY DEF TaskInv
<1>. QED  BY <1>1, TasksInOrder, PTL

\* An open reservation has its request or its job to settle it.
THEOREM NothingLeaks == Spec => []NoLeakedReservation
<1>1. TaskInv => NoLeakedReservation
  BY DEF TaskInv
<1>. QED  BY <1>1, TasksInOrder, PTL

\* What a run has stored is charged, whatever is decided meanwhile.
THEOREM WorkIsCharged == Spec => []OutputIsCharged
<1>1. TaskInv => OutputIsCharged
  BY DEF TaskInv
<1>. QED  BY <1>1, TasksInOrder, PTL

\* A job that is queued has its row.
THEOREM JobsHaveRows == Spec => []QueuedHasRow
<1>1. TaskInv => QueuedHasRow
  BY DEF TaskInv, RequestsInOrder, RequestInOrder, QueuedHasRow
<1>. QED  BY <1>1, TasksInOrder, PTL
=============================================================================
