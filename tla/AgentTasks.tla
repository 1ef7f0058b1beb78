----------------------------- MODULE AgentTasks -----------------------------
(* The AI tasks of one business: the API or the administration queues a      *)
(* task, a runner takes its job from the BullMQ queue and stores the output, *)
(* the owner or an administrator approves or rejects it, and the website     *)
(* follows.  A task started by the owner holds a reservation of the usage    *)
(* service, whose transactions are single steps here: UsageQuota shows that  *)
(* they are.                                                                 *)
EXTENDS Naturals, FiniteSets

CONSTANTS
  UserTasks,    \* tasks queued by the API for the owner (AgentService.queueTask)
  AdminTasks,   \* tasks queued by the administration (retry, redeploy)
  Decisions,    \* calls of approve and reject
  MaxStalled,   \* how often BullMQ puts back the job of a dead worker
  MaxFaults,    \* bound: crashes and lost calls
  None          \* "no reservation", "no task"

Tasks == UserTasks \cup AdminTasks
ASSUME TasksAssumption ==
  /\ IsFiniteSet(Tasks) /\ UserTasks \cap AdminTasks = {}
  /\ None \notin Tasks /\ MaxStalled \in Nat /\ MaxFaults \in Nat

VARIABLES
  request,      \* request[t]: where the call that queues t is
  input,        \* input[t]: the reservation in the input of t, and whether its
                \* output needs no approval
  reservation,  \* reservation[t]: status of the reservation made for t
  task,         \* task[t]: row of AgentTask
  job,          \* job[t]: the BullMQ job of t
  stalls,       \* stalls[t]: how often the job was put back
  run,          \* run[t]: what the runner that has the job is doing
  website,      \* status of the Website
  decision,     \* decision[d]: where the call d is, and its task
  delivered,    \* tasks of which a run has stored an output
  spoiled,      \* tasks of which a run has failed
  disturbed,    \* reservations that a fault or a retry has touched
  faults        \* faults so far
queue == <<job, stalls, run>>
history == <<delivered, spoiled>>
vars == <<request, input, reservation, task, queue, website, decision, history,
          disturbed, faults>>

NoTask == [status |-> "ABSENT", output |-> "none"]
Final == {"PENDING_APPROVAL", "COMPLETED", "FAILED"}

Init ==
  /\ request = [t \in Tasks |-> "idle"]
  /\ input = [t \in Tasks |-> [holds |-> None, direct |-> FALSE]]
  /\ reservation = [t \in UserTasks |-> "ABSENT"]
  /\ task = [t \in Tasks |-> NoTask]
  /\ job = [t \in Tasks |-> "none"]
  /\ stalls = [t \in Tasks |-> 0]
  /\ run = [t \in Tasks |-> "none"]
  /\ website = "DRAFT"
  /\ decision = [d \in Decisions |-> [at |-> "idle", on |-> None]]
  /\ delivered = {} /\ spoiled = {} /\ disturbed = {}
  /\ faults = 0

Goto(t, label) == request' = [request EXCEPT ![t] = label]
Fault == faults < MaxFaults /\ faults' = faults + 1
Disturb(r) == disturbed' = disturbed \cup ({r} \ {None})
\* commitReservation, of a reservation not settled before (UsageLedger).
Settle(r, outcome) ==
  reservation' = [u \in UserTasks |->
    IF u = r /\ reservation[u] = "RESERVED" THEN outcome ELSE reservation[u]]
-----------------------------------------------------------------------------
(* Queueing a task *)

\* queueTask: the quota allows the task, and it is reserved for, or refuses it.
\* The output of a direct task (a reply, a social post) needs no approval.
Reserve(t, direct) ==
  /\ t \in UserTasks /\ request[t] = "idle"
  /\ reservation' = [reservation EXCEPT ![t] = "RESERVED"]
  /\ input' = [input EXCEPT ![t] = [holds |-> t, direct |-> direct]]
  /\ Goto(t, "create")
  /\ UNCHANGED <<task, queue, website, decision, history, disturbed, faults>>

QuotaRefuses(t) ==
  /\ t \in UserTasks /\ request[t] = "idle"
  /\ Goto(t, "refused")
  /\ UNCHANGED <<input, reservation, task, queue, website, decision, history, disturbed,
                 faults>>

\* Administration: the retry of a task has its input, with its reservation; a
\* redeployment has none.
Retry(t, old) ==
  /\ t \in AdminTasks /\ request[t] = "idle" /\ task[old].status # "ABSENT"
  /\ input' = [input EXCEPT ![t] = input[old]]
  /\ Disturb(input[old].holds)
  /\ Goto(t, "create")
  /\ UNCHANGED <<reservation, task, queue, website, decision, history, faults>>

Redeploy(t) ==
  /\ t \in AdminTasks /\ request[t] = "idle"
  /\ Goto(t, "create")
  /\ UNCHANGED <<input, reservation, task, queue, website, decision, history, disturbed,
                 faults>>

\* (mistake) a failing insertion of the row is ignored.
CreateRowSwallowed(t) ==
  /\ request[t] = "create"
  /\ Goto(t, "add")
  /\ UNCHANGED <<input, reservation, task, queue, website, decision, history, disturbed,
                 faults>>

CreateRow(t) ==
  /\ request[t] = "create"
  /\ task' = [task EXCEPT ![t] = [NoTask EXCEPT !.status = "QUEUED"]]
  /\ Goto(t, "add")
  /\ UNCHANGED <<input, reservation, queue, website, decision, history, disturbed, faults>>

AddJob(t) ==
  /\ request[t] = "add"
  /\ job' = [job EXCEPT ![t] = "waiting"]
  /\ Goto(t, IF input[t].direct THEN "done" ELSE "mark")
  /\ UNCHANGED <<input, reservation, task, stalls, run, website, decision, history,
                 disturbed, faults>>

\* (mistake) the reservation is not given back.
UnwindNothing(t) == Goto(t, "failed")

\* The row or the job cannot be stored: queueTask gives the reservation back.
Unwind(t) == Goto(t, IF t \in UserTasks THEN "release" ELSE "failed")
QueueingFails(t) ==
  /\ request[t] \in {"create", "add"}
  /\ Unwind(t)
  /\ UNCHANGED <<input, reservation, task, queue, website, decision, history, disturbed,
                 faults>>

\* Redis has the job, but its answer is lost.
AddUnanswered(t) ==
  /\ request[t] = "add" /\ Fault
  /\ job' = [job EXCEPT ![t] = "waiting"]
  /\ Unwind(t)
  /\ Disturb(input[t].holds)
  /\ UNCHANGED <<input, reservation, task, stalls, run, website, decision, history>>

Release(t) ==
  /\ request[t] = "release"
  /\ Settle(t, "RELEASED")
  /\ Goto(t, "failed")
  /\ UNCHANGED <<input, task, queue, website, decision, history, disturbed, faults>>

\* deployWebsite, retry and redeploy: once queued, the website is generating.
MarkGenerating(t) ==
  /\ request[t] = "mark"
  /\ website' = "GENERATING"
  /\ Goto(t, "done")
  /\ UNCHANGED <<input, reservation, task, queue, decision, history, disturbed, faults>>

\* The process dies, or the release of the reservation fails and is swallowed.
RequestLost(t) ==
  /\ request[t] \in {"create", "add", "release", "mark"} /\ Fault
  /\ Goto(t, "lost")
  /\ Disturb(input[t].holds)
  /\ UNCHANGED <<input, reservation, task, queue, website, decision, history>>
-----------------------------------------------------------------------------
(* The runner *)

\* A worker takes the job and marks the row, or inserts it.
Take(t) ==
  /\ job[t] = "waiting"
  /\ job' = [job EXCEPT ![t] = "active"]
  /\ run' = [run EXCEPT ![t] = "agent"]
  /\ task' = [task EXCEPT ![t].status = "PROCESSING"]
  /\ UNCHANGED <<request, input, reservation, stalls, website, decision, history,
                 disturbed, faults>>

\* The agent is through: the row is overwritten, whatever it is by now.
Deliver(t) ==
  /\ run[t] = "agent"
  /\ task' = [task EXCEPT ![t] =
       IF input[t].direct THEN [status |-> "COMPLETED", output |-> "reply"]
       ELSE [status |-> "PENDING_APPROVAL", output |-> "generated"]]
  /\ delivered' = delivered \cup {t}
  /\ run' = [run EXCEPT ![t] = "COMMITTED"]
  /\ UNCHANGED <<request, input, reservation, job, stalls, website, decision, spoiled,
                 disturbed, faults>>

\* (mistake) an agent that throws ends its job and nothing else.
AgentFailsUnhandled(t) ==
  /\ run[t] = "agent"
  /\ spoiled' = spoiled \cup {t}
  /\ job' = [job EXCEPT ![t] = "ended"] /\ run' = [run EXCEPT ![t] = "none"]
  /\ UNCHANGED <<request, input, reservation, task, stalls, website, decision, delivered,
                 disturbed, faults>>

AgentFails(t) ==
  /\ run[t] = "agent"
  /\ task' = [task EXCEPT ![t] = [status |-> "FAILED", output |-> "error"]]
  /\ spoiled' = spoiled \cup {t}
  /\ run' = [run EXCEPT ![t] = "RELEASED"]
  /\ UNCHANGED <<request, input, reservation, job, stalls, website, decision, delivered,
                 disturbed, faults>>

EndJob(t) == job' = [job EXCEPT ![t] = "ended"] /\ run' = [run EXCEPT ![t] = "none"]

\* (mistake) the outcome is read from the row, where a decision may have changed it.
ReportStored(t) ==
  /\ run[t] \in {"COMMITTED", "RELEASED"}
  /\ Settle(input[t].holds, IF task[t].status = "FAILED" THEN "RELEASED" ELSE "COMMITTED")
  /\ EndJob(t)
  /\ UNCHANGED <<request, input, task, stalls, website, decision, history, disturbed,
                 faults>>

\* _report_usage says how this run ended, and the job is done.
Report(t) ==
  /\ run[t] \in {"COMMITTED", "RELEASED"}
  /\ Settle(input[t].holds, run[t])
  /\ EndJob(t)
  /\ UNCHANGED <<request, input, task, stalls, website, decision, history, disturbed,
                 faults>>

\* The call fails: it is logged, and the job is done.
ReportLost(t) ==
  /\ run[t] \in {"COMMITTED", "RELEASED"} /\ Fault
  /\ Disturb(input[t].holds)
  /\ EndJob(t)
  /\ UNCHANGED <<request, input, reservation, task, stalls, website, decision, history>>

\* The worker dies: its stalled job is put back, the last time it has failed.
RunnerCrash(t) ==
  /\ job[t] = "active" /\ Fault
  /\ IF stalls[t] < MaxStalled
     THEN /\ job' = [job EXCEPT ![t] = "waiting"]
          /\ stalls' = [stalls EXCEPT ![t] = @ + 1]
     ELSE job' = [job EXCEPT ![t] = "failed"] /\ UNCHANGED stalls
  /\ run' = [run EXCEPT ![t] = "none"]
  /\ Disturb(input[t].holds)
  /\ UNCHANGED <<request, input, reservation, task, website, decision, history>>
-----------------------------------------------------------------------------
(* Decisions: the row is read first, and its status never looked at.  What   *)
(* is approved is the content of the call, or what the row holds.            *)

StartApprove(d, t, supplied) ==
  /\ decision[d].at = "idle" /\ task[t].status # "ABSENT"
  /\ supplied \/ task[t].output \in {"generated", "approved"}
  /\ decision' = [decision EXCEPT ![d] = [at |-> "approve", on |-> t]]
  /\ UNCHANGED <<request, input, reservation, task, queue, website, history, disturbed,
                 faults>>

StartReject(d, t) ==
  /\ decision[d].at = "idle" /\ task[t].status # "ABSENT"
  /\ decision' = [decision EXCEPT ![d] = [at |-> "reject", on |-> t]]
  /\ UNCHANGED <<request, input, reservation, task, queue, website, history, disturbed,
                 faults>>

DecideTask(d) ==
  /\ decision[d].at \in {"approve", "reject"}
  /\ task' = [task EXCEPT ![decision[d].on] =
       IF decision[d].at = "approve"
       THEN [status |-> "COMPLETED", output |-> "approved"]
       ELSE [status |-> "FAILED", output |-> "error"]]
  /\ decision' = [decision EXCEPT ![d].at =
       IF decision[d].at = "approve" THEN "publish" ELSE "fail"]
  /\ UNCHANGED <<request, input, reservation, queue, website, history, disturbed, faults>>

DecideWebsite(d) ==
  /\ decision[d].at \in {"publish", "fail"}
  /\ website' = IF decision[d].at = "publish" THEN "PUBLISHED" ELSE "FAILED"
  /\ decision' = [decision EXCEPT ![d].at = "done"]
  /\ UNCHANGED <<request, input, reservation, task, queue, history, disturbed, faults>>

\* Administration: publish, unpublish and suspend set the status alone.
SetWebsite(status) ==
  /\ status \in {"PUBLISHED", "UNPUBLISHED", "SUSPENDED"}
  /\ website' = status
  /\ UNCHANGED <<request, input, reservation, task, queue, decision, history, disturbed,
                 faults>>
-----------------------------------------------------------------------------
Enqueue(t) ==
  \/ \E direct \in BOOLEAN : Reserve(t, direct)
  \/ QuotaRefuses(t) \/ Redeploy(t) \/ \E old \in Tasks : Retry(t, old)
  \/ CreateRow(t) \/ AddJob(t) \/ QueueingFails(t) \/ AddUnanswered(t)
  \/ Release(t) \/ MarkGenerating(t) \/ RequestLost(t)
Work(t) == Take(t) \/ Deliver(t) \/ AgentFails(t) \/ Report(t)
Decide(d) ==
  \/ \E t \in Tasks : \/ StartReject(d, t)
                     \/ \E supplied \in BOOLEAN : StartApprove(d, t, supplied)
  \/ DecideTask(d) \/ DecideWebsite(d)

Next ==
  \/ \E t \in Tasks : Enqueue(t) \/ Work(t) \/ ReportLost(t) \/ RunnerCrash(t)
  \/ \E d \in Decisions : Decide(d)
  \/ \E status \in {"PUBLISHED", "UNPUBLISHED", "SUSPENDED"} : SetWebsite(status)

Spec == Init /\ [][Next]_vars
\* There is always a runner, and its agents end (they are bounded by timeouts).
FairSpec == Spec /\ \A t \in Tasks : WF_vars(Work(t))
-----------------------------------------------------------------------------
TypeOK ==
  /\ request \in [Tasks -> {"idle", "create", "add", "mark", "release", "refused", "done",
                            "failed", "lost"}]
  /\ input \in [Tasks -> [holds : UserTasks \cup {None}, direct : BOOLEAN]]
  /\ reservation \in [UserTasks -> {"ABSENT", "RESERVED", "COMMITTED", "RELEASED"}]
  /\ task \in [Tasks -> [status : {"ABSENT", "QUEUED", "PROCESSING"} \cup Final,
                         output : {"none", "reply", "generated", "approved", "error"}]]
  /\ job \in [Tasks -> {"none", "waiting", "active", "ended", "failed"}]
  /\ stalls \in [Tasks -> 0..MaxStalled]
  /\ run \in [Tasks -> {"none", "agent", "COMMITTED", "RELEASED"}]
  /\ website \in {"DRAFT", "GENERATING", "PUBLISHED", "UNPUBLISHED", "SUSPENDED", "FAILED"}
  /\ decision \in [Decisions -> [on : Tasks \cup {None},
                    at : {"idle", "approve", "reject", "publish", "fail", "done"}]]
  /\ delivered \subseteq Tasks /\ spoiled \subseteq Tasks /\ disturbed \subseteq UserTasks
  /\ faults \in 0..MaxFaults

\* Nothing is spent for work that was not done: a reservation is committed only
\* for an output that some run with it stored, and given back only when its
\* queueing failed or some run with it failed.
SettledLikeTheWork == \A r \in UserTasks :
  /\ reservation[r] = "COMMITTED" => \E t \in delivered : input[t].holds = r
  /\ reservation[r] = "RELEASED" =>
       request[r] = "failed" \/ \E t \in spoiled : input[t].holds = r

\* No reservation leaks: one that is open has its request or its job to settle it.
Settling(r) == \/ request[r] \in {"create", "add", "release"}
               \/ job[r] \in {"waiting", "active"}
NoLeakedReservation == \A r \in UserTasks :
  reservation[r] = "RESERVED" => Settling(r) \/ r \in disturbed

\* No work for nothing: an output is charged, or its run is about to charge it,
\* whatever is decided about the task meanwhile.
OutputIsCharged == \A t \in delivered :
  LET r == input[t].holds IN
  r = None \/ reservation[r] = "COMMITTED" \/ run[t] = "COMMITTED" \/ r \in disturbed

\* Whoever polls a task finds it from the moment its job is queued, and what a
\* worker takes has a row of its kind that is not back in the queue.
QueuedHasRow == \A t \in Tasks :
  /\ job[t] # "none" => task[t].status # "ABSENT"
  /\ job[t] \in {"active", "ended", "failed"} => task[t].status # "QUEUED"

\* A job that is queued ends with a task that is decided or to be decided, unless
\* its workers die more often than BullMQ puts it back.
TasksFinish == \A t \in Tasks :
  job[t] = "waiting" ~> job[t] = "failed" \/ (job[t] = "ended" /\ task[t].status \in Final)
-----------------------------------------------------------------------------
(* Why it holds *)

\* What belongs to what, at every place a request, its job and its run can be.
RequestInOrder(t) ==
  /\ request[t] \in {"idle", "refused", "create"} => task[t].status = "ABSENT"
  /\ request[t] \in {"idle", "refused", "create", "add"} => job[t] = "none"
  /\ request[t] = "add" => task[t].status # "ABSENT"
  /\ job[t] # "none" => task[t].status # "ABSENT"
  /\ job[t] \in {"active", "ended", "failed"} => task[t].status # "QUEUED"
  /\ job[t] = "active" <=> run[t] # "none"
  /\ job[t] = "none" => t \notin delivered \cup spoiled
  /\ run[t] = "COMMITTED" => t \in delivered
  /\ run[t] = "RELEASED" => t \in spoiled
RequestsInOrder == \A t \in Tasks : RequestInOrder(t)

\* A reservation is its own task's, and another task has it only by a retry.
ReservationInOrder(r) ==
  /\ input[r].holds = IF request[r] \in {"idle", "refused"} THEN None ELSE r
  /\ reservation[r] = "ABSENT" <=> request[r] \in {"idle", "refused"}
  /\ \A t \in Tasks \ {r} : input[t].holds = r => r \in disturbed
ReservationsInOrder == \A r \in UserTasks : ReservationInOrder(r)

\* Undisturbed, a task is run once and its reservation open until it is through.
UndisturbedInOrder == \A r \in UserTasks \ disturbed :
  /\ request[r] \in {"release", "failed"} => job[r] = "none"
  /\ r \in delivered \cup spoiled =>
       run[r] \in {"COMMITTED", "RELEASED"} \/ job[r] = "ended"
  /\ job[r] \in {"waiting", "active"} => reservation[r] = "RESERVED"
  /\ request[r] \in {"create", "add", "release"} => reservation[r] = "RESERVED"
  /\ ~(r \in delivered /\ r \in spoiled)

\* What is being decided is a task there is.
DecisionsInOrder == \A d \in Decisions : decision[d].at # "idle" =>
  decision[d].on \in Tasks /\ task[decision[d].on].status # "ABSENT"

TaskInv ==
  /\ TypeOK /\ RequestsInOrder /\ DecisionsInOrder
  /\ ReservationsInOrder /\ UndisturbedInOrder
  /\ SettledLikeTheWork /\ NoLeakedReservation /\ OutputIsCharged
=============================================================================
