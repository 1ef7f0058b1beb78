----------------------------- MODULE UsageQuota -----------------------------
(* UsageService for one user: concurrent reservations and settlements, each  *)
(* a transaction with row locks on the month's AiUsagePeriod and on the      *)
(* AiUsageEvent, while the plan and the month may change.                    *)
EXTENDS UsageData

CONSTANT Settlers   \* calls of commitReservation (the runner, the API itself)
ASSUME SettlersAssumption == None \notin Settlers /\ Settlers \cap EventIds = {}

\* A call that reserves is named by the id (a fresh uuid) it reserves under.
Calls == EventIds \cup Settlers

VARIABLES
  plan,    \* the effective plan of the user
  month,   \* the month it is, in the plan's time zone
  event,   \* event[e]: committed row of AiUsageEvent
  period,  \* period[m]: committed row of AiUsagePeriod
  plock,   \* plock[m]: call whose transaction holds the period's row lock
  elock,   \* elock[e]: call whose transaction holds the event's row lock
  pc,      \* pc[c]: where call c is
  call     \* call[c]: what it reserves or settles, under which plan and month,
           \* and the period as it read it
vars == <<plan, month, event, period, plock, elock, pc, call>>
tables == <<event, period>>
world == <<plan, month>>

Periods == [used : Nat, reserved : Nat, tokensUsed : Nat, tokensReserved : Nat]
NewPeriod == [used |-> 0, reserved |-> 0, tokensUsed |-> 0, tokensReserved |-> 0]
Outcomes == {"COMMITTED", "RELEASED"}
CallsOf == [on : EventIds \cup {None}, plan : Plans, month : Months, amount : Amounts,
            estimate : Amounts, outcome : Outcomes, reported : Amounts \cup {None},
            seen : Periods]
Floor0(n) == IF n < 0 THEN 0 ELSE n

Init ==
  /\ plan \in Plans /\ month \in Months
  /\ event = [e \in EventIds |-> NoEvent]
  /\ period = [m \in Months |-> NewPeriod]
  /\ plock = [m \in Months |-> None]
  /\ elock = [e \in EventIds |-> None]
  /\ pc = [c \in Calls |-> "idle"]
  /\ call = [c \in Calls |-> [on |-> None, plan |-> plan, month |-> month, amount |-> 0,
                              estimate |-> 0, outcome |-> "RELEASED", reported |-> None,
                              seen |-> NewPeriod]]

Goto(c, label) == pc' = [pc EXCEPT ![c] = label]
Unlock(c) ==
  /\ plock' = [m \in Months |-> IF plock[m] = c THEN None ELSE plock[m]]
  /\ elock' = [e \in EventIds |-> IF elock[e] = c THEN None ELSE elock[e]]
-----------------------------------------------------------------------------
(* reserve *)

\* The plan and the month are read before the transaction starts.
StartReserve(c, amount, estimate) ==
  /\ c \in EventIds /\ pc[c] = "idle"
  /\ call' = [call EXCEPT ![c] = [@ EXCEPT !.on = c, !.plan = plan, !.month = month,
                                          !.amount = amount, !.estimate = estimate]]
  /\ Goto(c, "reserve")
  /\ UNCHANGED <<world, tables, plock, elock>>

\* (mistake) the period is read without FOR UPDATE.
LockForReserveUnlocked(c) ==
  /\ pc[c] = "reserve"
  /\ call' = [call EXCEPT ![c].seen = period[call[c].month]]
  /\ Goto(c, "check")
  /\ UNCHANGED <<world, tables, plock, elock>>

\* withPeriodLock: insert the period if it is new, SELECT ... FOR UPDATE.
LockForReserve(c) ==
  /\ pc[c] = "reserve" /\ plock[call[c].month] = None
  /\ plock' = [plock EXCEPT ![call[c].month] = c]
  /\ call' = [call EXCEPT ![c].seen = period[call[c].month]]
  /\ Goto(c, "check")
  /\ UNCHANGED <<world, tables, elock>>

\* (mistake) the check leaves out what is reserved and not yet used.
WithinQuotaUsedOnly(j) ==
  Fits(j.plan, j.seen.used, j.amount, j.seen.tokensUsed, j.estimate)

\* assertWithinQuota on the period as it was read; the update that follows adds
\* to the period as it is.
WithinQuota(j) ==
  Fits(j.plan, j.seen.used + j.seen.reserved, j.amount,
       j.seen.tokensUsed + j.seen.tokensReserved, j.estimate)

Refuse(c) ==
  /\ pc[c] = "check" /\ ~WithinQuota(call[c])
  /\ Unlock(c)
  /\ Goto(c, "refused")
  /\ UNCHANGED <<world, tables, call>>

CommitReserve(c) ==
  /\ pc[c] = "check" /\ WithinQuota(call[c])
  /\ period' = [period EXCEPT
       ![call[c].month].reserved = @ + call[c].amount,
       ![call[c].month].tokensReserved = @ + call[c].estimate]
  /\ event' = [event EXCEPT ![c] =
       Reservation(call[c].month, call[c].amount, call[c].estimate)]
  /\ Unlock(c)
  /\ Goto(c, "done")
  /\ UNCHANGED <<world, call>>
-----------------------------------------------------------------------------
(* commitReservation *)

\* Anyone who was given a reservation's id may settle it, more than once; a
\* release reports no tokens.
StartSettle(c, e, outcome, reported) ==
  /\ c \in Settlers /\ pc[c] = "idle"
  /\ event[e].status # "ABSENT"
  /\ outcome = "RELEASED" => reported = None
  /\ call' = [call EXCEPT ![c] = [@ EXCEPT !.on = e, !.outcome = outcome,
                                          !.reported = reported]]
  /\ Goto(c, "settle")
  /\ UNCHANGED <<world, tables, plock, elock>>

\* (mistake) the event's status is not looked at again under its lock.
LockEventUnchecked(c) ==
  /\ pc[c] = "settle" /\ elock[call[c].on] = None
  /\ elock' = [elock EXCEPT ![call[c].on] = c]
  /\ call' = [call EXCEPT ![c].month = event[call[c].on].month]
  /\ Goto(c, "lockPeriod")
  /\ UNCHANGED <<world, tables, plock>>

\* (mistake) the settlement is counted in the month it is made.
LockEventThisMonth(c) ==
  /\ pc[c] = "settle" /\ elock[call[c].on] = None
  /\ event[call[c].on].status = "RESERVED"
  /\ elock' = [elock EXCEPT ![call[c].on] = c]
  /\ call' = [call EXCEPT ![c].month = month]
  /\ Goto(c, "lockPeriod")
  /\ UNCHANGED <<world, tables, plock>>

\* SELECT the event FOR UPDATE; go on only while it is RESERVED.
LockEvent(c) ==
  /\ pc[c] = "settle" /\ elock[call[c].on] = None
  /\ event[call[c].on].status = "RESERVED"
  /\ elock' = [elock EXCEPT ![call[c].on] = c]
  /\ call' = [call EXCEPT ![c].month = event[call[c].on].month]
  /\ Goto(c, "lockPeriod")
  /\ UNCHANGED <<world, tables, plock>>

AlreadySettled(c) ==
  /\ pc[c] = "settle" /\ elock[call[c].on] = None
  /\ event[call[c].on].status # "RESERVED"
  /\ Goto(c, "done")
  /\ UNCHANGED <<world, tables, plock, elock, call>>

LockPeriod(c) ==
  /\ pc[c] = "lockPeriod" /\ plock[call[c].month] = None
  /\ plock' = [plock EXCEPT ![call[c].month] = c]
  /\ Goto(c, "update")
  /\ UNCHANGED <<world, tables, elock, call>>

\* (mistake) the total is added to what is used, the estimate stays reserved.
SettledKeepsEstimate(now, ev, j) ==
  IF j.outcome = "COMMITTED"
  THEN [now EXCEPT !.reserved = Floor0(@ - ev.amount), !.used = @ + ev.amount,
                   !.tokensUsed = @ + Resolve(j.reported, ev.estimate)]
  ELSE [now EXCEPT !.reserved = Floor0(@ - ev.amount)]

\* The period after event ev is settled as j asks.
Settled(now, ev, j) ==
  LET freed == [now EXCEPT !.reserved = Floor0(@ - ev.amount),
                           !.tokensReserved = Floor0(@ - ev.estimate)]
  IN  IF j.outcome = "COMMITTED"
      THEN [freed EXCEPT !.used = @ + ev.amount,
                         !.tokensUsed = @ + Resolve(j.reported, ev.estimate)]
      ELSE freed

CommitSettle(c) ==
  LET j == call[c]
      ev == event[j.on]
  IN  /\ pc[c] = "update"
      /\ period' = [period EXCEPT ![j.month] = Settled(@, ev, j)]
      /\ event' = [event EXCEPT ![j.on] =
           [ev EXCEPT !.status = j.outcome,
                      !.total = IF j.outcome = "COMMITTED"
                                THEN Resolve(j.reported, ev.estimate) ELSE @]]
      /\ Unlock(c)
      /\ Goto(c, "done")
      /\ UNCHANGED <<world, call>>
-----------------------------------------------------------------------------
Running(c) == pc[c] \notin {"idle", "done", "refused", "failed"}

\* (mistake) a failed transaction is not rolled back and keeps its locks.
CrashKeepsLocks(c) ==
  /\ Running(c)
  /\ Goto(c, "failed")
  /\ UNCHANGED <<world, tables, plock, elock, call>>

\* The process or its connection dies: the open transaction is rolled back.
Crash(c) ==
  /\ Running(c)
  /\ Unlock(c)
  /\ Goto(c, "failed")
  /\ UNCHANGED <<world, tables, call>>

\* A subscription is bought, changed or runs out; a month ends.
ChangePlan ==
  /\ plan' \in Plans \ {plan}
  /\ UNCHANGED <<month, tables, plock, elock, pc, call>>
ChangeMonth ==
  /\ month' \in Months \ {month}
  /\ UNCHANGED <<plan, tables, plock, elock, pc, call>>

Step(c) ==
  \/ LockForReserve(c) \/ Refuse(c) \/ CommitReserve(c)
  \/ LockEvent(c) \/ AlreadySettled(c) \/ LockPeriod(c) \/ CommitSettle(c)

Next ==
  \/ \E c \in Calls :
       \/ \E amount, estimate \in Amounts : StartReserve(c, amount, estimate)
       \/ \E e \in EventIds, outcome \in Outcomes, reported \in Amounts \cup {None} :
            StartSettle(c, e, outcome, reported)
       \/ Step(c) \/ Crash(c)
  \/ ChangePlan \/ ChangeMonth

Spec == Init /\ [][Next]_vars
\* A call that has started goes on while its next statement can run.
FairSpec == Spec /\ \A c \in Calls : WF_vars(Step(c))
-----------------------------------------------------------------------------
TypeOK ==
  /\ plan \in Plans /\ month \in Months
  /\ event \in [EventIds -> Events]
  /\ period \in [Months -> Periods]
  /\ plock \in [Months -> Calls \cup {None}]
  /\ elock \in [EventIds -> Calls \cup {None}]
  /\ pc \in [Calls -> {"idle", "reserve", "check", "settle", "lockPeriod", "update",
                       "done", "refused", "failed"}]
  /\ call \in [Calls -> CallsOf]

\* The counters of a month are what its reservations add up to: none is lost,
\* freed twice or counted in another month, whoever settles when.
CountersMatch == \A m \in Months :
  /\ period[m].used = CounterOf(event, m, "COMMITTED")
  /\ period[m].reserved = CounterOf(event, m, "RESERVED")
  /\ period[m].tokensUsed = SpentOf(event, m)
  /\ period[m].tokensReserved = EstimateOf(event, m, "RESERVED")

\* Racing reservations never take a month's counter beyond the largest plan
\* the user had.
CounterWithinPlans == \A m \in Months :
  \E pl \in Plans : period[m].used + period[m].reserved <= pl.counter

\* Tokens go beyond it only by what tasks used in excess of their estimate.
TokensWithinPlans == \A m \in Months :
  \E pl \in Plans :
    period[m].tokensUsed + period[m].tokensReserved <= pl.tokens + ExcessOf(event, m)

\* A reservation is settled once; a late or repeated settlement changes nothing.
SettledOnce ==
  [][\A e \in EventIds : event[e].status \in Outcomes => event'[e] = event[e]]_vars

\* Every call ends: no two transactions wait for each other's rows.
CallsFinish == \A c \in Calls : Running(c) ~> ~Running(c)
-----------------------------------------------------------------------------
(* Why it holds *)

\* A reserving call has not inserted its event; a settling one that holds it
\* found it RESERVED, and works on its month; what a call checks is still so.
CallInOrder(c) ==
  /\ pc[c] \in {"idle", "reserve", "check"} /\ c \in EventIds => event[c] = NoEvent
  /\ pc[c] \in {"reserve", "check"} => c \in EventIds /\ call[c].on = c
  /\ pc[c] \in {"settle", "lockPeriod", "update"} => c \in Settlers /\ call[c].on \in EventIds
  /\ pc[c] \in {"lockPeriod", "update"} =>
       /\ elock[call[c].on] = c
       /\ event[call[c].on].status = "RESERVED"
       /\ event[call[c].on].month = call[c].month
  /\ pc[c] \in {"check", "update"} => plock[call[c].month] = c
  /\ pc[c] = "check" => call[c].seen = period[call[c].month]
CallsInOrder == \A c \in Calls : CallInOrder(c)

\* Events that exist belong to a month.
EventsDated == \A e \in EventIds : event[e] # NoEvent => event[e].month \in Months

QuotaInv == TypeOK /\ CallsInOrder /\ EventsDated /\ CountersMatch
-----------------------------------------------------------------------------
Ledger == INSTANCE UsageLedger WITH ledger <- event
\* The service keeps the ledger it promises.
KeepsLedger == Ledger!Spec
=============================================================================
