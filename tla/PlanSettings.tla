---------------------------- MODULE PlanSettings ----------------------------
(* The administrators' editing of the subscription plans: every request      *)
(* reads the latest settings row, changes what it has read, saves the whole  *)
(* of it again and then writes its audit record.  Nothing is locked.         *)
EXTENDS PlanCatalogue, FiniteSets

CONSTANTS
  Admins,    \* the requests of administrators that may be open at once
  MaxSaves,  \* bound: number of saves
  Edited,    \* the plans of the defaults that they edit
  Now,       \* the day
  NewId(_, _, _)  \* the id of a plan that is created, of its tier, the request and the time

\* What the forms say of a plan's tier, which they call its code.
NewTiers == {"PRO", "VIP"}
EditedTiers == {"", "PRO", "GOLD"}
ASSUME PlanSettingsAssumption == MaxSaves \in Nat /\ Now \in Nat \ {0} /\ Edited \subseteq DOMAIN DefaultQuotas
\* An id has a hyphen and the time in it: it is none of a default plan, and none
\* of a plan that was created before.
ASSUME NewIdsAssumption ==
  \A t, u \in NewTiers, a, b \in Admins, m, n \in 0..MaxSaves :
    /\ NewId(t, a, m) \notin DOMAIN DefaultQuotas
    /\ m # n => NewId(t, a, m) # NewId(u, b, n)
\* createPlanId: the runs' NewId; two requests of one tier between the same two
\* saves may get one id, as they do within a millisecond.
PlanId(tier, a, time) == tier \o "-" \o ToString(time)

VARIABLES
  rows,    \* the template rows named subscription-plan-settings, oldest first
  call,    \* call[a]: its operation, where it is, the row it read and what it will
           \* save; history: whether that gives a plan a code that clashes
  saved,   \* history: every save, the number of saves its read had seen, whether
           \* the row it wrote was the latest no more, the plans that are not
           \* what they were before it, and whether its own plan is offered then
  audited  \* operations with an audit record
planVars == <<rows, call, saved, audited>>

NoCall == [at |-> "idle", op |-> "toggle", id |-> "", clash |-> FALSE, row |-> 0,
           seen |-> 0, after |-> NoSettings]
PlansInit ==
  /\ rows = << >>
  /\ call = [a \in Admins |-> NoCall]
  /\ saved = << >>
  /\ audited = {}

\* getSettingsRow: the latest row, if there is one, normalized.
Latest(table) == NormalizeSettings(IF table = << >> THEN NoSettings ELSE table[Len(table)])
Current == Latest(rows)
Offered == Ids(Current.plans)

\* createPlan: the time is told by the saves there have been.
NewPlan(a, tier) ==
  [id |-> NewId(tier, a, Len(saved)), tier |-> tier, price |-> 0, status |-> "DRAFT",
   starts |-> NoDate, ends |-> NoDate, quotas |-> Quotas(150, 3, 0, 15, 3, 2)]
\* planFromInput over an existing plan, with the code, the price and the dates of
\* the form; a code that is not given stays.
GivenTier(plan, tier) == IF tier = "" THEN plan.tier ELSE tier
EditPlan(plan, tier, price, ends) ==
  [plan EXCEPT !.tier = GivenTier(plan, tier), !.price = price, !.starts = NoDate, !.ends = ends]
\* History: a default plan gets another code, or an added one the code of a default
\* (of which the next reading takes the first plan only).
Clashes(plan, tier) ==
  /\ GivenTier(plan, tier) # plan.tier
  /\ plan.id \in DOMAIN DefaultQuotas \/ tier \in SubscriptionTiers
Toggled(plan) ==
  [plan EXCEPT !.status = IF EffectiveStatus(plan, Now) = "ACTIVE" THEN "INACTIVE" ELSE "ACTIVE"]
MapPlan(s, id, Change(_)) ==
  [s EXCEPT !.plans = [i \in DOMAIN @ |-> IF @[i].id = id THEN Change(@[i]) ELSE @[i]]]

\* A request has read the row; `after` is what it is going to save.
Begin(a, op, id, clash, after) ==
  /\ call[a].at = "idle" /\ Len(saved) < MaxSaves
  /\ call' = [call EXCEPT ![a] = [at |-> "save", op |-> op, id |-> id, clash |-> clash,
                                  row |-> Len(rows), seen |-> Len(saved), after |-> after]]
  /\ UNCHANGED <<rows, saved, audited>>
BeginCreate(a, tier) ==
  Begin(a, "create", NewPlan(a, tier).id, tier \in SubscriptionTiers,
        [Current EXCEPT !.plans = Append(@, NewPlan(a, tier))])
BeginUpdate(a, id, tier, price, ends) ==
  LET before == Current IN
  /\ id \in Ids(before.plans)
  /\ Begin(a, "update", id, \E i \in DOMAIN before.plans : before.plans[i].id = id /\ Clashes(before.plans[i], tier),
           MapPlan(before, id, LAMBDA p : EditPlan(p, tier, price, ends)))
\* Mutant: the plans of the code of the deleted one go with it.
WithoutCode(plans, id) ==
  Kept(plans, {i \in DOMAIN plans : \A j \in DOMAIN plans : plans[j].id = id => plans[i].tier # plans[j].tier})
Without(plans, id) == Kept(plans, {i \in DOMAIN plans : plans[i].id # id})
BeginDelete(a, id) ==
  LET before == Current IN
  Begin(a, "delete", id, FALSE,
        [plans |-> Without(before.plans, id), deleted |-> before.deleted \cup {id}])
BeginToggle(a, id) == Begin(a, "toggle", id, FALSE, MapPlan(Current, id, Toggled))

\* saveSettings: over the row it has read, or in a new one if there was none.
Written(a) ==
  IF call[a].row > 0 THEN [rows EXCEPT ![call[a].row] = call[a].after]
  ELSE Append(rows, call[a].after)
\* History: the plans of two lists that have an id, and the ids that differ in them.
Named(plans, id) == {plans[i] : i \in {j \in DOMAIN plans : plans[j].id = id}}
ChangedIds(before, after) ==
  {id \in Ids(before) \cup Ids(after) : Named(before, id) # Named(after, id)}
Save(a) ==
  LET after == Latest(Written(a)).plans IN
  /\ call[a].at = "save" /\ Len(saved) < MaxSaves
  /\ rows' = Written(a)
  /\ saved' = Append(saved, [op |-> call[a].op, id |-> call[a].id, seen |-> call[a].seen,
                             clash |-> call[a].clash, behind |-> call[a].row \notin {0, Len(rows)},
                             changed |-> ChangedIds(Current.plans, after), kept |-> call[a].id \in Ids(after)])
  /\ call' = [call EXCEPT ![a].at = "record"]
  /\ UNCHANGED audited
Record(a) ==
  /\ call[a].at = "record"
  /\ audited' = audited \cup {<<call[a].op, call[a].id>>}
  /\ call' = [call EXCEPT ![a] = NoCall]
  /\ UNCHANGED <<rows, saved>>
\* The process dies: whatever it was doing is not finished.
Crash(a) ==
  /\ call[a].at # "idle"
  /\ call' = [call EXCEPT ![a] = NoCall]
  /\ UNCHANGED <<rows, saved, audited>>

Editable == (Offered \ DOMAIN DefaultQuotas) \cup Edited
PlansNext ==
  \E a \in Admins :
    \/ \E tier \in NewTiers : BeginCreate(a, tier)
    \/ \E id \in Editable :
         \/ \E tier \in EditedTiers : BeginUpdate(a, id, tier, 30, Now)
         \/ BeginDelete(a, id) \/ BeginToggle(a, id)
    \/ Save(a) \/ Record(a) \/ Crash(a)
PlansSpec == PlansInit /\ [][PlansNext]_planVars

-----------------------------------------------------------------------------
StoredIds == DOMAIN DefaultQuotas \cup {NewId(t, a, n) : t \in NewTiers, a \in Admins, n \in 0..MaxSaves}
PlansTypeOK ==
  /\ call \in [Admins -> [at : {"idle", "save", "record"}, id : StoredIds \cup {""}, row : 0..Len(rows),
                          clash : BOOLEAN, op : {"create", "update", "delete", "toggle"},
                          seen : 0..Len(saved), after : {call[a].after : a \in Admins}]]
  /\ \A i \in DOMAIN saved : saved[i].seen < i
  /\ \A r \in ToSet(rows) : Ids(r.plans) \cup r.deleted \subseteq StoredIds

\* A plan that an administrator deleted is offered again only after a save of what
\* was read before the deletion, or when the deletion wrote a row that was the
\* latest no more.  Nothing in the reading of the settings, which starts from the
\* defaults of the code, brings it back.
DeletedPlansStayDeleted ==
  \A i \in DOMAIN saved : saved[i].op = "delete" /\ saved[i].id \in Offered =>
    saved[i].behind \/ \E k \in (i + 1)..Len(saved) : saved[k].seen < i

\* Of the plans that administrators added a save changes the one it is about.  Any
\* other it changes, or makes disappear, only if a save it had not read changed
\* that one.  The plan it is about is offered then, if it is not the deleted one and
\* the row was the latest.  So it is as long as no plan has been given the code of a
\* default or a default another code: after that the next reading drops plans.
AddedPlansAreKept ==
  \A i \in DOMAIN saved :
    \/ \E k \in 1..i : saved[k].clash
    \/ /\ \A id \in saved[i].changed \ DOMAIN DefaultQuotas :
            id = saved[i].id \/ \E k \in (saved[i].seen + 1)..(i - 1) : id \in saved[k].changed
       /\ saved[i].id \in DOMAIN DefaultQuotas \/ saved[i].op = "delete" \/ saved[i].behind \/ saved[i].kept

\* What the administrators deleted stays deleted and what they added stays as they
\* left it, but for what was saved between the reading and the saving of a request
\* (subscriptions.service.ts locks nothing) and, for what they added, codes that clash.
PlanEditsAreKept == DeletedPlansStayDeleted /\ AddedPlansAreKept
=============================================================================
