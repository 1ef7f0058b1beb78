------------------------------ MODULE Billing ------------------------------
(* The subscription of one business: the owner's checkouts, the notifications *)
(* the payment provider sends for them, which may be late, repeated or out of *)
(* order, and the administrator's changes.  Each of them finds the latest     *)
(* subscription row and saves it; the save reads the row again and updates    *)
(* the columns that differ from that reading, and no others.                  *)
EXTENDS PlanCatalogue, FiniteSets

CONSTANTS
  BillingCalls, \* requests in progress at once
  PlansSold,    \* ids of the plans that are bought
  SoldTiers,    \* tiers that administrators give plans, any text
  Granted,      \* tiers that administrators grant
  MaxOrders,    \* bound: checkouts
  MaxUpserts    \* bound: writes of the subscription and edits of the plans

Unknown == "unknown"     \* no such plan
ASSUME BillingAssumption ==
  /\ Granted \subseteq SubscriptionTiers /\ Unknown \notin SoldTiers
  /\ MaxOrders \in Nat /\ MaxUpserts \in Nat

VARIABLES
  listed,   \* listed[id]: the tier of the plan in the settings, or Unknown
  subs,     \* the Subscription rows of the business, oldest first
  writers,  \* history: writers[i] are the saves whose columns row i may hold
  orders,   \* the orders and what the provider has reported of them
  bcall,    \* bcall[c]: what a request is going to save, in which row
  upserts   \* number of writes and edits
billingVars == <<listed, subs, writers, orders, bcall, upserts>>

NoSub == [plan |-> "", tier |-> "FREE", status |-> "TRIALING", ref |-> 0]
SubColumns == DOMAIN NoSub
\* as: what the request is about; seen: the row as the save read it again.
NoBillingCall == [at |-> "idle", as |-> "none", order |-> 0, plan |-> "", tier |-> "FREE",
                  row |-> 0, after |-> NoSub, seen |-> NoSub]
BillingInit ==
  /\ listed \in [PlansSold -> SoldTiers \cup {Unknown}]
  /\ subs = << >> /\ writers = << >>
  /\ orders = << >>
  /\ bcall = [c \in BillingCalls |-> NoBillingCall]
  /\ upserts = 0

\* findPlan: the tier of the plan in the settings, else in the defaults.
FindPlan(settings, id) ==
  IF settings[id] # Unknown THEN settings[id]
  ELSE IF \E i \in DOMAIN DefaultPlans : DefaultPlans[i].id = id
       THEN DefaultPlans[CHOOSE i \in DOMAIN DefaultPlans : DefaultPlans[i].id = id].tier
       ELSE Unknown
\* handleNotify takes a plan it does not find for a PRO one.
NotifiedTier(settings, id) ==
  IF FindPlan(settings, id) = Unknown THEN "PRO" ELSE FindPlan(settings, id)

\* The administrator edits, adds or deletes a plan.  tiers is history: what the
\* plan of an order was at some time since.
EditListing(id, tier) ==
  /\ tier # listed[id] /\ upserts < MaxUpserts
  /\ listed' = [listed EXCEPT ![id] = tier]
  /\ orders' = [o \in DOMAIN orders |->
       IF orders[o].plan = id THEN [orders[o] EXCEPT !.tiers = @ \cup {NotifiedTier(listed', id)}] ELSE orders[o]]
  /\ upserts' = upserts + 1
  /\ UNCHANGED <<subs, writers, bcall>>

BeginUpsert(c, as, o, plan, tier) ==
  /\ bcall[c].at = "idle" /\ upserts < MaxUpserts
  /\ bcall' = [bcall EXCEPT ![c] = [NoBillingCall EXCEPT
                 !.at = "find", !.as = as, !.order = o, !.plan = plan, !.tier = tier]]
  /\ UNCHANGED <<listed, subs, writers, upserts>>

\* createCheckout: a pending subscription, and an order the owner is then sent
\* to the provider with.
CreateCheckout(c, id) ==
  /\ Len(orders) < MaxOrders /\ FindPlan(listed, id) # Unknown
  /\ BeginUpsert(c, "checkout", Len(orders) + 1, id, FindPlan(listed, id))
  /\ orders' = Append(orders, [plan |-> id, codes |-> {}, tiers |-> {FindPlan(listed, id)}, sent |-> FALSE])

\* The owner pays or does not: 2 success, -1 cancelled; -2, failed, is handled
\* as -1 is.  Of 0, pending, and -3, charged back, the handler takes no notice.
Codes == {2, -1}
Reports(o, code) ==
  /\ orders[o].sent /\ code \notin orders[o].codes
  /\ orders' = [orders EXCEPT ![o].codes = @ \cup {code}]
  /\ UNCHANGED <<listed, subs, writers, bcall, upserts>>

\* handleNotify: one of the codes reported for an order arrives, perhaps again.
HandleNotify(c, o, code) ==
  /\ code \in orders[o].codes
  /\ BeginUpsert(c, IF code = 2 THEN "paid" ELSE "unpaid", o, orders[o].plan, NotifiedTier(listed, orders[o].plan))
  /\ UNCHANGED orders

\* updateSubscription of the administration.
UpdateSubscription(c, tier, as) ==
  BeginUpsert(c, as, 0, DefaultPlanIdFor(tier), tier) /\ UNCHANGED orders

\* Mutant: the confirmation activates whatever plan the row names.
MergedStatus(call, found) ==
  IF call.as = "paid" THEN [found EXCEPT !.status = "ACTIVE", !.ref = call.order]
  ELSE [plan |-> IF call.as = "unpaid" THEN found.plan ELSE call.plan,
        tier |-> IF call.as = "unpaid" THEN found.tier ELSE call.tier,
        status |-> CASE call.as = "checkout" -> "TRIALING" [] call.as = "unpaid" -> "PAST_DUE"
                     [] call.as = "granted" -> "ACTIVE" [] OTHER -> "CANCELLED",
        ref |-> IF call.order = 0 THEN found.ref ELSE call.order]
\* What each request sets of the row it found.
Merged(call, found) ==
  CASE call.as = "checkout" ->
         [plan |-> call.plan, tier |-> call.tier, status |-> "TRIALING", ref |-> call.order]
    [] call.as = "paid" ->
         [plan |-> call.plan, tier |-> call.tier, status |-> "ACTIVE", ref |-> call.order]
    [] call.as = "unpaid" -> [found EXCEPT !.status = "PAST_DUE", !.ref = call.order]
    [] call.as = "granted" ->
         [found EXCEPT !.plan = call.plan, !.tier = call.tier, !.status = "ACTIVE"]
    [] OTHER -> [found EXCEPT !.plan = call.plan, !.tier = call.tier, !.status = "CANCELLED"]

\* upsertForBusiness: the latest row with the data merged, or a new one.
UpsertForBusiness(c) ==
  LET call == bcall[c] IN
  /\ call.at = "find"
  /\ bcall' = [bcall EXCEPT ![c] =
       IF subs = << >> THEN [call EXCEPT !.at = "write", !.after = Merged(call, NoSub)]
       ELSE [call EXCEPT !.at = "reread", !.row = Len(subs), !.after = Merged(call, Last(subs))]]
  /\ UNCHANGED <<listed, subs, writers, orders, upserts>>
Reread(c) ==
  /\ bcall[c].at = "reread"
  /\ bcall' = [bcall EXCEPT ![c] = [@ EXCEPT !.at = "write", !.seen = subs[bcall[c].row]]]
  /\ UNCHANGED <<listed, subs, writers, orders, upserts>>

\* The insertion, or the update of what differs from what the save has read.  A
\* tier that is none of the column's makes it fail.
WriteSub(c) ==
  LET call == bcall[c]
      me == [as |-> call.as, order |-> call.order]
  IN
  /\ call.at = "write" /\ upserts < MaxUpserts /\ call.after.tier \in SubscriptionTiers
  /\ IF call.row = 0
     THEN subs' = Append(subs, call.after) /\ writers' = Append(writers, {me})
     ELSE /\ subs' = [subs EXCEPT ![call.row] =
               [f \in SubColumns |-> IF call.after[f] # call.seen[f] THEN call.after[f] ELSE @[f]]]
          /\ writers' = [writers EXCEPT ![call.row] =
               IF subs[call.row] = call.seen THEN {me} ELSE @ \cup {me}]
  /\ orders' = IF call.as = "checkout" THEN [orders EXCEPT ![call.order].sent = TRUE] ELSE orders
  /\ upserts' = upserts + 1
  /\ bcall' = [bcall EXCEPT ![c] = NoBillingCall]
  /\ UNCHANGED listed
\* The request fails or its process is lost.
BillingCrash(c) ==
  /\ bcall[c].at # "idle"
  /\ bcall' = [bcall EXCEPT ![c] = NoBillingCall]
  /\ UNCHANGED <<listed, subs, writers, orders, upserts>>

BillingNext ==
  \/ \E c \in BillingCalls :
       \/ \E id \in PlansSold : CreateCheckout(c, id)
       \/ \E o \in DOMAIN orders, code \in Codes : HandleNotify(c, o, code)
       \/ \E tier \in Granted, as \in {"granted", "cancelled"} : UpdateSubscription(c, tier, as)
       \/ UpsertForBusiness(c) \/ Reread(c) \/ WriteSub(c) \/ BillingCrash(c)
  \/ \E o \in DOMAIN orders, code \in Codes : Reports(o, code)
  \/ \E id \in PlansSold, tier \in SoldTiers \cup {Unknown} : EditListing(id, tier)
BillingSpec == BillingInit /\ [][BillingNext]_billingVars

-----------------------------------------------------------------------------
BillingTypeOK ==
  /\ DOMAIN writers = DOMAIN subs
  /\ \A i \in DOMAIN subs : subs[i].tier \in SubscriptionTiers /\ subs[i].ref \in 0..Len(orders)
  /\ \A c \in BillingCalls : bcall[c].row \in 0..Len(subs) /\ bcall[c].order \in 0..Len(orders)
  /\ upserts <= MaxUpserts

\* An active subscription has behind it a paid order, or an administrator, of
\* those whose saves its row holds, however many checkouts were opened since and
\* in whatever order notifications, changes and edits of the plans came.  What
\* one confirmation has written, with no save between its reading and its
\* update, is the plan of that order, with a tier the plan had since.
ActiveIsPaidFor ==
  \A i \in DOMAIN subs : subs[i].status = "ACTIVE" =>
    \E w \in writers[i] :
      \/ w.as = "granted"
      \/ /\ w.as = "paid" /\ 2 \in orders[w.order].codes
         /\ writers[i] = {w} => /\ subs[i].plan = orders[w.order].plan /\ subs[i].ref = w.order
                                /\ subs[i].tier \in orders[w.order].tiers

\* What the comment on the checkout says of the subscription: pending until the
\* provider confirms.  An active one is of a plan that was paid for or granted.
PendingUntilConfirmed ==
  \A i \in DOMAIN subs : subs[i].status = "ACTIVE" =>
    \/ \E w \in writers[i] : w.as = "granted"
    \/ \E o \in DOMAIN orders : 2 \in orders[o].codes /\ orders[o].plan = subs[i].plan
=============================================================================
