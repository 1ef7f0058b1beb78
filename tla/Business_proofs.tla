--------------------------- MODULE Business_proofs ----------------------------
(* For every number of users, businesses, keys, tenants and overlapping       *)
(* requests: who has paid for a plan, how far its limits are overrun, whose a *)
(* subdomain is, and what a withdrawn website shows (billing, mcp, business,  *)
(* the tenants of Commerce).                                                  *)
EXTENDS Billing, Accounts, Subdomains, Sites, FiniteSetTheorems, SequenceTheorems, TLAPS

(* Subscriptions *)

PlanIds == DOMAIN DefaultQuotas
PlanNames == PlansSold \cup PlanIds \cup {""}
TierNames == SubscriptionTiers \cup SoldTiers \cup {Unknown}
SubStatuses == {"TRIALING", "ACTIVE", "CANCELLED", "PAST_DUE"}
Subs == [plan : PlanNames, tier : TierNames, status : SubStatuses, ref : Nat]
Orders == [plan : PlansSold, codes : SUBSET Codes, tiers : SUBSET TierNames, sent : BOOLEAN]
OfOrders == {"checkout", "paid", "unpaid"}
Purposes == OfOrders \cup {"granted", "cancelled"}
Saves == [as : Purposes, order : Nat]
Upserts == [at : {"idle", "find", "reread", "write"}, as : Purposes \cup {"none"}, order : Nat,
            plan : PlanNames, tier : TierNames, row : Nat, after : Subs, seen : Subs]

BillingTypes ==
  /\ listed \in [PlansSold -> TierNames] /\ orders \in Seq(Orders)
  /\ subs \in Seq(Subs) /\ writers \in Seq(SUBSET Saves) /\ Len(writers) = Len(subs)
  /\ upserts \in Nat /\ upserts <= MaxUpserts
  /\ bcall \in [BillingCalls -> Upserts]
\* The history of an order holds the tier that a notification would find now.
TiersAreNoted == \A o \in DOMAIN orders : NotifiedTier(listed, orders[o].plan) \in orders[o].tiers
\* A confirmation is of an order that was paid, and carries its plan.
Confirms(call, placed) ==
  /\ call.order \in DOMAIN placed /\ 2 \in placed[call.order].codes
  /\ call.plan = placed[call.order].plan /\ call.tier \in placed[call.order].tiers
\* What a request is going to save is what it is about.
Asks(call, placed, rows) ==
  /\ call.at = "idle" \/ call.as \in Purposes
  /\ call.as \in OfOrders => call.order \in DOMAIN placed
  /\ call.order <= Len(placed) /\ call.row <= rows
  /\ call.as = "paid" => Confirms(call, placed)
  /\ call.at = "reread" => call.row # 0
  /\ call.at \in {"reread", "write"} =>
       /\ call.after.ref <= Len(placed)
       /\ call.as \in Purposes \ {"paid", "granted"} => call.after.status # "ACTIVE"
       /\ call.as = "paid" => call.after.plan = call.plan /\ call.after.tier = call.tier
                              /\ call.after.ref = call.order
RequestsAsk == \A c \in BillingCalls : Asks(bcall[c], orders, Len(subs))
\* A save that may activate.
Vouches(w, placed) ==
  \/ w.as = "granted"
  \/ w.as = "paid" /\ w.order \in DOMAIN placed /\ 2 \in placed[w.order].codes
IsOf(sub, w, placed) ==
  /\ w.order \in DOMAIN placed /\ sub.plan = placed[w.order].plan /\ sub.ref = w.order
  /\ sub.tier \in placed[w.order].tiers
PaidFor(sub, by, placed) ==
  /\ by # {} /\ sub.ref <= Len(placed) /\ sub.tier \in SubscriptionTiers
  /\ sub.status = "ACTIVE" => \E w \in by : Vouches(w, placed)
  /\ \A w : by = {w} /\ w.as = "paid" => IsOf(sub, w, placed)
PaidBeforeActive == \A i \in DOMAIN subs : PaidFor(subs[i], writers[i], orders)
BillingInv == BillingTypes /\ TiersAreNoted /\ RequestsAsk /\ PaidBeforeActive

\* Plans and tiers have their names.
LEMMA PlansAreKnown ==
  /\ PlanIds = {"starter", "growth", "pro", "business"}
  /\ \A tier : DefaultPlanIdFor(tier) \in PlanIds
BY DEF PlanIds, DefaultQuotas, DefaultPlanIdFor

LEMMA TiersAreKnown ==
  ASSUME BillingTypes, NEW id \in PlansSold
  PROVE  FindPlan(listed, id) \in TierNames /\ NotifiedTier(listed, id) \in TierNames
<1>1. \A i \in DOMAIN DefaultPlans : DefaultPlans[i].tier \in TierNames
  BY DEF DefaultPlans, DefaultPlan, TierNames, SubscriptionTiers
<1>2. FindPlan(listed, id) \in TierNames
  BY <1>1 DEF FindPlan, BillingTypes, TierNames
<1> QED BY <1>2 DEF NotifiedTier, TierNames, SubscriptionTiers

\* The tier of a plan depends on what the settings say of this plan.
LEMMA TiersStay ==
  ASSUME NEW id \in PlansSold, listed'[id] = listed[id]
  PROVE  NotifiedTier(listed', id) = NotifiedTier(listed, id)
BY DEF NotifiedTier, FindPlan

LEMMA NoCallIsTyped ==
  /\ NoSub \in Subs /\ NoSub.ref = 0 /\ NoSub.status = "TRIALING" /\ NoBillingCall \in Upserts
  /\ NoBillingCall.at = "idle" /\ NoBillingCall.as = "none" /\ NoBillingCall.order = 0
  /\ NoBillingCall.row = 0
BY DEF NoSub, NoBillingCall, Subs, Upserts, PlanNames, TierNames, SubscriptionTiers, SubStatuses

LEMMA BillingCounts ==
  ASSUME BillingTypes
  PROVE  /\ Len(orders) \in Nat /\ DOMAIN orders = 1..Len(orders)
         /\ Len(subs) \in Nat /\ DOMAIN subs = 1..Len(subs) /\ DOMAIN writers = 1..Len(subs)
         /\ \A o \in DOMAIN orders : o \in Nat /\ o <= Len(orders) /\ orders[o] \in Orders
         /\ \A i \in DOMAIN subs : subs[i] \in Subs /\ writers[i] \in SUBSET Saves
<1>1. \A o \in DOMAIN orders : o \in Nat /\ o <= Len(orders) /\ orders[o] \in Orders
  BY DEF BillingTypes
<1>2. \A i \in DOMAIN subs : subs[i] \in Subs /\ writers[i] \in SUBSET Saves
  BY DEF BillingTypes
<1> QED BY <1>1, <1>2 DEF BillingTypes

\* One element of a sequence is replaced, or one is added behind the others.
LEMMA OneReplaced ==
  ASSUME NEW S, NEW q \in Seq(S), NEW i \in DOMAIN q, NEW x \in S
  PROVE  /\ [q EXCEPT ![i] = x] \in Seq(S) /\ Len([q EXCEPT ![i] = x]) = Len(q)
         /\ DOMAIN [q EXCEPT ![i] = x] = DOMAIN q /\ [q EXCEPT ![i] = x][i] = x
         /\ \A j \in DOMAIN q : j # i => [q EXCEPT ![i] = x][j] = q[j]
OBVIOUS

LEMMA OneAdded ==
  ASSUME NEW S, NEW q \in Seq(S), NEW x \in S
  PROVE  /\ Append(q, x) \in Seq(S) /\ Len(Append(q, x)) = Len(q) + 1
         /\ DOMAIN Append(q, x) = 1..(Len(q) + 1) /\ Append(q, x)[Len(q) + 1] = x
         /\ \A j \in DOMAIN q : Append(q, x)[j] = q[j]
OBVIOUS

\* What is known of the parts of an order.
LEMMA OrderFields ==
  ASSUME NEW order \in Orders
  PROVE  order.plan \in PlansSold /\ order.codes \subseteq Codes /\ order.tiers \subseteq TierNames
BY DEF Orders

\* The invariant of the subscriptions: it holds at first,
LEMMA BillingInvInit == BillingInit => BillingInv
<1> SUFFICES ASSUME BillingInit PROVE BillingInv
  OBVIOUS
<1>1. \A c \in BillingCalls : bcall[c] = NoBillingCall
  BY DEF BillingInit
<1>2. BillingTypes
  BY NoCallIsTyped, BillingAssumption DEF BillingInit, BillingTypes, TierNames
<1>3. TiersAreNoted /\ PaidBeforeActive
  BY DEF BillingInit, TiersAreNoted, PaidBeforeActive
<1>4. RequestsAsk
  BY <1>1, NoCallIsTyped DEF RequestsAsk, Asks, BillingInit, OfOrders, Purposes
<1> QED BY <1>2, <1>3, <1>4 DEF BillingInv

\* Orders are added, reported and sent; what is known of one stays.
Grown(placed, later) ==
  /\ later \in Seq(Orders) /\ Len(later) >= Len(placed)
  /\ \A o \in DOMAIN placed :
       /\ later[o].plan = placed[o].plan
       /\ placed[o].codes \subseteq later[o].codes /\ placed[o].tiers \subseteq later[o].tiers

LEMMA OrdersStand ==
  ASSUME BillingTypes, UNCHANGED orders
  PROVE  Grown(orders, orders')
BY BillingCounts DEF BillingTypes, Grown

\* What orders vouch for stays so as they grow.
LEMMA PaidForStays ==
  ASSUME BillingTypes, NEW later, Grown(orders, later)
  PROVE  /\ DOMAIN orders \subseteq DOMAIN later
         /\ \A sub \in Subs : \A by : PaidFor(sub, by, orders) => PaidFor(sub, by, later)
         /\ \A call \in Upserts : Confirms(call, orders) => Confirms(call, later)
<1>1. DOMAIN orders \subseteq DOMAIN later /\ Len(later) \in Nat /\ Len(orders) \in Nat
  BY BillingCounts DEF Grown
<1>2. \A w : Vouches(w, orders) => Vouches(w, later)
  BY <1>1 DEF Vouches, Grown
<1>3. \A sub, w : IsOf(sub, w, orders) => IsOf(sub, w, later)
  BY <1>1 DEF IsOf, Grown
<1>4. ASSUME NEW sub \in Subs, NEW by, PaidFor(sub, by, orders) PROVE PaidFor(sub, by, later)
  <2>1. sub.ref <= Len(later)
    <3>1. sub.ref \in Nat /\ sub.ref <= Len(orders) /\ Len(orders) <= Len(later)
      BY <1>4 DEF Subs, PaidFor, Grown
    <3> QED BY <3>1, <1>1
  <2> QED BY <1>2, <1>3, <1>4, <2>1 DEF PaidFor
<1>5. \A call \in Upserts : Confirms(call, orders) => Confirms(call, later)
  BY <1>1 DEF Confirms, Grown
<1> QED BY <1>1, <1>4, <1>5

\* A step after which the rows have been paid for, the orders have grown, and one
\* request goes on.
LEMMA RequestGoesOn ==
  ASSUME BillingInv, NEW c \in BillingCalls, NEW call \in Upserts, bcall' = [bcall EXCEPT ![c] = call],
         Grown(orders, orders'), TiersAreNoted', Asks(call, orders', Len(subs')), PaidBeforeActive',
         UNCHANGED listed, upserts' \in Nat, upserts' <= MaxUpserts,
         subs' \in Seq(Subs), writers' \in Seq(SUBSET Saves), Len(writers') = Len(subs'),
         Len(subs') >= Len(subs)
  PROVE  BillingInv'
<1>1. DOMAIN bcall = BillingCalls
  BY DEF BillingInv, BillingTypes
<1>2. bcall' \in [BillingCalls -> Upserts] /\ bcall'[c] = call
      /\ \A d \in BillingCalls : d # c => bcall'[d] = bcall[d]
  BY <1>1 DEF BillingInv, BillingTypes
<1>3. BillingTypes'
  BY <1>2 DEF BillingInv, BillingTypes, Grown
<1>4. ASSUME NEW d \in BillingCalls, d # c PROVE Asks(bcall[d], orders', Len(subs'))
  <2>1. bcall'[d] = bcall[d] /\ bcall[d] \in Upserts /\ Asks(bcall[d], orders, Len(subs))
    BY <1>2, <1>4 DEF BillingInv, BillingTypes, RequestsAsk
  <2>2. /\ bcall[d].order \in Nat /\ bcall[d].row \in Nat /\ bcall[d].after.ref \in Nat
        /\ Len(orders') \in Nat /\ Len(orders') >= Len(orders) /\ Len(subs') \in Nat
    BY <2>1 DEF Upserts, Subs, Grown
  <2>3. DOMAIN orders \subseteq DOMAIN orders' /\ (Confirms(bcall[d], orders) => Confirms(bcall[d], orders'))
    BY <2>1, PaidForStays DEF BillingInv
  <2>4. /\ bcall[d].order <= Len(orders') /\ bcall[d].row <= Len(subs')
        /\ bcall[d].after.ref <= Len(orders) => bcall[d].after.ref <= Len(orders')
    BY <2>1, <2>2, BillingCounts DEF Asks, BillingInv
  <2> QED BY <2>1, <2>3, <2>4 DEF Asks
<1>5. RequestsAsk'
  BY <1>2, <1>4 DEF RequestsAsk
<1> QED BY <1>3, <1>5 DEF BillingInv

\* The rows stand while the orders grow.
LEMMA RowsStand ==
  ASSUME BillingInv, UNCHANGED <<subs, writers>>, Grown(orders, orders')
  PROVE  PaidBeforeActive'
BY PaidForStays DEF BillingInv, BillingTypes, PaidBeforeActive

\* A request begins, for an order there is then or for an administrator.
LEMMA RequestBegins ==
  ASSUME BillingInv, NEW c \in BillingCalls, NEW as \in Purposes, NEW o \in Nat,
         NEW plan \in PlanNames, NEW tier \in TierNames, BeginUpsert(c, as, o, plan, tier),
         Grown(orders, orders'), TiersAreNoted', o <= Len(orders'),
         as \in OfOrders => o \in DOMAIN orders',
         as = "paid" => /\ 2 \in orders'[o].codes /\ plan = orders'[o].plan /\ tier \in orders'[o].tiers
  PROVE  BillingInv'
<1> DEFINE call == [NoBillingCall EXCEPT !.at = "find", !.as = as, !.order = o, !.plan = plan, !.tier = tier]
<1>1. call \in Upserts /\ call.at = "find" /\ call.as = as /\ call.order = o /\ call.plan = plan
      /\ call.tier = tier /\ call.row = 0
  BY NoCallIsTyped DEF Upserts
<1>2. bcall' = [bcall EXCEPT ![c] = call] /\ UNCHANGED <<listed, subs, writers, upserts>>
  BY DEF BeginUpsert
<1> HIDE DEF call
<1>3. Asks(call, orders', Len(subs'))
  <2>1. 0 <= Len(subs') /\ "idle" # "find"
    BY <1>2, BillingCounts DEF BillingInv
  <2> QED BY <1>1, <2>1 DEF Asks, Confirms, OfOrders
<1>4. PaidBeforeActive'
  BY <1>2, RowsStand
<1>5. /\ upserts' \in Nat /\ upserts' <= MaxUpserts
      /\ subs' \in Seq(Subs) /\ writers' \in Seq(SUBSET Saves) /\ Len(writers') = Len(subs')
      /\ Len(subs') >= Len(subs)
  BY <1>2, BillingCounts DEF BillingInv, BillingTypes
<1> HIDE DEF Asks
<1> QED BY <1>1, <1>2, <1>3, <1>4, <1>5, RequestGoesOn

LEMMA CheckoutIsCreated ==
  ASSUME BillingInv, NEW c \in BillingCalls, NEW id \in PlansSold, CreateCheckout(c, id)
  PROVE  BillingInv'
<1> DEFINE order == [plan |-> id, codes |-> {}, tiers |-> {FindPlan(listed, id)}, sent |-> FALSE]
<1>1. /\ FindPlan(listed, id) \in TierNames /\ FindPlan(listed, id) # Unknown /\ NotifiedTier(listed, id) = FindPlan(listed, id)
  BY TiersAreKnown DEF BillingInv, CreateCheckout, NotifiedTier
<1>2. order \in Orders /\ order.plan = id /\ order.tiers = {FindPlan(listed, id)}
  BY <1>1 DEF Orders
<1>3. orders' = Append(orders, order) /\ BeginUpsert(c, "checkout", Len(orders) + 1, id, FindPlan(listed, id))
  BY DEF CreateCheckout
<1> HIDE DEF order
<1>4. /\ orders' \in Seq(Orders) /\ Len(orders') = Len(orders) + 1 /\ DOMAIN orders' = 1..Len(orders')
      /\ orders'[Len(orders) + 1] = order /\ \A o \in DOMAIN orders : orders'[o] = orders[o]
  BY <1>2, <1>3 DEF BillingInv, BillingTypes
<1>5. Grown(orders, orders')
  BY <1>4, BillingCounts DEF Grown, BillingInv
<1>6. listed' = listed
  BY <1>3 DEF BeginUpsert
<1>7. ASSUME NEW o \in DOMAIN orders' PROVE NotifiedTier(listed', orders'[o].plan) \in orders'[o].tiers
  <2>1. orders'[o] \in Orders
    BY <1>4
  <2>2. NotifiedTier(listed', orders'[o].plan) = NotifiedTier(listed, orders'[o].plan)
    BY <1>6 DEF NotifiedTier, FindPlan
  <2>3. CASE o = Len(orders) + 1
    BY <2>2, <2>3, <1>1, <1>2, <1>4
  <2>4. CASE o # Len(orders) + 1
    <3>1. o \in DOMAIN orders
      BY <2>4, <1>4, BillingCounts DEF BillingInv
    <3> QED BY <3>1, <2>2, <1>4 DEF BillingInv, TiersAreNoted
  <2> QED BY <2>3, <2>4
<1>8. TiersAreNoted'
  BY <1>7 DEF TiersAreNoted
<1>9. Len(orders) + 1 \in Nat /\ Len(orders) + 1 \in DOMAIN orders'
  BY <1>4, BillingCounts DEF BillingInv
<1>10. "checkout" \in Purposes /\ "checkout" # "paid"
  BY DEF Purposes, OfOrders
<1>11. Len(orders) + 1 <= Len(orders')
  BY <1>4, BillingCounts DEF BillingInv
<1>12. id \in PlanNames
  BY DEF PlanNames
<1> QED BY <1>1, <1>3, <1>5, <1>8, <1>9, <1>10, <1>11, <1>12, RequestBegins

LEMMA NotedStays ==
  ASSUME BillingInv, UNCHANGED <<listed, orders>>
  PROVE  TiersAreNoted'
BY DEF BillingInv, TiersAreNoted, NotifiedTier, FindPlan

LEMMA NotificationBegins ==
  ASSUME BillingInv, NEW c \in BillingCalls, NEW o \in DOMAIN orders, NEW code \in Codes,
         HandleNotify(c, o, code)
  PROVE  BillingInv'
<1> DEFINE as == IF code = 2 THEN "paid" ELSE "unpaid"
           plan == orders[o].plan
<1>1. BeginUpsert(c, as, o, plan, NotifiedTier(listed, plan)) /\ code \in orders[o].codes /\ UNCHANGED orders
  BY DEF HandleNotify
<1>2. as \in Purposes /\ as \in OfOrders /\ (as = "paid" => code = 2)
  BY DEF Purposes, OfOrders
<1>3. plan \in PlansSold /\ plan \in PlanNames /\ o \in Nat /\ o <= Len(orders)
  BY BillingCounts, OrderFields DEF BillingInv, PlanNames
<1>4. NotifiedTier(listed, plan) \in TierNames /\ NotifiedTier(listed, plan) \in orders[o].tiers
  BY <1>3, TiersAreKnown DEF BillingInv, TiersAreNoted
<1>5. Grown(orders, orders') /\ TiersAreNoted'
  BY <1>1, OrdersStand, NotedStays DEF BeginUpsert, BillingInv
<1> HIDE DEF as
<1> QED BY <1>1, <1>2, <1>3, <1>4, <1>5, RequestBegins

LEMMA ChangeBegins ==
  ASSUME BillingInv, NEW c \in BillingCalls, NEW tier \in Granted, NEW as \in {"granted", "cancelled"},
         UpdateSubscription(c, tier, as)
  PROVE  BillingInv'
<1>1. BeginUpsert(c, as, 0, DefaultPlanIdFor(tier), tier) /\ UNCHANGED orders
  BY DEF UpdateSubscription
<1>2. /\ DefaultPlanIdFor(tier) \in PlanNames /\ tier \in TierNames
      /\ as \in Purposes /\ as \notin OfOrders /\ as # "paid"
  BY PlansAreKnown, BillingAssumption DEF PlanNames, TierNames, Purposes, OfOrders
<1>3. Grown(orders, orders') /\ TiersAreNoted' /\ 0 <= Len(orders')
  BY <1>1, OrdersStand, NotedStays, BillingCounts DEF BeginUpsert, BillingInv
<1> QED BY <1>1, <1>2, <1>3, RequestBegins

\* What a request merges into a row is a row that asks for what it is about.
LEMMA MergedAsks ==
  ASSUME BillingTypes, NEW call \in Upserts, call.as \in Purposes, NEW found \in Subs,
         found.ref <= Len(orders), call.order <= Len(orders)
  PROVE  /\ Merged(call, found) \in Subs /\ Merged(call, found).ref <= Len(orders)
         /\ call.as \in Purposes \ {"paid", "granted"} => Merged(call, found).status # "ACTIVE"
         /\ call.as = "paid" => /\ Merged(call, found).plan = call.plan
                                /\ Merged(call, found).tier = call.tier
                                /\ Merged(call, found).ref = call.order
<1>1. /\ call.plan \in PlanNames /\ call.tier \in TierNames /\ call.order \in Nat
      /\ found = [plan |-> found.plan, tier |-> found.tier, status |-> found.status, ref |-> found.ref]
      /\ found.plan \in PlanNames /\ found.tier \in TierNames /\ found.ref \in Nat
  BY DEF Upserts, Subs
<1>2. CASE call.as \in {"checkout", "paid"}
  BY <1>1, <1>2 DEF Merged, Subs, SubStatuses
<1>3. CASE call.as = "unpaid"
  BY <1>1, <1>3 DEF Merged, Subs, SubStatuses
<1>4. CASE call.as \in {"granted", "cancelled"}
  BY <1>1, <1>4 DEF Merged, Subs, SubStatuses
<1> QED BY <1>2, <1>3, <1>4 DEF Purposes, OfOrders

LEMMA RowIsFound ==
  ASSUME BillingInv, NEW c \in BillingCalls, UpsertForBusiness(c)
  PROVE  BillingInv'
<1> DEFINE found == IF subs = << >> THEN NoSub ELSE Last(subs)
           at == IF subs = << >> THEN "write" ELSE "reread"
           place == IF subs = << >> THEN bcall[c].row ELSE Len(subs)
           call == [bcall[c] EXCEPT !.at = at, !.row = place, !.after = Merged(bcall[c], found)]
<1>1. /\ bcall[c] \in Upserts /\ bcall[c].at = "find" /\ Asks(bcall[c], orders, Len(subs))
      /\ bcall[c].as \in Purposes /\ bcall[c].order <= Len(orders)
  BY DEF UpsertForBusiness, BillingInv, BillingTypes, RequestsAsk, Asks
<1>2. bcall' = [bcall EXCEPT ![c] = call] /\ UNCHANGED <<listed, subs, writers, orders, upserts>>
  BY <1>1 DEF UpsertForBusiness, Upserts
<1>3. found \in Subs /\ found.ref <= Len(orders)
  <2>1. CASE subs = << >>
    BY <2>1, NoCallIsTyped, BillingCounts DEF BillingInv
  <2>2. CASE subs # << >>
    <3>1. Len(subs) \in DOMAIN subs /\ found = subs[Len(subs)]
      BY <2>2 DEF Last, BillingInv, BillingTypes
    <3> QED BY <3>1 DEF BillingInv, BillingTypes, PaidBeforeActive, PaidFor
  <2> QED BY <2>1, <2>2
<1> HIDE DEF found
<1>4. /\ Merged(bcall[c], found) \in Subs /\ Merged(bcall[c], found).ref <= Len(orders)
      /\ bcall[c].as \in Purposes \ {"paid", "granted"} => Merged(bcall[c], found).status # "ACTIVE"
      /\ bcall[c].as = "paid" => /\ Merged(bcall[c], found).plan = bcall[c].plan
                                 /\ Merged(bcall[c], found).tier = bcall[c].tier
                                 /\ Merged(bcall[c], found).ref = bcall[c].order
  BY <1>1, <1>3, MergedAsks DEF BillingInv
<1>5. at \in {"reread", "write"} /\ place \in Nat /\ place <= Len(subs) /\ (at = "reread" => place # 0)
  BY <1>1, BillingCounts DEF BillingInv, Upserts, Asks
<1> HIDE DEF at, place
<1>6. /\ call \in Upserts /\ call.at = at /\ call.as = bcall[c].as /\ call.order = bcall[c].order
      /\ call.plan = bcall[c].plan /\ call.tier = bcall[c].tier /\ call.row = place
      /\ call.after = Merged(bcall[c], found)
  BY <1>1, <1>4, <1>5 DEF Upserts
<1> HIDE DEF call
<1>7. Asks(call, orders', Len(subs'))
  BY <1>1, <1>2, <1>4, <1>5, <1>6 DEF Asks, Confirms
<1>8. /\ Grown(orders, orders') /\ TiersAreNoted' /\ PaidBeforeActive'
  BY <1>2, OrdersStand, NotedStays, RowsStand DEF BillingInv
<1>9. /\ upserts' \in Nat /\ upserts' <= MaxUpserts
      /\ subs' \in Seq(Subs) /\ writers' \in Seq(SUBSET Saves) /\ Len(writers') = Len(subs')
      /\ Len(subs') >= Len(subs)
  BY <1>2, BillingCounts DEF BillingInv, BillingTypes
<1> HIDE DEF Asks
<1> QED BY <1>2, <1>6, <1>7, <1>8, <1>9, RequestGoesOn

LEMMA RowIsReread ==
  ASSUME BillingInv, NEW c \in BillingCalls, Reread(c)
  PROVE  BillingInv'
<1> DEFINE call == [bcall[c] EXCEPT !.at = "write", !.seen = subs[bcall[c].row]]
<1>1. /\ bcall[c] \in Upserts /\ bcall[c].at = "reread" /\ Asks(bcall[c], orders, Len(subs))
      /\ bcall[c].row \in Nat /\ bcall[c].row # 0 /\ bcall[c].row <= Len(subs)
  BY DEF Reread, BillingInv, BillingTypes, RequestsAsk, Asks, Upserts
<1>2. bcall' = [bcall EXCEPT ![c] = call] /\ UNCHANGED <<listed, subs, writers, orders, upserts>>
  BY DEF Reread
<1>3. subs[bcall[c].row] \in Subs
  BY <1>1, BillingCounts DEF BillingInv, BillingTypes
<1>4. /\ call \in Upserts /\ call.at = "write" /\ call.as = bcall[c].as /\ call.order = bcall[c].order
      /\ call.plan = bcall[c].plan /\ call.tier = bcall[c].tier /\ call.row = bcall[c].row
      /\ call.after = bcall[c].after
  BY <1>1, <1>3 DEF Upserts
<1> HIDE DEF call
<1>5. Asks(call, orders', Len(subs'))
  BY <1>1, <1>2, <1>4 DEF Asks, Confirms
<1>6. /\ Grown(orders, orders') /\ TiersAreNoted' /\ PaidBeforeActive'
  BY <1>2, OrdersStand, NotedStays, RowsStand DEF BillingInv
<1>7. /\ upserts' \in Nat /\ upserts' <= MaxUpserts
      /\ subs' \in Seq(Subs) /\ writers' \in Seq(SUBSET Saves) /\ Len(writers') = Len(subs')
      /\ Len(subs') >= Len(subs)
  BY <1>2, BillingCounts DEF BillingInv, BillingTypes
<1> HIDE DEF Asks
<1> QED BY <1>2, <1>4, <1>5, <1>6, <1>7, RequestGoesOn

\* An update leaves each column as it is or as the request asks; without another
\* since the row was read, it leaves the row that the request asks for.
Mixed(after, seen, now) == [f \in SubColumns |-> IF after[f] # seen[f] THEN after[f] ELSE now[f]]
LEMMA MixedColumns ==
  ASSUME NEW after \in Subs, NEW seen \in Subs, NEW now \in Subs
  PROVE  /\ Mixed(after, seen, now) \in Subs
         /\ \A f \in {"plan", "tier", "status", "ref"} : Mixed(after, seen, now)[f] \in {after[f], now[f]}
         /\ now = seen => Mixed(after, seen, now) = after
<1>1. SubColumns = {"plan", "tier", "status", "ref"}
  BY DEF SubColumns, NoSub
<1>2. \A f \in {"plan", "tier", "status", "ref"} : Mixed(after, seen, now)[f] \in {after[f], now[f]}
  BY <1>1 DEF Mixed
<1>3. now = seen => \A f \in {"plan", "tier", "status", "ref"} : Mixed(after, seen, now)[f] = after[f]
  BY <1>1 DEF Mixed
<1>4. DOMAIN Mixed(after, seen, now) = {"plan", "tier", "status", "ref"}
      /\ Mixed(after, seen, now) = [f \in {"plan", "tier", "status", "ref"} |-> Mixed(after, seen, now)[f]]
  BY <1>1 DEF Mixed
<1> QED BY <1>2, <1>3, <1>4 DEF Subs

\* The row that a request leaves has been paid for: one it inserts or finds as it
\* has read it, and one that another has changed in between.
LEMMA LeftIsPaidFor ==
  ASSUME BillingInv, NEW c \in BillingCalls, bcall[c].at = "write", bcall[c].after.tier \in SubscriptionTiers,
         NEW me, me = [as |-> bcall[c].as, order |-> bcall[c].order]
  PROVE  /\ me \in Saves /\ PaidFor(bcall[c].after, {me}, orders)
         /\ \A now \in Subs : \A by : PaidFor(now, by, orders) =>
              PaidFor(Mixed(bcall[c].after, bcall[c].seen, now), by \cup {me}, orders)
<1> DEFINE after == bcall[c].after
<1>1. bcall[c] \in Upserts /\ Asks(bcall[c], orders, Len(subs)) /\ after \in Subs /\ bcall[c].seen \in Subs
  BY DEF BillingInv, BillingTypes, RequestsAsk, Upserts
<1>2. me \in Saves /\ me.as = bcall[c].as /\ me.order = bcall[c].order
  BY <1>1 DEF Saves, Asks, Upserts
<1>3. /\ after.ref <= Len(orders) /\ after.tier \in SubscriptionTiers
      /\ after.status = "ACTIVE" => Vouches(me, orders)
      /\ me.as = "paid" => IsOf(after, me, orders)
  BY <1>1, <1>2 DEF Asks, Confirms, Vouches, IsOf, Purposes, OfOrders
<1>4. PaidFor(after, {me}, orders)
  BY <1>3 DEF PaidFor
<1> HIDE DEF after
<1>5. ASSUME NEW now \in Subs, NEW by, PaidFor(now, by, orders)
      PROVE  PaidFor(Mixed(after, bcall[c].seen, now), by \cup {me}, orders)
  <2> DEFINE mixed == Mixed(after, bcall[c].seen, now)
  <2>1. /\ mixed.plan \in {after.plan, now.plan} /\ mixed.tier \in {after.tier, now.tier}
        /\ mixed.status \in {after.status, now.status} /\ mixed.ref \in {after.ref, now.ref}
    BY <1>1, MixedColumns
  <2> HIDE DEF mixed
  <2>2. mixed.status = "ACTIVE" => \E w \in by \cup {me} : Vouches(w, orders)
    BY <1>3, <1>5, <2>1 DEF PaidFor
  <2>3. ASSUME NEW w, by \cup {me} = {w}, w.as = "paid" PROVE IsOf(mixed, w, orders)
    <3>1. w = me /\ by = {w}
      BY <1>5, <2>3 DEF PaidFor
    <3>2. IsOf(now, w, orders) /\ IsOf(after, w, orders)
      BY <1>3, <1>5, <2>3, <3>1 DEF PaidFor
    <3> QED BY <2>1, <3>2 DEF IsOf
  <2>4. mixed.ref <= Len(orders) /\ mixed.tier \in SubscriptionTiers /\ by \cup {me} # {}
    BY <1>3, <1>5, <2>1 DEF PaidFor
  <2>5. PaidFor(mixed, by \cup {me}, orders)
    BY <2>2, <2>3, <2>4 DEF PaidFor
  <2> QED BY <2>5 DEF mixed
<1> QED BY <1>2, <1>4, <1>5 DEF after

LEMMA SubIsSaved ==
  ASSUME BillingInv, NEW c \in BillingCalls, WriteSub(c)
  PROVE  BillingInv'
<1> DEFINE me == [as |-> bcall[c].as, order |-> bcall[c].order]
           i == bcall[c].row
           after == bcall[c].after
           mixed == Mixed(after, bcall[c].seen, subs[i])
           by == IF subs[i] = bcall[c].seen THEN {me} ELSE writers[i] \cup {me}
<1>1. /\ bcall[c] \in Upserts /\ Asks(bcall[c], orders, Len(subs)) /\ i \in Nat /\ i <= Len(subs)
      /\ after \in Subs /\ bcall[c].seen \in Subs
  BY DEF BillingInv, BillingTypes, RequestsAsk, Asks, Upserts
<1>2. /\ bcall[c].at = "write" /\ upserts < MaxUpserts /\ after.tier \in SubscriptionTiers
      /\ IF i = 0 THEN subs' = Append(subs, after) /\ writers' = Append(writers, {me})
         ELSE subs' = [subs EXCEPT ![i] = mixed] /\ writers' = [writers EXCEPT ![i] = by]
      /\ orders' = IF bcall[c].as = "checkout" THEN [orders EXCEPT ![bcall[c].order].sent = TRUE] ELSE orders
      /\ upserts' = upserts + 1 /\ bcall' = [bcall EXCEPT ![c] = NoBillingCall] /\ listed' = listed
  BY DEF WriteSub, Mixed
<1>3. /\ me \in Saves /\ PaidFor(after, {me}, orders)
      /\ \A now \in Subs : \A w : PaidFor(now, w, orders) =>
           PaidFor(Mixed(after, bcall[c].seen, now), w \cup {me}, orders)
  BY <1>2, LeftIsPaidFor
<1>4. /\ Grown(orders, orders')
      /\ \A o \in DOMAIN orders' : o \in DOMAIN orders /\ orders'[o].plan = orders[o].plan
                                   /\ orders'[o].tiers = orders[o].tiers
  <2>1. CASE bcall[c].as = "checkout"
    <3>1. bcall[c].order \in DOMAIN orders
      BY <2>1, <1>1 DEF Asks, OfOrders
    <3> DEFINE placed == orders[bcall[c].order]
               sent == [placed EXCEPT !.sent = TRUE]
    <3>2. placed \in Orders /\ orders \in Seq(Orders)
      BY <3>1, BillingCounts DEF BillingInv, BillingTypes
    <3>3. /\ sent \in Orders /\ sent.plan = placed.plan /\ sent.codes = placed.codes
          /\ sent.tiers = placed.tiers
      BY <3>2 DEF Orders
    <3>4. orders' = [orders EXCEPT ![bcall[c].order] = sent]
      BY <2>1, <1>2
    <3> HIDE DEF sent
    <3>5. /\ orders' \in Seq(Orders) /\ Len(orders') = Len(orders) /\ DOMAIN orders' = DOMAIN orders
          /\ orders'[bcall[c].order] = sent
          /\ \A o \in DOMAIN orders : o # bcall[c].order => orders'[o] = orders[o]
      BY <3>1, <3>2, <3>3, <3>4, OneReplaced
    <3> QED BY <3>3, <3>5, BillingCounts DEF Grown, BillingInv
  <2>2. CASE bcall[c].as # "checkout"
    BY <2>2, <1>2, OrdersStand DEF BillingInv
  <2> QED BY <2>1, <2>2
<1>5. TiersAreNoted'
  <2> SUFFICES ASSUME NEW o \in DOMAIN orders' PROVE NotifiedTier(listed', orders'[o].plan) \in orders'[o].tiers
    BY DEF TiersAreNoted
  <2>1. NotifiedTier(listed', orders'[o].plan) = NotifiedTier(listed, orders'[o].plan)
    BY <1>2 DEF NotifiedTier, FindPlan
  <2> QED BY <2>1, <1>4 DEF BillingInv, TiersAreNoted
<1> HIDE DEF me, after, by, mixed
<1>6. subs \in Seq(Subs) /\ writers \in Seq(SUBSET Saves) /\ Len(writers) = Len(subs)
      /\ \A j \in DOMAIN subs : subs[j] \in Subs /\ PaidFor(subs[j], writers[j], orders)
  BY BillingCounts DEF BillingInv, BillingTypes, PaidBeforeActive
<1>7. /\ subs' \in Seq(Subs) /\ writers' \in Seq(SUBSET Saves)
      /\ Len(writers') = Len(subs') /\ Len(subs') >= Len(subs)
      /\ \A j \in DOMAIN subs' : subs'[j] \in Subs /\ PaidFor(subs'[j], writers'[j], orders)
  <2>1. CASE i = 0
    <3>1. subs' = Append(subs, after) /\ writers' = Append(writers, {me}) /\ {me} \in SUBSET Saves
      BY <2>1, <1>2, <1>3
    <3>2. /\ subs' \in Seq(Subs) /\ Len(subs') = Len(subs) + 1 /\ DOMAIN subs' = 1..(Len(subs) + 1)
          /\ subs'[Len(subs) + 1] = after /\ \A j \in DOMAIN subs : subs'[j] = subs[j]
      BY <3>1, <1>1, <1>6, OneAdded
    <3>3. /\ writers' \in Seq(SUBSET Saves) /\ Len(writers') = Len(subs) + 1
          /\ writers'[Len(subs) + 1] = {me} /\ \A j \in DOMAIN writers : writers'[j] = writers[j]
      BY <3>1, <1>6, OneAdded
    <3>4. ASSUME NEW j \in DOMAIN subs' PROVE subs'[j] \in Subs /\ PaidFor(subs'[j], writers'[j], orders)
      <4>1. j = Len(subs) + 1 \/ (j \in DOMAIN subs /\ j \in DOMAIN writers)
        BY <3>2, BillingCounts DEF BillingInv
      <4> QED BY <4>1, <3>2, <3>3, <1>1, <1>3, <1>6
    <3> QED BY <3>2, <3>3, <3>4, BillingCounts DEF BillingInv
  <2>2. CASE i # 0
    <3>1. i \in DOMAIN subs /\ i \in DOMAIN writers /\ writers[i] \subseteq Saves
      BY <1>1, <2>2, BillingCounts DEF BillingInv
    <3>2. mixed \in Subs /\ by \in SUBSET Saves /\ PaidFor(mixed, by, orders)
      BY <1>1, <1>3, <1>6, <3>1, MixedColumns DEF mixed, by
    <3>3. subs' = [subs EXCEPT ![i] = mixed] /\ writers' = [writers EXCEPT ![i] = by]
      BY <1>2, <2>2
    <3>4. /\ subs' \in Seq(Subs) /\ Len(subs') = Len(subs) /\ DOMAIN subs' = DOMAIN subs
          /\ subs'[i] = mixed /\ \A j \in DOMAIN subs : j # i => subs'[j] = subs[j]
      BY <1>6, <3>1, <3>2, <3>3, OneReplaced
    <3>5. /\ writers' \in Seq(SUBSET Saves) /\ Len(writers') = Len(writers)
          /\ writers'[i] = by /\ \A j \in DOMAIN writers : j # i => writers'[j] = writers[j]
      BY <1>6, <3>1, <3>2, <3>3, OneReplaced
    <3>6. ASSUME NEW j \in DOMAIN subs' PROVE subs'[j] \in Subs /\ PaidFor(subs'[j], writers'[j], orders)
      <4>1. j \in DOMAIN subs /\ j \in DOMAIN writers
        BY <3>4, BillingCounts DEF BillingInv
      <4> QED BY <4>1, <3>2, <3>4, <3>5, <1>6
    <3> QED BY <3>4, <3>5, <3>6, <1>6, BillingCounts DEF BillingInv
  <2> QED BY <2>1, <2>2
<1>9. PaidBeforeActive'
  BY <1>4, <1>7, PaidForStays DEF PaidBeforeActive, BillingInv
<1>10. Asks(NoBillingCall, orders', Len(subs'))
  BY <1>4, <1>7, NoCallIsTyped DEF Asks, Grown, OfOrders
<1>11. upserts' \in Nat /\ upserts' <= MaxUpserts
  BY <1>2, BillingAssumption DEF BillingInv, BillingTypes
<1> HIDE DEF Asks
<1> QED BY <1>2, <1>4, <1>5, <1>7, <1>9, <1>10, <1>11, NoCallIsTyped, RequestGoesOn

LEMMA RequestIsLost ==
  ASSUME BillingInv, NEW c \in BillingCalls, BillingCrash(c)
  PROVE  BillingInv'
<1>1. bcall' = [bcall EXCEPT ![c] = NoBillingCall] /\ UNCHANGED <<listed, subs, writers, orders, upserts>>
  BY DEF BillingCrash
<1>2. Asks(NoBillingCall, orders', Len(subs'))
  BY <1>1, NoCallIsTyped, BillingCounts DEF Asks, OfOrders, BillingInv
<1>3. /\ Grown(orders, orders') /\ TiersAreNoted' /\ PaidBeforeActive'
  BY <1>1, OrdersStand, NotedStays, RowsStand DEF BillingInv
<1>4. /\ upserts' \in Nat /\ upserts' <= MaxUpserts
      /\ subs' \in Seq(Subs) /\ writers' \in Seq(SUBSET Saves) /\ Len(writers') = Len(subs')
      /\ Len(subs') >= Len(subs)
  BY <1>1, BillingCounts DEF BillingInv, BillingTypes
<1> HIDE DEF Asks
<1> QED BY <1>1, <1>2, <1>3, <1>4, NoCallIsTyped, RequestGoesOn

\* The orders grow in what the provider reports, and in the tiers that the
\* settings give their plan, while rows and requests stand.
LEMMA OrdersGrow ==
  ASSUME BillingInv, UNCHANGED <<subs, writers, bcall>>, listed' \in [PlansSold -> TierNames],
         upserts' \in Nat, upserts' <= MaxUpserts, Grown(orders, orders'), Len(orders') = Len(orders), TiersAreNoted'
  PROVE  BillingInv'
<1>1. BillingTypes'
  BY DEF BillingInv, BillingTypes, Grown
<1>2. PaidBeforeActive'
  BY RowsStand
<1>3. DOMAIN orders' = DOMAIN orders
  BY BillingCounts DEF Grown, BillingInv
<1>4. ASSUME NEW d \in BillingCalls PROVE Asks(bcall[d], orders', Len(subs'))
  <2>1. bcall'[d] = bcall[d] /\ bcall[d] \in Upserts /\ Asks(bcall[d], orders, Len(subs))
    BY DEF BillingInv, BillingTypes, RequestsAsk
  <2>2. Confirms(bcall[d], orders) => Confirms(bcall[d], orders')
    BY <2>1, PaidForStays DEF BillingInv
  <2> QED BY <2>1, <2>2, <1>3 DEF Asks
<1> QED BY <1>1, <1>2, <1>4 DEF BillingInv, RequestsAsk

LEMMA CodeIsReported ==
  ASSUME BillingInv, NEW o \in DOMAIN orders, NEW code \in Codes, Reports(o, code)
  PROVE  BillingInv'
<1>1. /\ orders' = [orders EXCEPT ![o].codes = @ \cup {code}] /\ UNCHANGED <<listed, subs, writers, bcall, upserts>>
      /\ orders[o] \in Orders
  BY DEF Reports, BillingInv, BillingTypes
<1> DEFINE reported == [orders[o] EXCEPT !.codes = @ \cup {code}]
<1>2. reported \in Orders /\ reported.plan = orders[o].plan /\ reported.tiers = orders[o].tiers
      /\ orders[o].codes \subseteq reported.codes
  BY <1>1 DEF Orders
<1> HIDE DEF reported
<1>3. /\ orders' \in Seq(Orders) /\ Len(orders') = Len(orders) /\ DOMAIN orders' = DOMAIN orders
      /\ \A i \in DOMAIN orders : orders'[i].plan = orders[i].plan /\ orders'[i].tiers = orders[i].tiers
                                  /\ orders[i].codes \subseteq orders'[i].codes
  <2>1. orders \in Seq(Orders) /\ orders' = [orders EXCEPT ![o] = reported]
    BY <1>1 DEF reported, BillingInv, BillingTypes
  <2>2. /\ orders' \in Seq(Orders) /\ Len(orders') = Len(orders) /\ DOMAIN orders' = DOMAIN orders
        /\ orders'[o] = reported /\ \A i \in DOMAIN orders : i # o => orders'[i] = orders[i]
    BY <1>2, <2>1, OneReplaced
  <2> QED BY <1>2, <2>2
<1>4. Grown(orders, orders')
  BY <1>3, BillingCounts DEF Grown, BillingInv
<1>5. TiersAreNoted'
  <2> SUFFICES ASSUME NEW i \in DOMAIN orders' PROVE NotifiedTier(listed', orders'[i].plan) \in orders'[i].tiers
    BY DEF TiersAreNoted
  <2>1. NotifiedTier(listed', orders'[i].plan) = NotifiedTier(listed, orders'[i].plan)
    BY <1>1 DEF NotifiedTier, FindPlan
  <2> QED BY <2>1, <1>3 DEF BillingInv, TiersAreNoted
<1> QED BY <1>1, <1>3, <1>4, <1>5, OrdersGrow DEF BillingInv, BillingTypes

LEMMA PlanIsEdited ==
  ASSUME BillingInv, NEW id \in PlansSold, NEW tier \in SoldTiers \cup {Unknown}, EditListing(id, tier)
  PROVE  BillingInv'
<1>1. /\ listed' = [listed EXCEPT ![id] = tier] /\ UNCHANGED <<subs, writers, bcall>>
      /\ upserts' = upserts + 1 /\ upserts < MaxUpserts
      /\ orders' = [o \in DOMAIN orders |->
           IF orders[o].plan = id THEN [orders[o] EXCEPT !.tiers = @ \cup {NotifiedTier(listed', id)}] ELSE orders[o]]
  BY DEF EditListing
<1>2. listed' \in [PlansSold -> TierNames] /\ \A p \in PlansSold : p # id => listed'[p] = listed[p]
  BY <1>1 DEF BillingInv, BillingTypes, TierNames
<1>3. NotifiedTier(listed', id) \in TierNames
  <2>1. \A i \in DOMAIN DefaultPlans : DefaultPlans[i].tier \in TierNames
    BY DEF DefaultPlans, DefaultPlan, TierNames, SubscriptionTiers
  <2>2. FindPlan(listed', id) \in TierNames
    BY <2>1, <1>2 DEF FindPlan, TierNames
  <2> QED BY <2>2 DEF NotifiedTier, TierNames, SubscriptionTiers
<1>4. \A p \in PlansSold : p # id => NotifiedTier(listed', p) = NotifiedTier(listed, p)
  BY <1>2, TiersStay
<1> DEFINE t == NotifiedTier(listed', id)
<1>5. ASSUME NEW o \in DOMAIN orders
      PROVE  /\ orders'[o] \in Orders /\ orders'[o].plan = orders[o].plan /\ orders'[o].plan \in PlansSold
             /\ orders'[o].codes = orders[o].codes /\ orders[o].tiers \subseteq orders'[o].tiers
             /\ orders[o].plan = id => t \in orders'[o].tiers
  <2>1. orders[o] \in Orders /\ t \in TierNames
    BY <1>3 DEF BillingInv, BillingTypes
  <2> HIDE DEF t
  <2>2. orders'[o] = IF orders[o].plan = id THEN [orders[o] EXCEPT !.tiers = @ \cup {t}] ELSE orders[o]
    BY <1>1 DEF t
  <2> QED BY <2>1, <2>2 DEF Orders
<1>6. DOMAIN orders' = DOMAIN orders /\ Len(orders') = Len(orders) /\ orders' \in Seq(Orders)
  <2>1. DOMAIN orders' = 1..Len(orders) /\ Len(orders) \in Nat /\ orders' = [o \in 1..Len(orders) |-> orders'[o]]
    BY <1>1, BillingCounts DEF BillingInv
  <2> QED BY <2>1, <1>5, BillingCounts DEF BillingInv
<1>7. Grown(orders, orders')
  BY <1>5, <1>6, BillingCounts DEF Grown, BillingInv
<1>8. TiersAreNoted'
  <2> SUFFICES ASSUME NEW o \in DOMAIN orders' PROVE NotifiedTier(listed', orders'[o].plan) \in orders'[o].tiers
    BY DEF TiersAreNoted
  <2>1. o \in DOMAIN orders /\ orders'[o].plan = orders[o].plan /\ orders[o].plan \in PlansSold
    BY <1>5, <1>6
  <2>2. CASE orders[o].plan = id
    BY <2>1, <2>2, <1>5
  <2>3. CASE orders[o].plan # id
    BY <2>1, <2>3, <1>4, <1>5 DEF BillingInv, TiersAreNoted
  <2> QED BY <2>2, <2>3
<1>9. upserts' \in Nat /\ upserts' <= MaxUpserts
  BY <1>1, BillingAssumption DEF BillingInv, BillingTypes
<1> QED BY <1>1, <1>2, <1>6, <1>7, <1>8, <1>9, OrdersGrow

\* and every step keeps it.
LEMMA BillingInvNext == BillingInv /\ [BillingNext]_billingVars => BillingInv'
<1> SUFFICES ASSUME BillingInv, [BillingNext]_billingVars PROVE BillingInv'
  OBVIOUS
<1>1. CASE UNCHANGED billingVars
  BY <1>1, OrdersGrow, OrdersStand, NotedStays DEF billingVars, BillingInv, BillingTypes
<1> QED
  BY <1>1, CheckoutIsCreated, NotificationBegins, ChangeBegins, RowIsFound, RowIsReread, SubIsSaved,
     RequestIsLost, CodeIsReported, PlanIsEdited DEF BillingNext

\* The types of rows, orders and requests, and what is paid for.
THEOREM BillingInOrder == BillingSpec => []BillingInv
BY BillingInvInit, BillingInvNext, PTL DEF BillingSpec

\* Behind an active subscription there is a paid order or an administrator,
\* whatever checkouts, notifications, changes and edits of the plans came in
\* between; what one confirmation wrote by itself is what its order was for
\* (billing.service.ts, upsertForBusiness of db-clients.ts).
THEOREM ActiveSubscriptionsArePaidFor == BillingSpec => []ActiveIsPaidFor
<1>1. BillingInv => ActiveIsPaidFor
  <2> SUFFICES ASSUME BillingInv, NEW i \in DOMAIN subs, subs[i].status = "ACTIVE"
               PROVE  \E w \in writers[i] :
                        \/ w.as = "granted"
                        \/ /\ w.as = "paid" /\ 2 \in orders[w.order].codes
                           /\ writers[i] = {w} =>
                                /\ subs[i].plan = orders[w.order].plan /\ subs[i].ref = w.order
                                /\ subs[i].tier \in orders[w.order].tiers
    BY DEF ActiveIsPaidFor
  <2>1. PaidFor(subs[i], writers[i], orders)
    BY DEF BillingInv, PaidBeforeActive
  <2>2. PICK w \in writers[i] : Vouches(w, orders)
    BY <2>1 DEF PaidFor
  <2>3. w.as = "paid" /\ writers[i] = {w} => IsOf(subs[i], w, orders)
    BY <2>1 DEF PaidFor
  <2> QED BY <2>2, <2>3 DEF Vouches, IsOf
<1> QED BY <1>1, BillingInOrder, PTL

(* Accounts, businesses and keys *)

AccountPlaces == {"idle", "register", "business", "businesses", "count", "key"}
AccountsTypes ==
  /\ user \in [Users -> {"none", "active", "disabled", "deleted"}] /\ session \subseteq Users
  /\ exists \subseteq Businesses /\ IsFiniteSet(exists)
  /\ owner \in [Businesses -> Users \cup {NoOne}]
  /\ key \in [McpKeys -> [of : Businesses \cup {NoOne}, live : BOOLEAN]]
  /\ IsFiniteSet({k \in McpKeys : key[k].live})
  /\ acall \in [AccountCalls -> [at : AccountPlaces, user : Users \cup {NoOne},
                                 on : Businesses \cup {NoOne}, mine : SUBSET Businesses]]

\* Only what exists has an owner or keys, and a deleted user owns nothing.
OwnersExist ==
  /\ \A b \in Businesses : owner[b] # NoOne => b \in exists /\ user[owner[b]] # "deleted"
  /\ \A k \in McpKeys : key[k].live => key[k].of \in exists
  /\ \A c \in AccountCalls :
       /\ acall[c].at # "idle" => acall[c].user \in Users
       /\ acall[c].at \in {"businesses", "count", "key"} =>
            acall[c].on \in exists /\ owner[acall[c].on] \in {acall[c].user, NoOne}

\* What a request has listed is its user's still, unless he is deleted.
Listed(u) == {c \in AccountCalls : acall[c].at = "count" /\ acall[c].user = u}
ListsStand ==
  \A u \in Users : user[u] # "deleted" => \A c \in Listed(u) : acall[c].mine \subseteq OwnedBy(u)

\* Requests that are going to insert a business of u.
Creating(u) == {c \in AccountCalls : acall[c].at = "business" /\ acall[c].user = u}
BusinessesAreBounded ==
  \A u \in Users :
    Cardinality(OwnedBy(u)) + Cardinality(Creating(u)) < BusinessLimit + Cardinality(AccountCalls)

\* How many live keys a request counts, if it counts now; and the requests that would
\* insert a key of u if the limit were m.
Counted(c) == Cardinality(LiveKeys(acall[c].mine))
Inserting(u, m) ==
  {c \in AccountCalls : acall[c].user = u /\ acall[c].at = "key"} \cup {c \in Listed(u) : Counted(c) < m}
\* It is not enough to know this of the limit itself: when a key is revoked, those that
\* had one too many to count are going to insert theirs, all at once.
KeysAreBounded ==
  \A u \in Users : user[u] # "deleted" =>
    \A m \in Nat : m >= KeyLimit =>
      Cardinality(LiveKeys(OwnedBy(u))) + Cardinality(Inserting(u, m)) < m + Cardinality(AccountCalls)
AccountsInv == AccountsTypes /\ OwnersExist /\ ListsStand /\ BusinessesAreBounded /\ KeysAreBounded

AccountCalled == [at : AccountPlaces, user : Users \cup {NoOne}, on : Businesses \cup {NoOne},
                  mine : SUBSET Businesses]

\* Counting: a larger set counts no less, one more or one fewer changes it by one.
LEMMA NoFewer ==
  ASSUME NEW S, NEW T, IsFiniteSet(T), S \subseteq T
  PROVE  IsFiniteSet(S) /\ Cardinality(S) <= Cardinality(T)
         /\ Cardinality(S) \in Nat /\ Cardinality(T) \in Nat
BY FS_Subset, FS_CardinalityType

LEMMA OneFewer ==
  ASSUME NEW S, NEW T, IsFiniteSet(T), NEW x \in T, S \subseteq T \ {x}
  PROVE  IsFiniteSet(S) /\ Cardinality(S) + 1 <= Cardinality(T)
         /\ Cardinality(S) \in Nat /\ Cardinality(T) \in Nat
<1>1. IsFiniteSet(T \ {x}) /\ Cardinality(T \ {x}) = Cardinality(T) - 1
  BY FS_RemoveElement
<1>2. Cardinality(T) \in Nat
  BY FS_CardinalityType
<1> QED BY <1>1, <1>2, NoFewer

LEMMA OneMore ==
  ASSUME NEW S, NEW T, IsFiniteSet(T), NEW x, S \subseteq T \cup {x}
  PROVE  IsFiniteSet(S) /\ Cardinality(S) <= Cardinality(T) + 1
         /\ Cardinality(S) \in Nat /\ Cardinality(T) \in Nat
<1>1. IsFiniteSet(T \cup {x})
      /\ Cardinality(T \cup {x}) = IF x \in T THEN Cardinality(T) ELSE Cardinality(T) + 1
  BY FS_AddElement
<1>2. Cardinality(T) \in Nat
  BY FS_CardinalityType
<1> QED BY <1>1, <1>2, NoFewer

\* What is counted is finite.
LEMMA AccountsFinite ==
  ASSUME AccountsTypes
  PROVE  /\ Cardinality(AccountCalls) \in Nat \ {0}
         /\ \A S \in SUBSET AccountCalls :
              IsFiniteSet(S) /\ Cardinality(S) \in Nat /\ Cardinality(S) <= Cardinality(AccountCalls)
         /\ \A u : IsFiniteSet(OwnedBy(u)) /\ Cardinality(OwnedBy(u)) \in Nat
         /\ \A bs : IsFiniteSet(LiveKeys(bs)) /\ Cardinality(LiveKeys(bs)) \in Nat
<1>1. IsFiniteSet(AccountCalls) /\ Cardinality(AccountCalls) \in Nat \ {0}
  BY AccountsAssumption, FS_CardinalityType, FS_EmptySet
<1>2. ASSUME NEW u PROVE IsFiniteSet(OwnedBy(u)) /\ Cardinality(OwnedBy(u)) \in Nat
  <2>1. OwnedBy(u) \subseteq exists
    BY DEF OwnedBy
  <2> QED BY <2>1, NoFewer DEF AccountsTypes
<1>3. ASSUME NEW bs PROVE IsFiniteSet(LiveKeys(bs)) /\ Cardinality(LiveKeys(bs)) \in Nat
  <2>1. LiveKeys(bs) \subseteq {k \in McpKeys : key[k].live}
    BY DEF LiveKeys
  <2> QED BY <2>1, NoFewer DEF AccountsTypes
<1> QED BY <1>1, <1>2, <1>3, NoFewer

\* The invariant of accounts, businesses and keys: it holds at first,
LEMMA AccountsInvInit == AccountsInit => AccountsInv
<1> SUFFICES ASSUME AccountsInit PROVE AccountsInv
  OBVIOUS
<1>1. /\ \A k \in McpKeys : ~key[k].live
      /\ \A c \in AccountCalls : acall[c] = NoAccountCall
  BY DEF AccountsInit
<1>2. {k \in McpKeys : key[k].live} = {} /\ \A u : OwnedBy(u) = {}
  BY <1>1 DEF AccountsInit, OwnedBy
<1>3. \A u : Creating(u) = {} /\ LiveKeys(OwnedBy(u)) = {} /\ \A m : Inserting(u, m) = {}
  BY <1>1 DEF Creating, LiveKeys, Inserting, Listed, NoAccountCall
<1>4. AccountsTypes
  BY <1>1, <1>2, FS_EmptySet DEF AccountsInit, AccountsTypes, NoAccountCall, AccountPlaces
<1>5. OwnersExist /\ ListsStand
  BY <1>1 DEF AccountsInit, OwnersExist, ListsStand, Listed, NoAccountCall
<1>6. BusinessesAreBounded /\ KeysAreBounded
  <2>1. Cardinality({}) = 0 /\ Cardinality(AccountCalls) \in Nat \ {0}
    BY <1>4, AccountsFinite, FS_EmptySet
  <2>2. ASSUME NEW n \in Nat PROVE 0 + 0 < n + Cardinality(AccountCalls)
    BY <2>1
  <2>3. BusinessesAreBounded
    <3> SUFFICES ASSUME NEW u \in Users
                 PROVE  Cardinality(OwnedBy(u)) + Cardinality(Creating(u))
                          < BusinessLimit + Cardinality(AccountCalls)
      BY DEF BusinessesAreBounded
    <3>1. Cardinality(OwnedBy(u)) = 0 /\ Cardinality(Creating(u)) = 0
      BY <1>2, <1>3, <2>1
    <3> QED BY <3>1, <2>2, AccountsAssumption
  <2>4. KeysAreBounded
    <3> SUFFICES ASSUME NEW u \in Users, NEW m \in Nat
                 PROVE  Cardinality(LiveKeys(OwnedBy(u))) + Cardinality(Inserting(u, m))
                          < m + Cardinality(AccountCalls)
      BY DEF KeysAreBounded
    <3>1. Cardinality(LiveKeys(OwnedBy(u))) = 0 /\ Cardinality(Inserting(u, m)) = 0
      BY <1>3, <2>1
    <3> QED BY <3>1, <2>2
  <2> QED BY <2>3, <2>4
<1> QED BY <1>4, <1>5, <1>6 DEF AccountsInv

\* A step that gives nobody a business or a key, and after which no other request is
\* going to insert one.
LEMMA NothingIsAdded ==
  ASSUME AccountsInv, AccountsTypes', OwnersExist', key' = key,
         \A u \in Users : OwnedBy(u)' \subseteq OwnedBy(u),
         \A u \in Users : user'[u] # "deleted" => user[u] # "deleted" /\ OwnedBy(u)' = OwnedBy(u),
         \A c \in AccountCalls :
           \/ acall'[c] = acall[c]
           \/ acall'[c].at \in {"idle", "register", "businesses"}
           \/ /\ acall[c].at = "count" /\ acall'[c].at = "key" /\ acall'[c].user = acall[c].user
              /\ Counted(c) < KeyLimit
  PROVE  AccountsInv'
<1>1. \A u : Listed(u)' \subseteq Listed(u) /\ \A c \in Listed(u)' : acall'[c] = acall[c]
  BY DEF Listed
<1>2. \A u : Creating(u)' \subseteq Creating(u)
  BY DEF Creating
<1>3. \A bs : LiveKeys(bs)' = LiveKeys(bs)
  BY DEF LiveKeys
<1>4. ASSUME NEW u \in Users, NEW m \in Nat, m >= KeyLimit
      PROVE  Inserting(u, m)' \subseteq Inserting(u, m)
  <2>1. \A c \in Listed(u)' : Counted(c)' = Counted(c)
    BY <1>1 DEF Counted, LiveKeys
  <2>2. \A c \in AccountCalls : Counted(c) \in Nat
    BY AccountsFinite DEF Counted, AccountsInv
  <2>3. \A c \in AccountCalls : Counted(c) < KeyLimit => Counted(c) < m
    BY <2>2, <1>4, AccountsAssumption
  <2> QED BY <1>1, <2>1, <2>3 DEF Inserting, Listed
<1>5. ListsStand'
  BY <1>1 DEF ListsStand, AccountsInv
<1>6. BusinessesAreBounded'
  <2> SUFFICES ASSUME NEW u \in Users
               PROVE  Cardinality(OwnedBy(u)') + Cardinality(Creating(u)')
                        < BusinessLimit + Cardinality(AccountCalls)
    BY DEF BusinessesAreBounded
  <2>1. Cardinality(OwnedBy(u)') <= Cardinality(OwnedBy(u)) /\ Cardinality(OwnedBy(u)') \in Nat
    BY NoFewer, AccountsFinite DEF AccountsInv
  <2>2. Cardinality(Creating(u)') <= Cardinality(Creating(u)) /\ Cardinality(Creating(u)') \in Nat
    BY <1>2, NoFewer, AccountsFinite DEF AccountsInv, Creating
  <2>3. Cardinality(OwnedBy(u)) \in Nat /\ Cardinality(Creating(u)) \in Nat
    BY AccountsFinite DEF AccountsInv, Creating
  <2> QED BY <2>1, <2>2, <2>3, AccountsFinite, AccountsAssumption DEF AccountsInv, BusinessesAreBounded
<1>7. KeysAreBounded'
  <2> SUFFICES ASSUME NEW u \in Users, user'[u] # "deleted", NEW m \in Nat, m >= KeyLimit
               PROVE  Cardinality(LiveKeys(OwnedBy(u))') + Cardinality(Inserting(u, m)')
                        < m + Cardinality(AccountCalls)
    BY DEF KeysAreBounded
  <2>1. LiveKeys(OwnedBy(u))' = LiveKeys(OwnedBy(u))
    BY DEF LiveKeys
  <2>2. Inserting(u, m) \subseteq AccountCalls
    BY DEF Inserting, Listed
  <2>3. Cardinality(Inserting(u, m)') <= Cardinality(Inserting(u, m)) /\ Cardinality(Inserting(u, m)') \in Nat
    BY <1>4, <2>2, NoFewer, AccountsFinite DEF AccountsInv
  <2> QED BY <2>1, <2>2, <2>3, AccountsFinite DEF AccountsInv, KeysAreBounded
<1> QED BY <1>5, <1>6, <1>7 DEF AccountsInv

\* What a step of a request leaves typed.
LEMMA AccountCallMoves ==
  ASSUME AccountsTypes, NEW c \in AccountCalls, NEW at \in AccountPlaces, NEW u \in Users \cup {NoOne},
         NEW b \in Businesses \cup {NoOne}, NEW mine \in SUBSET Businesses, Next1(c, at, u, b, mine)
  PROVE  /\ acall' \in [AccountCalls -> AccountCalled]
         /\ acall'[c] = [at |-> at, user |-> u, on |-> b, mine |-> mine]
         /\ \A d \in AccountCalls : d # c => acall'[d] = acall[d]
<1>1. [at |-> at, user |-> u, on |-> b, mine |-> mine] \in AccountCalled
  BY DEF AccountCalled
<1> QED BY <1>1 DEF AccountsTypes, AccountCalled, Next1

LEMMA AccountCallReturns ==
  ASSUME AccountsTypes, NEW c \in AccountCalls, Return(c)
  PROVE  /\ acall' \in [AccountCalls -> AccountCalled]
         /\ acall'[c].at = "idle"
         /\ \A d \in AccountCalls : d # c => acall'[d] = acall[d]
<1>1. NoAccountCall \in AccountCalled /\ NoAccountCall.at = "idle"
  BY DEF AccountCalled, NoAccountCall, AccountPlaces
<1> QED BY <1>1 DEF AccountsTypes, AccountCalled, Return

\* Step by step, as the requests and the administrators take them.
LEMMA BusinessIsBegun ==
  ASSUME AccountsInv, NEW c \in AccountCalls, NEW u \in Users, CreateBusiness(c, u)
  PROVE  AccountsInv'
<1>1. /\ UNCHANGED <<user, session, exists, owner, key>> /\ acall[c].at = "idle"
      /\ Cardinality(OwnedBy(u)) + 1 <= BusinessLimit
      /\ Next1(c, "business", u, NoOne, {})
  BY DEF CreateBusiness, Idle, MayCreate
<1>2. /\ acall' \in [AccountCalls -> AccountCalled]
      /\ acall'[c] = [at |-> "business", user |-> u, on |-> NoOne, mine |-> {}]
      /\ \A d \in AccountCalls : d # c => acall'[d] = acall[d]
  BY <1>1, AccountCallMoves DEF AccountsInv, AccountPlaces
<1>3. AccountsTypes'
  BY <1>1, <1>2 DEF AccountsInv, AccountsTypes, AccountCalled
<1>4. OwnersExist'
  BY <1>1, <1>2 DEF AccountsInv, OwnersExist
<1>5. \A v : Listed(v)' = Listed(v) /\ OwnedBy(v)' = OwnedBy(v)
  BY <1>1, <1>2 DEF Listed, OwnedBy
<1>6. \A d : d # c /\ d \in AccountCalls => Counted(d)' = Counted(d)
  BY <1>1, <1>2 DEF Counted, LiveKeys
<1>7. \A v, m : Inserting(v, m)' = Inserting(v, m)
  BY <1>1, <1>2, <1>5, <1>6 DEF Inserting, Listed
<1>8. ListsStand'
  BY <1>1, <1>2, <1>5 DEF AccountsInv, ListsStand, Listed
<1>9. BusinessesAreBounded'
  <2> SUFFICES ASSUME NEW v \in Users
               PROVE  Cardinality(OwnedBy(v)) + Cardinality(Creating(v)')
                        < BusinessLimit + Cardinality(AccountCalls)
    BY <1>5 DEF BusinessesAreBounded
  <2>1. CASE v = u
    <3>1. Cardinality(Creating(v)') \in Nat /\ Cardinality(Creating(v)') <= Cardinality(AccountCalls)
      BY AccountsFinite DEF AccountsInv, Creating
    <3> QED BY <2>1, <3>1, <1>1, AccountsFinite, AccountsAssumption DEF AccountsInv
  <2>2. CASE v # u
    <3>1. Creating(v)' = Creating(v)
      BY <2>2, <1>1, <1>2 DEF Creating
    <3> QED BY <3>1 DEF AccountsInv, BusinessesAreBounded
  <2> QED BY <2>1, <2>2
<1>10. KeysAreBounded'
  <2>1. \A bs : LiveKeys(bs)' = LiveKeys(bs)
    BY <1>1 DEF LiveKeys
  <2>2. \A v : LiveKeys(OwnedBy(v))' = LiveKeys(OwnedBy(v))
    BY <1>1 DEF LiveKeys, OwnedBy
  <2> QED BY <1>1, <1>7, <2>2 DEF AccountsInv, KeysAreBounded
<1> QED BY <1>3, <1>4, <1>8, <1>9, <1>10 DEF AccountsInv

LEMMA BusinessIsInserted ==
  ASSUME AccountsInv, NEW c \in AccountCalls, NEW b \in Businesses, InsertBusiness(c, b),
         NEW u, acall[c].user = u, user[u] # "deleted"
  PROVE  AccountsInv'
<1>1. /\ UNCHANGED <<user, session, key>> /\ acall[c].at = "business" /\ b \notin exists
      /\ exists' = exists \cup {b} /\ owner' = [owner EXCEPT ![b] = u] /\ Return(c)
  BY DEF InsertBusiness
<1>2. /\ acall' \in [AccountCalls -> AccountCalled] /\ acall'[c].at = "idle"
      /\ \A d \in AccountCalls : d # c => acall'[d] = acall[d]
  BY <1>1, AccountCallReturns DEF AccountsInv
<1>3. u \in Users /\ owner[b] = NoOne
  BY <1>1 DEF AccountsInv, AccountsTypes, OwnersExist
<1>4. AccountsTypes'
  BY <1>1, <1>2, <1>3, FS_AddElement DEF AccountsInv, AccountsTypes, AccountCalled
<1>5. OwnersExist'
  BY <1>1, <1>2, <1>3 DEF AccountsInv, AccountsTypes, OwnersExist
<1>6. /\ OwnedBy(u)' = OwnedBy(u) \cup {b} /\ b \notin OwnedBy(u)
      /\ \A v \in Users : v # u => OwnedBy(v)' = OwnedBy(v)
  BY <1>1, <1>3, AccountsAssumption DEF AccountsInv, AccountsTypes, OwnedBy
<1>7. \A v : Listed(v)' = Listed(v)
  BY <1>1, <1>2 DEF Listed
<1>8. \A d : d # c /\ d \in AccountCalls => Counted(d)' = Counted(d)
  BY <1>1, <1>2 DEF Counted, LiveKeys
<1>9. \A v, m : Inserting(v, m)' = Inserting(v, m)
  BY <1>1, <1>2, <1>7, <1>8 DEF Inserting, Listed
<1>10. ListsStand'
  BY <1>1, <1>2, <1>6, <1>7 DEF AccountsInv, ListsStand, Listed
<1>11. BusinessesAreBounded'
  <2> SUFFICES ASSUME NEW v \in Users
               PROVE  Cardinality(OwnedBy(v)') + Cardinality(Creating(v)')
                        < BusinessLimit + Cardinality(AccountCalls)
    BY DEF BusinessesAreBounded
  <2>1. CASE v = u
    <3>1. c \in Creating(v) /\ Creating(v)' \subseteq Creating(v) \ {c}
      BY <2>1, <1>1, <1>2 DEF Creating
    <3>2. Cardinality(Creating(v)') + 1 <= Cardinality(Creating(v)) /\ Cardinality(Creating(v)') \in Nat
          /\ Cardinality(Creating(v)) \in Nat
      BY <3>1, OneFewer, AccountsFinite DEF AccountsInv, Creating
    <3>3. Cardinality(OwnedBy(v)') <= Cardinality(OwnedBy(v)) + 1 /\ Cardinality(OwnedBy(v)') \in Nat
      BY <2>1, <1>6, OneMore, AccountsFinite DEF AccountsInv
    <3> QED BY <3>2, <3>3, AccountsFinite, AccountsAssumption DEF AccountsInv, BusinessesAreBounded
  <2>2. CASE v # u
    <3>1. Creating(v)' = Creating(v) /\ OwnedBy(v)' = OwnedBy(v)
      BY <2>2, <1>1, <1>2, <1>6 DEF Creating
    <3> QED BY <3>1 DEF AccountsInv, BusinessesAreBounded
  <2> QED BY <2>1, <2>2
<1>12. KeysAreBounded'
  <2>1. \A k \in McpKeys : key[k].live => key[k].of # b
    BY <1>1 DEF AccountsInv, OwnersExist
  <2>2. \A v \in Users : LiveKeys(OwnedBy(v))' = LiveKeys(OwnedBy(v))
    BY <1>1, <1>6, <2>1 DEF LiveKeys
  <2> QED BY <1>1, <1>9, <2>2 DEF AccountsInv, KeysAreBounded
<1> QED BY <1>4, <1>5, <1>10, <1>11, <1>12 DEF AccountsInv

LEMMA BusinessesAreListed ==
  ASSUME AccountsInv, NEW c \in AccountCalls, ListBusinesses(c),
         NEW u, acall[c].user = u, NEW b, acall[c].on = b
  PROVE  AccountsInv'
<1>1. /\ UNCHANGED <<user, session, exists, owner, key>> /\ acall[c].at = "businesses"
      /\ Next1(c, "count", u, b, OwnedBy(u))
  BY DEF ListBusinesses
<1>2. u \in Users /\ b \in Businesses
  BY <1>1 DEF AccountsInv, AccountsTypes, OwnersExist
<1>3. OwnedBy(u) \in SUBSET Businesses
  BY DEF AccountsInv, AccountsTypes, OwnedBy
<1>4. /\ acall' \in [AccountCalls -> AccountCalled]
      /\ acall'[c] = [at |-> "count", user |-> u, on |-> b, mine |-> OwnedBy(u)]
      /\ \A d \in AccountCalls : d # c => acall'[d] = acall[d]
  BY <1>1, <1>2, <1>3, AccountCallMoves DEF AccountsInv, AccountPlaces
<1>5. AccountsTypes'
  BY <1>1, <1>4 DEF AccountsInv, AccountsTypes, AccountCalled
<1>6. OwnersExist'
  BY <1>1, <1>4 DEF AccountsInv, OwnersExist
<1>7. \A v : OwnedBy(v)' = OwnedBy(v) /\ Creating(v)' = Creating(v) /\ LiveKeys(OwnedBy(v))' = LiveKeys(OwnedBy(v))
  BY <1>1, <1>4 DEF OwnedBy, Creating, LiveKeys
<1>8. /\ Listed(u)' = Listed(u) \cup {c}
      /\ \A v : v # u => Listed(v)' = Listed(v)
  BY <1>1, <1>4 DEF Listed
<1>9. ListsStand'
  BY <1>1, <1>4, <1>7, <1>8 DEF AccountsInv, ListsStand, Listed
<1>10. BusinessesAreBounded'
  BY <1>7 DEF AccountsInv, BusinessesAreBounded
<1>11. Counted(c)' = Cardinality(LiveKeys(OwnedBy(u))) /\ \A d \in AccountCalls : d # c => Counted(d)' = Counted(d)
  <2>1. \A bs : LiveKeys(bs)' = LiveKeys(bs)
    BY <1>1 DEF LiveKeys
  <2>2. acall'[c].mine = OwnedBy(u)
    BY <1>4
  <2>3. Counted(c)' = Cardinality({k \in McpKeys : key[k].live /\ key[k].of \in acall'[c].mine})
    BY <1>1 DEF Counted, LiveKeys
  <2>4. \A d \in AccountCalls : d # c => Counted(d)' = Counted(d)
    BY <1>1, <1>4 DEF Counted, LiveKeys
  <2> QED BY <2>2, <2>3, <2>4 DEF LiveKeys
<1>12. KeysAreBounded'
  <2> SUFFICES ASSUME NEW v \in Users, user[v] # "deleted", NEW m \in Nat, m >= KeyLimit
               PROVE  Cardinality(LiveKeys(OwnedBy(v))) + Cardinality(Inserting(v, m)')
                        < m + Cardinality(AccountCalls)
    BY <1>1, <1>7 DEF KeysAreBounded
  <2>1. CASE v = u /\ Cardinality(LiveKeys(OwnedBy(u))) < m
    <3>1. Cardinality(Inserting(v, m)') \in Nat /\ Cardinality(Inserting(v, m)') <= Cardinality(AccountCalls)
      BY AccountsFinite DEF AccountsInv, Inserting, Listed
    <3> QED BY <2>1, <3>1, AccountsFinite DEF AccountsInv
  <2>2. CASE ~(v = u /\ Cardinality(LiveKeys(OwnedBy(u))) < m)
    <3>1. Inserting(v, m)' = Inserting(v, m)
      BY <2>2, <1>1, <1>4, <1>8, <1>11 DEF Inserting, Listed
    <3> QED BY <3>1 DEF AccountsInv, KeysAreBounded
  <2> QED BY <2>1, <2>2
<1> QED BY <1>5, <1>6, <1>9, <1>10, <1>12 DEF AccountsInv

LEMMA KeyIsInserted ==
  ASSUME AccountsInv, NEW c \in AccountCalls, NEW k \in McpKeys, InsertKey(c, k),
         NEW u, acall[c].user = u, NEW b, acall[c].on = b
  PROVE  AccountsInv'
<1>1. /\ UNCHANGED <<user, session, exists, owner>> /\ acall[c].at = "key" /\ key[k].of = NoOne
      /\ key' = [key EXCEPT ![k] = [of |-> b, live |-> TRUE]] /\ Return(c)
  BY DEF InsertKey
<1>2. /\ acall' \in [AccountCalls -> AccountCalled] /\ acall'[c].at = "idle"
      /\ \A d \in AccountCalls : d # c => acall'[d] = acall[d]
  BY <1>1, AccountCallReturns DEF AccountsInv
<1>3. u \in Users /\ b \in exists /\ b \in Businesses /\ owner[b] \in {u, NoOne}
  BY <1>1 DEF AccountsInv, AccountsTypes, OwnersExist
<1>4. /\ ~key[k].live
      /\ key' \in [McpKeys -> [of : Businesses \cup {NoOne}, live : BOOLEAN]]
      /\ key'[k].of = b /\ key'[k].live
      /\ \A l \in McpKeys : l # k => key'[l] = key[l]
  BY <1>1, <1>3, AccountsAssumption DEF AccountsInv, AccountsTypes, OwnersExist
<1>5. AccountsTypes'
  <2>1. {l \in McpKeys : key'[l].live} \subseteq {l \in McpKeys : key[l].live} \cup {k}
    BY <1>4
  <2>2. IsFiniteSet({l \in McpKeys : key'[l].live})
    BY <2>1, OneMore DEF AccountsInv, AccountsTypes
  <2> QED BY <1>1, <1>2, <1>4, <2>2 DEF AccountsInv, AccountsTypes, AccountCalled
<1>6. OwnersExist'
  BY <1>1, <1>2, <1>3, <1>4 DEF AccountsInv, OwnersExist
<1>7. \A v : OwnedBy(v)' = OwnedBy(v) /\ Creating(v)' = Creating(v) /\ Listed(v)' = Listed(v)
  BY <1>1, <1>2 DEF OwnedBy, Creating, Listed
<1>8. ListsStand'
  BY <1>1, <1>2, <1>7 DEF AccountsInv, ListsStand, Listed
<1>9. BusinessesAreBounded'
  BY <1>7 DEF AccountsInv, BusinessesAreBounded
<1>10. /\ \A bs : LiveKeys(bs) \subseteq LiveKeys(bs)' /\ LiveKeys(bs)' \subseteq LiveKeys(bs) \cup {k}
       /\ \A bs : b \notin bs => LiveKeys(bs)' = LiveKeys(bs)
  BY <1>4 DEF LiveKeys
<1>11. \A v : LiveKeys(OwnedBy(v))' = {l \in McpKeys : key'[l].live /\ key'[l].of \in OwnedBy(v)}
  BY <1>7 DEF LiveKeys
<1>12. ASSUME NEW d \in AccountCalls, d # c PROVE Counted(d) <= Counted(d)' /\ Counted(d) \in Nat /\ Counted(d)' \in Nat
  <2>1. Counted(d)' = Cardinality({l \in McpKeys : key'[l].live /\ key'[l].of \in acall[d].mine})
    BY <1>2, <1>12 DEF Counted, LiveKeys
  <2>2. LiveKeys(acall[d].mine) \subseteq {l \in McpKeys : key'[l].live /\ key'[l].of \in acall[d].mine}
    BY <1>4 DEF LiveKeys
  <2>3. IsFiniteSet({l \in McpKeys : key'[l].live /\ key'[l].of \in acall[d].mine})
    <3>1. {l \in McpKeys : key'[l].live /\ key'[l].of \in acall[d].mine} \subseteq {l \in McpKeys : key'[l].live}
      OBVIOUS
    <3> QED BY <3>1, <1>5, NoFewer DEF AccountsTypes
  <2> QED BY <2>1, <2>2, <2>3, NoFewer DEF Counted
<1>13. KeysAreBounded'
  <2> SUFFICES ASSUME NEW v \in Users, user[v] # "deleted", NEW m \in Nat, m >= KeyLimit
               PROVE  Cardinality(LiveKeys(OwnedBy(v))') + Cardinality(Inserting(v, m)')
                        < m + Cardinality(AccountCalls)
    BY <1>1 DEF KeysAreBounded
  <2>1. Inserting(v, m)' \subseteq Inserting(v, m) /\ c \notin Inserting(v, m)'
    <3>1. \A d \in AccountCalls : d # c /\ Counted(d)' < m => Counted(d) < m
      BY <1>12
    <3> QED BY <3>1, <1>1, <1>2, <1>7 DEF Inserting, Listed
  <2>2. /\ Inserting(v, m) \subseteq AccountCalls
        /\ Cardinality(LiveKeys(OwnedBy(v))) + Cardinality(Inserting(v, m)) < m + Cardinality(AccountCalls)
    BY DEF Inserting, Listed, AccountsInv, KeysAreBounded
  <2>3. CASE v = u
    <3>1. c \in Inserting(v, m)
      BY <2>3, <1>1 DEF Inserting
    <3>2. /\ Cardinality(Inserting(v, m)') + 1 <= Cardinality(Inserting(v, m))
          /\ Cardinality(Inserting(v, m)') \in Nat /\ Cardinality(Inserting(v, m)) \in Nat
      BY <3>1, <2>1, <2>2, OneFewer, AccountsFinite DEF AccountsInv
    <3>3. LiveKeys(OwnedBy(v))' \subseteq LiveKeys(OwnedBy(v)) \cup {k}
      BY <1>4, <1>11 DEF LiveKeys
    <3>4. /\ Cardinality(LiveKeys(OwnedBy(v))') <= Cardinality(LiveKeys(OwnedBy(v))) + 1
          /\ Cardinality(LiveKeys(OwnedBy(v))') \in Nat /\ Cardinality(LiveKeys(OwnedBy(v))) \in Nat
      BY <3>3, OneMore, AccountsFinite DEF AccountsInv
    <3> QED BY <3>2, <3>4, <2>2, AccountsFinite DEF AccountsInv
  <2>4. CASE v # u
    <3>1. b \notin OwnedBy(v)
      BY <2>4, <1>3, AccountsAssumption DEF OwnedBy
    <3>2. LiveKeys(OwnedBy(v))' = LiveKeys(OwnedBy(v))
      BY <3>1, <1>4, <1>11 DEF LiveKeys
    <3>3. /\ Cardinality(Inserting(v, m)') <= Cardinality(Inserting(v, m))
          /\ Cardinality(Inserting(v, m)') \in Nat /\ Cardinality(Inserting(v, m)) \in Nat
      BY <2>1, <2>2, NoFewer, AccountsFinite DEF AccountsInv
    <3> QED BY <3>2, <3>3, <2>2, AccountsFinite DEF AccountsInv
  <2> QED BY <2>3, <2>4
<1> QED BY <1>5, <1>6, <1>8, <1>9, <1>13 DEF AccountsInv

\* The one step for which the bound has to be known of every limit above the plan's.
LEMMA KeyIsRevoked ==
  ASSUME AccountsInv, NEW u \in Users, NEW k \in McpKeys, RevokeKey(u, k)
  PROVE  AccountsInv'
<1>1. /\ UNCHANGED <<user, session, exists, owner, acall>> /\ key[k].of \in OwnedBy(u)
      /\ key' = [key EXCEPT ![k].live = FALSE]
  BY DEF RevokeKey
<1>2. /\ key' \in [McpKeys -> [of : Businesses \cup {NoOne}, live : BOOLEAN]]
      /\ ~key'[k].live /\ key'[k].of = key[k].of
      /\ \A l \in McpKeys : l # k => key'[l] = key[l]
  BY <1>1 DEF AccountsInv, AccountsTypes
<1>3. AccountsTypes'
  <2>1. {l \in McpKeys : key'[l].live} \subseteq {l \in McpKeys : key[l].live}
    BY <1>2
  <2>2. IsFiniteSet({l \in McpKeys : key'[l].live})
    BY <2>1, NoFewer DEF AccountsInv, AccountsTypes
  <2> QED BY <1>1, <1>2, <2>2 DEF AccountsInv, AccountsTypes
<1>4. OwnersExist'
  BY <1>1, <1>2 DEF AccountsInv, OwnersExist
<1>5. \A v : OwnedBy(v)' = OwnedBy(v) /\ Creating(v)' = Creating(v) /\ Listed(v)' = Listed(v)
  BY <1>1 DEF OwnedBy, Creating, Listed
<1>6. ListsStand' /\ BusinessesAreBounded'
  BY <1>1, <1>5 DEF AccountsInv, ListsStand, BusinessesAreBounded
<1> DEFINE Still(bs) == {l \in McpKeys : key'[l].live /\ key'[l].of \in bs}
<1>7. /\ \A v : LiveKeys(OwnedBy(v))' = Still(OwnedBy(v))
      /\ \A d : Counted(d)' = Cardinality(Still(acall[d].mine))
  BY <1>1, <1>5 DEF LiveKeys, Counted
<1>8. ASSUME NEW bs PROVE LiveKeys(bs) \subseteq Still(bs) \cup {k} /\ Still(bs) \subseteq LiveKeys(bs)
  BY <1>2 DEF LiveKeys
<1>9. ASSUME NEW bs, key[k].of \notin bs \/ ~key[k].live PROVE LiveKeys(bs) = Still(bs)
  BY <1>2, <1>9 DEF LiveKeys
<1>10. ASSUME NEW bs PROVE IsFiniteSet(Still(bs)) /\ Cardinality(Still(bs)) \in Nat
  BY <1>8, NoFewer, AccountsFinite DEF AccountsInv
<1> HIDE DEF Still
<1>11. KeysAreBounded'
  <2> SUFFICES ASSUME NEW v \in Users, user[v] # "deleted", NEW m \in Nat, m >= KeyLimit
               PROVE  Cardinality(Still(OwnedBy(v))) + Cardinality(Inserting(v, m)')
                        < m + Cardinality(AccountCalls)
    BY <1>1, <1>7 DEF KeysAreBounded
  <2>1. CASE v = u /\ key[k].live
    <3>1. \A d \in AccountCalls : Counted(d)' < m => Counted(d) < m + 1
      <4> TAKE d \in AccountCalls
      <4>1. Cardinality(LiveKeys(acall[d].mine)) <= Cardinality(Still(acall[d].mine)) + 1
            /\ Cardinality(LiveKeys(acall[d].mine)) \in Nat
        BY <1>8, <1>10, OneMore
      <4> QED BY <4>1, <1>7, <1>10 DEF Counted
    <3>2. Inserting(v, m)' \subseteq Inserting(v, m + 1) /\ Inserting(v, m + 1) \subseteq AccountCalls
      BY <3>1, <1>1, <1>5 DEF Inserting, Listed
    <3>3. /\ Cardinality(Inserting(v, m)') <= Cardinality(Inserting(v, m + 1))
          /\ Cardinality(Inserting(v, m)') \in Nat /\ Cardinality(Inserting(v, m + 1)) \in Nat
      BY <3>2, NoFewer, AccountsFinite DEF AccountsInv
    <3>4. k \in LiveKeys(OwnedBy(v)) /\ Still(OwnedBy(v)) \subseteq LiveKeys(OwnedBy(v)) \ {k}
      BY <2>1, <1>1, <1>2 DEF Still, LiveKeys
    <3>5. /\ Cardinality(Still(OwnedBy(v))) + 1 <= Cardinality(LiveKeys(OwnedBy(v)))
          /\ Cardinality(Still(OwnedBy(v))) \in Nat /\ Cardinality(LiveKeys(OwnedBy(v))) \in Nat
      BY <3>4, OneFewer, AccountsFinite DEF AccountsInv
    <3>6. m + 1 \in Nat /\ m + 1 >= KeyLimit
      BY <2>1, AccountsAssumption
    <3>7. Cardinality(LiveKeys(OwnedBy(v))) + Cardinality(Inserting(v, m + 1))
            < m + 1 + Cardinality(AccountCalls)
      BY <3>6 DEF AccountsInv, KeysAreBounded
    <3> QED BY <3>3, <3>5, <3>7, AccountsFinite DEF AccountsInv
  <2>2. CASE ~(v = u /\ key[k].live)
    <3>1. key[k].of \notin OwnedBy(v) \/ ~key[k].live
      BY <2>2, <1>1 DEF OwnedBy
    <3>2. Still(OwnedBy(v)) = LiveKeys(OwnedBy(v))
      BY <3>1, <1>9
    <3>3. \A d \in Listed(v) : acall[d].mine \subseteq OwnedBy(v)
      BY DEF AccountsInv, ListsStand
    <3>4. \A d \in Listed(v) : Counted(d)' = Counted(d)
      BY <3>1, <3>3, <1>7, <1>9 DEF Counted
    <3>5. Inserting(v, m)' = Inserting(v, m)
      BY <3>4, <1>1, <1>5 DEF Inserting
    <3> QED BY <3>2, <3>5 DEF AccountsInv, KeysAreBounded
  <2> QED BY <2>1, <2>2
<1> QED BY <1>3, <1>4, <1>6, <1>11 DEF AccountsInv

LEMMA AccountCallsAdvance ==
  ASSUME AccountsInv, NEW c \in AccountCalls
  PROVE  /\ \A u \in Users : Register(c, u) => AccountsInv'
         /\ \A u \in Users, b \in Businesses : GenerateKey(c, u, b) => AccountsInv'
         /\ CountKeys(c) => AccountsInv'
         /\ AccountCrash(c) => AccountsInv'
         /\ \A b \in Businesses : InsertBusiness(c, b) /\ user[acall[c].user] = "deleted" => AccountsInv'
<1>1. ASSUME UNCHANGED <<user, session, exists, owner, key>>, AccountsTypes',
             \A d \in AccountCalls : d # c => acall'[d] = acall[d],
             \/ acall'[c].at = "idle"
             \/ acall'[c].at = "register" /\ acall'[c].user \in Users
             \/ /\ acall'[c].at = "businesses" /\ acall'[c].user \in Users
                /\ acall'[c].on \in OwnedBy(acall'[c].user)
             \/ /\ acall[c].at = "count" /\ acall'[c].at = "key" /\ acall'[c].user = acall[c].user
                /\ acall'[c].on = acall[c].on /\ Counted(c) < KeyLimit
      PROVE  AccountsInv'
  <2>1. OwnersExist'
    BY <1>1 DEF AccountsInv, OwnersExist, OwnedBy
  <2>2. \A u : OwnedBy(u)' = OwnedBy(u)
    BY <1>1 DEF OwnedBy
  <2>3. \A d \in AccountCalls :
           \/ acall'[d] = acall[d]
           \/ acall'[d].at \in {"idle", "register", "businesses"}
           \/ /\ acall[d].at = "count" /\ acall'[d].at = "key" /\ acall'[d].user = acall[d].user
              /\ Counted(d) < KeyLimit
    BY <1>1
  <2> QED BY <1>1, <2>1, <2>2, <2>3, NothingIsAdded
<1>2. ASSUME UNCHANGED <<user, session, exists, owner, key>>, acall' \in [AccountCalls -> AccountCalled]
      PROVE  AccountsTypes'
  BY <1>2 DEF AccountsInv, AccountsTypes, AccountCalled
<1> AccountsTypes /\ {} \in SUBSET Businesses /\ {"register", "businesses", "key"} \subseteq AccountPlaces
  BY DEF AccountsInv, AccountPlaces
<1>3. ASSUME NEW u \in Users, Register(c, u) PROVE AccountsInv'
  <2>1. Next1(c, "register", u, NoOne, {}) /\ UNCHANGED <<user, session, exists, owner, key>>
    BY <1>3 DEF Register
  <2>2. /\ acall' \in [AccountCalls -> AccountCalled]
        /\ acall'[c] = [at |-> "register", user |-> u, on |-> NoOne, mine |-> {}]
        /\ \A d \in AccountCalls : d # c => acall'[d] = acall[d]
    BY <2>1, AccountCallMoves
  <2> QED BY <2>1, <2>2, <1>1, <1>2
<1>4. ASSUME NEW u \in Users, NEW b \in Businesses, GenerateKey(c, u, b) PROVE AccountsInv'
  <2>1. /\ Next1(c, "businesses", u, b, {}) /\ UNCHANGED <<user, session, exists, owner, key>>
        /\ b \in OwnedBy(u)
    BY <1>4 DEF GenerateKey
  <2>2. /\ acall' \in [AccountCalls -> AccountCalled]
        /\ acall'[c] = [at |-> "businesses", user |-> u, on |-> b, mine |-> {}]
        /\ \A d \in AccountCalls : d # c => acall'[d] = acall[d]
    BY <2>1, AccountCallMoves
  <2> QED BY <2>1, <2>2, <1>1, <1>2
<1>5. ASSUME Return(c), UNCHANGED <<user, session, exists, owner, key>> PROVE AccountsInv'
  BY <1>5, <1>1, <1>2, AccountCallReturns DEF AccountsInv
<1>6. ASSUME CountKeys(c) PROVE AccountsInv'
  <2>1. CASE ~MayCreate(Cardinality(LiveKeys(acall[c].mine)), KeyLimit)
    BY <2>1, <1>6, <1>5 DEF CountKeys
  <2>2. CASE MayCreate(Cardinality(LiveKeys(acall[c].mine)), KeyLimit)
    <3>1. /\ Next1(c, "key", acall[c].user, acall[c].on, {}) /\ acall[c].at = "count"
          /\ UNCHANGED <<user, session, exists, owner, key>>
      BY <1>6, <2>2 DEF CountKeys
    <3>2. acall[c].user \in Users \cup {NoOne} /\ acall[c].on \in Businesses \cup {NoOne}
      BY DEF AccountsInv, AccountsTypes
    <3>3. /\ acall' \in [AccountCalls -> AccountCalled]
          /\ acall'[c] = [at |-> "key", user |-> acall[c].user, on |-> acall[c].on, mine |-> {}]
          /\ \A d \in AccountCalls : d # c => acall'[d] = acall[d]
      BY <3>1, <3>2, AccountCallMoves
    <3>4. Counted(c) < KeyLimit
      BY <2>2, AccountsFinite, AccountsAssumption DEF MayCreate, Counted, AccountsInv
    <3> QED BY <3>1, <3>3, <3>4, <1>1, <1>2
  <2> QED BY <2>1, <2>2
<1>7. ASSUME AccountCrash(c) PROVE AccountsInv'
  BY <1>7, <1>5 DEF AccountCrash
<1>8. ASSUME NEW b \in Businesses, InsertBusiness(c, b), user[acall[c].user] = "deleted" PROVE AccountsInv'
  BY <1>8, <1>5 DEF InsertBusiness
<1> QED BY <1>3, <1>4, <1>6, <1>7, <1>8

LEMMA UsersComeAndGo ==
  ASSUME AccountsInv
  PROVE  /\ \A c \in AccountCalls : InsertUser(c) => AccountsInv'
         /\ \A u \in Users : Login(u) => AccountsInv'
         /\ \A u \in Users, status \in {"active", "disabled", "deleted"} : AdminUser(u, status) => AccountsInv'
         /\ \A b \in Businesses : AdminCreateBusiness(b) => AccountsInv'
<1>1. ASSUME NEW c \in AccountCalls, InsertUser(c) PROVE AccountsInv'
  <2>1. /\ UNCHANGED <<exists, owner, key>> /\ Return(c) /\ acall[c].user \in Users
        /\ \/ UNCHANGED <<user, session>>
           \/ /\ user[acall[c].user] = "none" /\ user' = [user EXCEPT ![acall[c].user] = "active"]
              /\ session' = session \cup {acall[c].user}
    BY <1>1 DEF InsertUser, AccountsInv, OwnersExist
  <2>2. /\ acall' \in [AccountCalls -> AccountCalled] /\ acall'[c].at = "idle"
        /\ \A d \in AccountCalls : d # c => acall'[d] = acall[d]
    BY <2>1, AccountCallReturns DEF AccountsInv
  <2>3. /\ user' \in [Users -> {"none", "active", "disabled", "deleted"}] /\ session' \subseteq Users
        /\ \A u \in Users : user'[u] = "deleted" <=> user[u] = "deleted"
    BY <2>1 DEF AccountsInv, AccountsTypes
  <2>4. AccountsTypes'
    BY <2>1, <2>2, <2>3 DEF AccountsInv, AccountsTypes, AccountCalled
  <2>5. OwnersExist'
    BY <2>1, <2>2, <2>3 DEF AccountsInv, AccountsTypes, OwnersExist
  <2>6. \A u : OwnedBy(u)' = OwnedBy(u)
    BY <2>1 DEF OwnedBy
  <2> QED BY <2>1, <2>2, <2>3, <2>4, <2>5, <2>6, NothingIsAdded
<1>2. ASSUME NEW u \in Users, Login(u) PROVE AccountsInv'
  <2>1. UNCHANGED <<user, exists, owner, key, acall>> /\ session' \subseteq Users
    BY <1>2 DEF Login, AccountsInv, AccountsTypes
  <2>2. AccountsTypes' /\ OwnersExist'
    BY <2>1 DEF AccountsInv, AccountsTypes, OwnersExist
  <2>3. \A v : OwnedBy(v)' = OwnedBy(v)
    BY <2>1 DEF OwnedBy
  <2> QED BY <2>1, <2>2, <2>3, NothingIsAdded
<1>3. ASSUME NEW u \in Users, NEW status \in {"active", "disabled", "deleted"}, AdminUser(u, status)
      PROVE  AccountsInv'
  <2>1. /\ UNCHANGED <<session, exists, key, acall>> /\ user[u] # "deleted"
        /\ user' = [user EXCEPT ![u] = status]
        /\ owner' = [b \in Businesses |-> IF owner[b] = u /\ status = "deleted" THEN NoOne ELSE owner[b]]
    BY <1>3 DEF AdminUser
  <2>2. AccountsTypes'
    BY <2>1 DEF AccountsInv, AccountsTypes
  <2>3. OwnersExist'
    BY <2>1 DEF AccountsInv, AccountsTypes, OwnersExist
  <2>4. \A v \in Users : OwnedBy(v)' \subseteq OwnedBy(v)
    BY <2>1, AccountsAssumption DEF AccountsInv, AccountsTypes, OwnedBy
  <2>5. ASSUME NEW v \in Users, user'[v] # "deleted"
        PROVE  user[v] # "deleted" /\ OwnedBy(v)' = OwnedBy(v)
    <3>1. user[v] # "deleted" /\ (v = u => status # "deleted")
      BY <2>1, <2>5 DEF AccountsInv, AccountsTypes
    <3>2. \A b \in Businesses : owner'[b] = v <=> owner[b] = v
      BY <3>1, <2>1, AccountsAssumption
    <3> QED BY <3>1, <3>2, <2>1 DEF OwnedBy, AccountsInv, AccountsTypes
  <2> QED BY <2>1, <2>2, <2>3, <2>4, <2>5, NothingIsAdded
<1>4. ASSUME NEW b \in Businesses, AdminCreateBusiness(b) PROVE AccountsInv'
  <2>1. UNCHANGED <<user, session, owner, key, acall>> /\ b \notin exists /\ exists' = exists \cup {b}
    BY <1>4 DEF AdminCreateBusiness
  <2>2. AccountsTypes'
    BY <2>1, FS_AddElement DEF AccountsInv, AccountsTypes
  <2>3. OwnersExist'
    BY <2>1 DEF AccountsInv, OwnersExist
  <2>4. owner[b] = NoOne
    BY <2>1 DEF AccountsInv, AccountsTypes, OwnersExist
  <2>5. \A v \in Users : OwnedBy(v)' = OwnedBy(v)
    BY <2>1, <2>4, AccountsAssumption DEF OwnedBy
  <2> QED BY <2>1, <2>2, <2>3, <2>5, NothingIsAdded
<1> QED BY <1>1, <1>2, <1>3, <1>4

\* and every step keeps it.
LEMMA AccountsInvNext == AccountsInv /\ [AccountsNext]_accountVars => AccountsInv'
<1> SUFFICES ASSUME AccountsInv, [AccountsNext]_accountVars PROVE AccountsInv'
  OBVIOUS
<1>1. CASE UNCHANGED accountVars
  <2>1. UNCHANGED <<user, session, exists, owner, key, acall>>
    BY <1>1 DEF accountVars
  <2>2. AccountsTypes' /\ OwnersExist'
    BY <2>1 DEF AccountsInv, AccountsTypes, OwnersExist
  <2>3. \A v : OwnedBy(v)' = OwnedBy(v)
    BY <2>1 DEF OwnedBy
  <2> QED BY <2>1, <2>2, <2>3, NothingIsAdded
<1>2. ASSUME NEW c \in AccountCalls, NEW b \in Businesses, InsertBusiness(c, b) PROVE AccountsInv'
  BY <1>2, BusinessIsInserted, AccountCallsAdvance
<1>3. ASSUME NEW c \in AccountCalls, ListBusinesses(c) PROVE AccountsInv'
  BY <1>3, BusinessesAreListed
<1>4. ASSUME NEW c \in AccountCalls, NEW k \in McpKeys, InsertKey(c, k) PROVE AccountsInv'
  BY <1>4, KeyIsInserted
<1> QED
  BY <1>1, <1>2, <1>3, <1>4, BusinessIsBegun, KeyIsRevoked, AccountCallsAdvance, UsersComeAndGo DEF AccountsNext

\* (AccountsTypeOK) Whatever users, administrators and overlapping requests do, the
\* rows stay within their types, and a request has listed businesses only.
THEOREM AccountsInOrder == AccountsSpec => []AccountsTypeOK
<1>1. AccountsInv => AccountsTypeOK
  BY DEF AccountsInv, AccountsTypes, AccountsTypeOK
<1> QED BY <1>1, AccountsInvInit, AccountsInvNext, PTL DEF AccountsSpec

\* (OverrunIsBounded) assertCanCreateBusiness and assertCanCreateMcpKey only read and
\* compare; however many requests overlap, and whatever is revoked or deleted between
\* their statements, a plan's limit is overrun by less than their number.
THEOREM LimitsAreOverrunByFew == AccountsSpec => []OverrunIsBounded
<1>1. ASSUME AccountsInv PROVE OverrunIsBounded
  <2> SUFFICES ASSUME NEW u \in Users
               PROVE  /\ Cardinality(OwnedBy(u)) <= BusinessLimit + (Cardinality(AccountCalls) - 1)
                      /\ Cardinality(LiveKeys(OwnedBy(u))) <= KeyLimit + (Cardinality(AccountCalls) - 1)
    BY DEF OverrunIsBounded
  <2>1. /\ Cardinality(OwnedBy(u)) + Cardinality(Creating(u)) < BusinessLimit + Cardinality(AccountCalls)
        /\ Cardinality(OwnedBy(u)) \in Nat /\ Cardinality(Creating(u)) \in Nat
        /\ Cardinality(LiveKeys(OwnedBy(u))) \in Nat /\ Cardinality(AccountCalls) \in Nat \ {0}
    BY <1>1, AccountsFinite DEF AccountsInv, BusinessesAreBounded, Creating
  <2>2. CASE user[u] = "deleted"
    <3>1. OwnedBy(u) = {}
      BY <1>1, <2>2, AccountsAssumption DEF AccountsInv, AccountsTypes, OwnersExist, OwnedBy
    <3>2. Cardinality(LiveKeys(OwnedBy(u))) = 0
      BY <3>1, FS_EmptySet DEF LiveKeys
    <3> QED BY <2>1, <3>2, AccountsAssumption
  <2>3. CASE user[u] # "deleted"
    <3>1. Cardinality(LiveKeys(OwnedBy(u))) + Cardinality(Inserting(u, KeyLimit))
            < KeyLimit + Cardinality(AccountCalls)
      BY <1>1, <2>3, AccountsAssumption DEF AccountsInv, KeysAreBounded
    <3>2. Cardinality(Inserting(u, KeyLimit)) \in Nat
      BY <1>1, AccountsFinite DEF AccountsInv, Inserting, Listed
    <3> QED BY <2>1, <3>1, <3>2, AccountsAssumption
  <2> QED BY <2>2, <2>3
<1> QED BY <1>1, AccountsInvInit, AccountsInvNext, PTL DEF AccountsSpec

(* Subdomains *)

Claimable == {Slug[raw] : raw \in {r \in RawNames : Valid(Slug[r])}}
RowStatuses == {"ACTIVE", "SUSPENDED"}
SlugRows == [slug : Claimable \cup {NoSlug}, status : RowStatuses]
SlugRequests == [at : {"idle", "find", "save"}, op : {"none", "claim", "status"},
                 on : Tenants \cup {NoSlugCall.on}, value : Claimable \cup {NoSlug} \cup RowStatuses,
                 read : SlugRows]
SlugsTypes ==
  /\ indexed \in BOOLEAN /\ unindexed \in BOOLEAN
  /\ row \in [Tenants -> SlugRows] /\ told \in [Tenants -> Claimable \cup {NoSlug}]
  /\ undone \subseteq Tenants /\ rowSaves \in Nat /\ rowSaves <= MaxRowSaves
  /\ scall \in [SlugCalls -> SlugRequests]
\* A request knows what it is going to save, and where.
RequestsAreWhole ==
  \A c \in SlugCalls : scall[c].at # "idle" =>
    /\ scall[c].on \in Tenants
    /\ \/ scall[c].op = "claim" /\ scall[c].value \in Claimable
       \/ scall[c].op = "status" /\ scall[c].value \in RowStatuses
\* The index has kept the rows apart as long as it was there for every save, and
\* an owner has been told what his row holds, unless it was set back.
RowsAreApart ==
  unindexed \/ \A a, b \in Tenants : a # b => row[a].slug = NoSlug \/ row[a].slug # row[b].slug
ToldIsSaved == \A b \in Tenants \ undone : told[b] = row[b].slug
SlugsInv == SlugsTypes /\ RequestsAreWhole /\ RowsAreApart /\ ToldIsSaved

\* A request put together from its fields is one of the kind.
LEMMA SlugRequestIsTyped ==
  ASSUME NEW at \in {"idle", "find", "save"}, NEW op \in {"none", "claim", "status"},
         NEW on \in Tenants \cup {NoSlugCall.on}, NEW value \in Claimable \cup {NoSlug} \cup RowStatuses,
         NEW read \in SlugRows
  PROVE  [at |-> at, op |-> op, on |-> on, value |-> value, read |-> read] \in SlugRequests
BY DEF SlugRequests

LEMMA NoSlugCallIsTyped == NoSlugCall \in SlugRequests /\ NoSlugCall.at = "idle"
<1> DEFINE on == CHOOSE b \in Tenants : TRUE
           read == [slug |-> NoSlug, status |-> "ACTIVE"]
<1>1. read \in SlugRows
  BY DEF SlugRows, RowStatuses
<1>2. NoSlugCall = [at |-> "idle", op |-> "none", on |-> on, value |-> NoSlug, read |-> read]
  BY DEF NoSlugCall
<1> HIDE DEF on, read
<1>3. NoSlugCall.on = on /\ NoSlugCall.at = "idle"
  BY <1>2
<1> QED BY <1>1, <1>2, <1>3, SlugRequestIsTyped

\* The invariant of the subdomains: it holds at first,
LEMMA SlugsInvInit == SlugsInit => SlugsInv
<1> SUFFICES ASSUME SlugsInit PROVE SlugsInv
  OBVIOUS
<1> DEFINE new == [slug |-> NoSlug, status |-> "ACTIVE"]
<1>1. SlugsTypes
  <2>1. new \in SlugRows
    BY DEF SlugRows, RowStatuses
  <2>2. row = [b \in Tenants |-> new]
    BY DEF SlugsInit
  <2> HIDE DEF new
  <2>3. row \in [Tenants -> SlugRows]
    BY <2>1, <2>2
  <2>4. scall \in [SlugCalls -> SlugRequests]
    BY NoSlugCallIsTyped DEF SlugsInit
  <2>5. told \in [Tenants -> Claimable \cup {NoSlug}]
    BY DEF SlugsInit
  <2>6. rowSaves \in Nat /\ rowSaves <= MaxRowSaves
    BY SubdomainsAssumption DEF SlugsInit
  <2> QED BY <2>3, <2>4, <2>5, <2>6 DEF SlugsInit, SlugsTypes
<1>2. RequestsAreWhole
  BY NoSlugCallIsTyped DEF SlugsInit, RequestsAreWhole
<1>3. RowsAreApart /\ ToldIsSaved
  BY DEF SlugsInit, RowsAreApart, ToldIsSaved
<1> QED BY <1>1, <1>2, <1>3 DEF SlugsInv

\* A step that only changes what a request is going to do.
LEMMA SlugCallMoves ==
  ASSUME SlugsInv, UNCHANGED <<indexed, row, told, undone, unindexed, rowSaves>>,
         NEW c \in SlugCalls, NEW call \in SlugRequests, scall' = [scall EXCEPT ![c] = call],
         call.on \in Tenants,
         \/ call.op = "claim" /\ call.value \in Claimable
         \/ call.op = "status" /\ call.value \in RowStatuses
  PROVE  SlugsInv'
<1>1. SlugsTypes'
  BY DEF SlugsInv, SlugsTypes
<1>2. RequestsAreWhole'
  BY DEF SlugsInv, SlugsTypes, RequestsAreWhole
<1>3. RowsAreApart' /\ ToldIsSaved'
  BY DEF SlugsInv, RowsAreApart, ToldIsSaved
<1> QED BY <1>1, <1>2, <1>3 DEF SlugsInv

\* The save of a row, which the index lets through or refuses.
LEMMA RowIsSaved ==
  ASSUME SlugsInv, NEW c \in SlugCalls, SaveRowOf(c),
         NEW call, call = scall[c], NEW b, b = call.on
  PROVE  SlugsInv'
<1> DEFINE claim == call.op = "claim"
           after == IF claim THEN [call.read EXCEPT !.slug = call.value]
                    ELSE [call.read EXCEPT !.status = call.value]
<1>1. /\ call.at = "save" /\ rowSaves < MaxRowSaves /\ rowSaves' = rowSaves + 1
      /\ scall' = [scall EXCEPT ![c] = NoSlugCall] /\ UNCHANGED indexed
      /\ IF IndexRefuses(after.slug, b) THEN UNCHANGED <<row, told, undone, unindexed>>
         ELSE /\ row' = [row EXCEPT ![b] = after]
              /\ told' = IF claim THEN [told EXCEPT ![b] = after.slug] ELSE told
              /\ undone' = IF claim THEN undone \ {b}
                           ELSE IF after.slug # row[b].slug THEN undone \cup {b} ELSE undone
              /\ unindexed' = (unindexed \/ ~indexed)
  BY DEF SaveRowOf
<1>2. /\ call \in SlugRequests /\ b \in Tenants
      /\ (call.op = "claim" /\ call.value \in Claimable) \/ (call.op = "status" /\ call.value \in RowStatuses)
  BY <1>1 DEF SlugsInv, SlugsTypes, RequestsAreWhole
<1>3. after \in SlugRows /\ after.slug \in Claimable \cup {NoSlug}
  BY <1>2 DEF SlugRequests, SlugRows
<1>4. rowSaves' \in Nat /\ rowSaves' <= MaxRowSaves /\ scall' \in [SlugCalls -> SlugRequests]
  BY <1>1, NoSlugCallIsTyped, SubdomainsAssumption DEF SlugsInv, SlugsTypes
<1>5. RequestsAreWhole'
  BY <1>1, NoSlugCallIsTyped DEF SlugsInv, SlugsTypes, RequestsAreWhole
<1> HIDE DEF after
<1>6. CASE IndexRefuses(after.slug, b)
  <2>1. UNCHANGED <<indexed, row, told, undone, unindexed>>
    BY <1>1, <1>6
  <2>2. SlugsTypes'
    BY <2>1, <1>4 DEF SlugsInv, SlugsTypes
  <2>3. RowsAreApart' /\ ToldIsSaved'
    BY <2>1 DEF SlugsInv, RowsAreApart, ToldIsSaved
  <2> QED BY <2>2, <2>3, <1>5 DEF SlugsInv
<1>7. CASE ~IndexRefuses(after.slug, b)
  <2>1. /\ row' \in [Tenants -> SlugRows] /\ row'[b] = after
        /\ \A a \in Tenants : a # b => row'[a] = row[a]
        /\ told' \in [Tenants -> Claimable \cup {NoSlug}]
        /\ told'[b] = (IF claim THEN after.slug ELSE told[b])
        /\ \A a \in Tenants : a # b => told'[a] = told[a]
        /\ unindexed' = (unindexed \/ ~indexed)
    BY <1>1, <1>2, <1>3, <1>7 DEF SlugsInv, SlugsTypes
  <2>2. /\ undone' \subseteq Tenants
        /\ \A a \in Tenants : a # b => (a \in undone' <=> a \in undone)
        /\ b \notin undone' => claim \/ (b \notin undone /\ after.slug = row[b].slug)
    BY <1>1, <1>2, <1>7 DEF SlugsInv, SlugsTypes
  <2>3. SlugsTypes'
    BY <1>1, <1>4, <2>1, <2>2 DEF SlugsInv, SlugsTypes
  <2>4. RowsAreApart'
    <3>1. ASSUME indexed, after.slug # NoSlug, NEW a \in Tenants, a # b PROVE row[a].slug # after.slug
      BY <1>7, <3>1 DEF IndexRefuses, TakenFor
    <3>2. SUFFICES ASSUME ~unindexed', NEW a1 \in Tenants, NEW a2 \in Tenants, a1 # a2,
                          row'[a1].slug # NoSlug
                   PROVE  row'[a1].slug # row'[a2].slug
      BY DEF RowsAreApart
    <3>3. indexed /\ ~unindexed
      BY <2>1, <3>2 DEF SlugsInv, SlugsTypes
    <3>4. row[a1].slug = NoSlug \/ row[a1].slug # row[a2].slug
      BY <3>2, <3>3 DEF SlugsInv, RowsAreApart
    <3> QED BY <2>1, <3>1, <3>2, <3>3, <3>4
  <2>5. ToldIsSaved'
    BY <1>2, <2>1, <2>2 DEF SlugsInv, ToldIsSaved
  <2> QED BY <1>5, <2>3, <2>4, <2>5 DEF SlugsInv
<1> QED BY <1>6, <1>7

\* and every step keeps it.
LEMMA SlugsInvNext == SlugsInv /\ [SlugsNext]_slugVars => SlugsInv'
<1> SUFFICES ASSUME SlugsInv, [SlugsNext]_slugVars PROVE SlugsInv'
  OBVIOUS
<1>1. CASE UNCHANGED slugVars
  BY <1>1 DEF slugVars, SlugsInv, SlugsTypes, RequestsAreWhole, RowsAreApart, ToldIsSaved
<1>2. CASE EnsureIndex
  BY <1>2 DEF EnsureIndex, SlugsInv, SlugsTypes, RequestsAreWhole, RowsAreApart, ToldIsSaved
<1>3. ASSUME NEW c \in SlugCalls, NEW b \in Tenants, NEW raw \in RawNames, Claim(c, b, raw) PROVE SlugsInv'
  <2> DEFINE call == [at |-> "find", op |-> "claim", on |-> b, value |-> Slug[raw], read |-> row[b]]
  <2>1. Slug[raw] \in Claimable /\ row[b] \in SlugRows
    BY <1>3 DEF Claim, Claimable, SlugsInv, SlugsTypes
  <2>2. call \in SlugRequests
    BY <2>1, SlugRequestIsTyped
  <2>3. /\ UNCHANGED <<indexed, row, told, undone, unindexed, rowSaves>>
        /\ scall' = [scall EXCEPT ![c] = call]
    BY <1>3 DEF Claim
  <2>4. call.on = b /\ call.op = "claim" /\ call.value = Slug[raw]
    OBVIOUS
  <2> HIDE DEF call
  <2> QED BY <2>1, <2>2, <2>3, <2>4, SlugCallMoves
<1>4. ASSUME NEW c \in SlugCalls, NEW b \in Tenants, NEW status \in {"ACTIVE", "SUSPENDED"},
             SetStatus(c, b, status)
      PROVE  SlugsInv'
  <2> DEFINE call == [at |-> "find", op |-> "status", on |-> b, value |-> status, read |-> row[b]]
  <2>1. status \in RowStatuses /\ row[b] \in SlugRows
    BY DEF RowStatuses, SlugsInv, SlugsTypes
  <2>2. call \in SlugRequests
    BY <2>1, SlugRequestIsTyped
  <2>3. /\ UNCHANGED <<indexed, row, told, undone, unindexed, rowSaves>>
        /\ scall' = [scall EXCEPT ![c] = call]
    BY <1>4 DEF SetStatus
  <2>4. call.on = b /\ call.op = "status" /\ call.value = status
    OBVIOUS
  <2> HIDE DEF call
  <2> QED BY <2>1, <2>2, <2>3, <2>4, SlugCallMoves
<1>5. ASSUME NEW c \in SlugCalls, FindRowOf(c) PROVE SlugsInv'
  <2> DEFINE call == [scall[c] EXCEPT !.at = "save", !.read = row[scall[c].on]]
  <2>1. /\ scall[c] \in SlugRequests /\ scall[c].on \in Tenants /\ row[scall[c].on] \in SlugRows
        /\ \/ scall[c].op = "claim" /\ scall[c].value \in Claimable
           \/ scall[c].op = "status" /\ scall[c].value \in RowStatuses
    BY <1>5 DEF FindRowOf, SlugsInv, SlugsTypes, RequestsAreWhole
  <2>2. call \in SlugRequests
    BY <2>1 DEF SlugRequests
  <2>3. /\ UNCHANGED <<indexed, row, told, undone, unindexed, rowSaves>>
        /\ scall' = [scall EXCEPT ![c] = call]
    BY <1>5, <2>1 DEF FindRowOf, SlugsInv, SlugsTypes
  <2>4. call.on = scall[c].on /\ call.op = scall[c].op /\ call.value = scall[c].value
    BY <2>1 DEF SlugRequests
  <2> HIDE DEF call
  <2> QED BY <2>1, <2>2, <2>3, <2>4, SlugCallMoves
<1>6. ASSUME NEW c \in SlugCalls, SaveRowOf(c) PROVE SlugsInv'
  BY <1>6, RowIsSaved
<1> QED BY <1>1, <1>2, <1>3, <1>4, <1>5, <1>6 DEF SlugsNext

\* (SlugsTypeOK) A row holds, and an owner is told, no subdomain or a valid one, with
\* whatever claims and saves of whole rows overlap.
THEOREM SubdomainsAreValid == SlugsSpec => []SlugsTypeOK
<1>1. SlugsInv => SlugsTypeOK
  <2>1. \A slug \in Claimable : Valid(slug)
    BY DEF Claimable
  <2> QED BY <2>1 DEF SlugsInv, SlugsTypes, SlugsTypeOK, SlugRows
<1> QED BY <1>1, SlugsInvInit, SlugsInvNext, PTL DEF SlugsSpec

\* (NoSharedStorefront) claim's own look-up can be overtaken by another claim; with the
\* partial unique index a host still leads to one tenant, and no two owners were told
\* that the same subdomain is theirs.
THEOREM StorefrontsAreNotShared == SlugsSpec => []NoSharedStorefront
<1>1. ASSUME SlugsInv PROVE NoSharedStorefront
  <2> SUFFICES ASSUME ~unindexed
               PROVE  /\ \A raw \in RawNames : Cardinality(Resolved(raw)) <= 1
                      /\ \A a, b \in Tenants \ undone : a # b => told[a] = NoSlug \/ told[a] # told[b]
    BY DEF NoSharedStorefront
  <2>1. \A a, b \in Tenants : a # b => row[a].slug = NoSlug \/ row[a].slug # row[b].slug
    BY <1>1 DEF SlugsInv, RowsAreApart
  <2>2. ASSUME NEW raw \in RawNames PROVE Cardinality(Resolved(raw)) <= 1
    <3>1. Resolved(raw) = {} \/ \E b : Resolved(raw) = {b}
      BY <2>1 DEF Resolved
    <3>2. Cardinality({}) = 0 /\ \A b : Cardinality({b}) = 1
      BY FS_EmptySet, FS_Singleton
    <3> QED BY <3>1, <3>2
  <2>3. \A a, b \in Tenants \ undone : a # b => told[a] = NoSlug \/ told[a] # told[b]
    BY <1>1, <2>1 DEF SlugsInv, ToldIsSaved
  <2> QED BY <2>2, <2>3
<1> QED BY <1>1, SlugsInvInit, SlugsInvNext, PTL DEF SlugsSpec

(* Sites *)

HttpRequests == [at : {"idle", "sent", "found", "answered"}, by : {"nobody", "visitor", "owner", "store", "admin"},
                 sets : {"keep", "on", "off"}, row : Nat, read : BOOLEAN,
                 after : WebsiteStatuses \cup {"none", "edited"}]
Withdrawn == {"UNPUBLISHED", "SUSPENDED"}
SitesTypes ==
  /\ site \in WebsiteStatuses \cup {"none"} /\ output \subseteq Kinds
  /\ config \in Seq(BOOLEAN) /\ http \in [HttpCalls -> HttpRequests]
  /\ lost \in BOOLEAN /\ crossed \in BOOLEAN /\ opened \in BOOLEAN /\ called \in Nat /\ called <= MaxHttp
\* Only administrators withdraw a website or publish it, and then they switch its
\* storefront off or on.
CallsMeanIt ==
  \A h \in HttpCalls :
    /\ http[h].at = "idle" => http[h].by = "nobody"
    /\ http[h].by # "admin" => http[h].after \in {"none", "edited"}
    /\ http[h].by = "admin" =>
         \/ http[h].sets = "on" /\ http[h].after = "PUBLISHED"
         \/ http[h].sets = "off" /\ http[h].after \in Withdrawn
    /\ http[h].row = 0 \/ (http[h].at \in {"found", "answered"} /\ http[h].row \in DOMAIN config)
IsDark == config # << >> /\ \A i \in DOMAIN config : ~config[i]
OneAdminAtATime == \A g, h \in HttpCalls : http[g].by = "admin" /\ http[h].by = "admin" => g = h
\* What an administrator has switched off is dark from the answer of Commerce on,
\* before the row says so, until another switches it on.
OffIsDark ==
  \A h \in HttpCalls :
    http[h].by = "admin" /\ http[h].sets = "off" /\ http[h].at = "answered" => opened \/ IsDark
WithdrawnIsDark == site \in Withdrawn /\ (\A h \in HttpCalls : http[h].by # "admin") => opened \/ IsDark
SitesInv ==
  /\ SitesTypes /\ CallsMeanIt
  /\ lost \/ crossed \/ (Len(config) <= 1 /\ OneAdminAtATime /\ OffIsDark /\ WithdrawnIsDark)

LEMMA NoHttpIsTyped ==
  NoHttp \in HttpRequests /\ NoHttp.at = "idle" /\ NoHttp.by = "nobody" /\ NoHttp.sets = "keep"
  /\ NoHttp.after = "none" /\ NoHttp.row = 0
BY DEF NoHttp, HttpRequests, NewConfig

\* The invariant of the websites: it holds at first,
LEMMA SitesInvInit == SitesInit => SitesInv
<1> SUFFICES ASSUME SitesInit PROVE SitesInv
  OBVIOUS
<1>1. \A h \in HttpCalls : http[h] = NoHttp
  BY DEF SitesInit
<1>2. config = << >> /\ config \in Seq(BOOLEAN) /\ Len(config) <= 1
  BY DEF SitesInit
<1>3. SitesTypes
  <2>1. http \in [HttpCalls -> HttpRequests]
    BY NoHttpIsTyped DEF SitesInit
  <2>2. site \in WebsiteStatuses \cup {"none"} /\ called \in Nat /\ called <= MaxHttp
    BY SitesAssumption DEF SitesInit
  <2> QED BY <1>2, <2>1, <2>2 DEF SitesInit, SitesTypes
<1>4. CallsMeanIt
  BY <1>1, NoHttpIsTyped DEF CallsMeanIt
<1>5. OneAdminAtATime /\ OffIsDark
  BY <1>1, NoHttpIsTyped DEF OneAdminAtATime, OffIsDark
<1>6. WithdrawnIsDark
  BY DEF SitesInit, WithdrawnIsDark, Withdrawn
<1> QED BY <1>2, <1>3, <1>4, <1>5, <1>6 DEF SitesInv

\* A step that does not touch the configuration, nor the calls, and withdraws nothing.
LEMMA RowIsWritten ==
  ASSUME SitesInv, UNCHANGED <<config, http, lost, crossed, opened, called>>, output' \subseteq Kinds,
         site' \in WebsiteStatuses \cup {"none"}, site' \in Withdrawn => site' = site
  PROVE  SitesInv'
<1>1. SitesTypes' /\ CallsMeanIt'
  BY DEF SitesInv, SitesTypes, CallsMeanIt
<1>2. IsDark' = IsDark
  BY DEF IsDark
<1>3. OneAdminAtATime => OneAdminAtATime'
  BY DEF OneAdminAtATime
<1>4. OffIsDark => OffIsDark'
  BY <1>2 DEF OffIsDark
<1>5. WithdrawnIsDark => WithdrawnIsDark'
  BY <1>2 DEF WithdrawnIsDark
<1> QED BY <1>1, <1>3, <1>4, <1>5 DEF SitesInv

\* A call is sent, reads or makes the row, saves it, and is answered or lost.
LEMMA CallBegins ==
  ASSUME SitesInv, NEW h \in HttpCalls, NEW by \in {"visitor", "owner", "store", "admin"},
         NEW sets \in {"keep", "on", "off"}, NEW after \in WebsiteStatuses \cup {"none", "edited"},
         Call(h, by, sets, after), UNCHANGED <<config, lost, opened>>, output' \subseteq Kinds,
         site' \in WebsiteStatuses \cup {"none"}, site' \in Withdrawn => site' = site,
         by # "admin" => after \in {"none", "edited"},
         by = "admin" => \/ sets = "on" /\ after = "PUBLISHED"
                         \/ sets = "off" /\ after \in Withdrawn
  PROVE  SitesInv'
<1> DEFINE call == [NoHttp EXCEPT !.at = "sent", !.by = by, !.sets = sets, !.after = after]
<1>1. call \in HttpRequests
  BY NoHttpIsTyped DEF HttpRequests
<1>2. call.at = "sent" /\ call.by = by /\ call.sets = sets /\ call.after = after /\ call.row = 0
  BY NoHttpIsTyped DEF HttpRequests
<1>3. /\ called < MaxHttp /\ called' = called + 1
      /\ http[h].at = "idle" /\ http' = [http EXCEPT ![h] = call]
      /\ crossed' = (crossed \/ (by = "admin" /\ \E g \in HttpCalls : http[g].by = "admin"))
  BY DEF Call
<1> HIDE DEF call
<1>4. /\ http' \in [HttpCalls -> HttpRequests] /\ http'[h] = call
      /\ \A g \in HttpCalls : g # h => http'[g] = http[g]
  BY <1>1, <1>3 DEF SitesInv, SitesTypes
<1>5. SitesTypes'
  BY <1>3, <1>4, SitesAssumption DEF SitesInv, SitesTypes
<1>6. CallsMeanIt'
  BY <1>2, <1>4 DEF SitesInv, CallsMeanIt
<1>7. IsDark' = IsDark
  BY DEF IsDark
<1>8. OneAdminAtATime => OneAdminAtATime' \/ crossed'
  BY <1>2, <1>3, <1>4 DEF OneAdminAtATime
<1>9. OffIsDark => OffIsDark'
  BY <1>2, <1>4, <1>7 DEF OffIsDark
<1>10. WithdrawnIsDark => WithdrawnIsDark'
  BY <1>2, <1>3, <1>4, <1>7 DEF WithdrawnIsDark, SitesInv, CallsMeanIt
<1> QED BY <1>3, <1>5, <1>6, <1>8, <1>9, <1>10 DEF SitesInv

LEMMA ConfigIsFound ==
  ASSUME SitesInv, NEW h \in HttpCalls, FindConfig(h)
  PROVE  SitesInv'
<1>1. UNCHANGED <<site, output, config, lost, crossed, opened, called>> /\ http[h].at = "sent" /\ http[h].row = 0
      /\ http[h] \in HttpRequests
  BY DEF FindConfig, SitesInv, SitesTypes, CallsMeanIt
<1>2. \A i \in DOMAIN config : i \in Nat /\ config[i] \in BOOLEAN
  BY DEF SitesInv, SitesTypes
<1>3. /\ http' \in [HttpCalls -> HttpRequests]
      /\ http'[h].by = http[h].by /\ http'[h].sets = http[h].sets /\ http'[h].after = http[h].after
      /\ http'[h].at \in {"found", "answered"} /\ (http'[h].at = "answered" => http[h].by = "visitor")
      /\ http'[h].row = 0 \/ http'[h].row \in DOMAIN config
      /\ \A g \in HttpCalls : g # h => http'[g] = http[g]
  <2>1. CASE config = << >> /\ http' = [http EXCEPT ![h].at = "found"]
    BY <2>1, <1>1 DEF SitesInv, SitesTypes, HttpRequests
  <2>2. ASSUME NEW i \in DOMAIN config,
               http' = [http EXCEPT ![h].at = IF http[h].by = "visitor" THEN "answered" ELSE "found",
                                    ![h].row = i, ![h].read = config[i]]
        PROVE  <1>3!:
    BY <2>2, <1>1, <1>2 DEF SitesInv, SitesTypes, HttpRequests
  <2> QED BY <2>1, <2>2 DEF FindConfig
<1>4. SitesTypes' /\ CallsMeanIt'
  BY <1>1, <1>3 DEF SitesInv, SitesTypes, CallsMeanIt
<1>5. IsDark' = IsDark
  BY <1>1 DEF IsDark
<1>6. OneAdminAtATime => OneAdminAtATime'
  BY <1>3 DEF OneAdminAtATime
<1>7. OffIsDark => OffIsDark'
  BY <1>1, <1>3, <1>5 DEF OffIsDark
<1>8. WithdrawnIsDark => WithdrawnIsDark'
  BY <1>1, <1>3, <1>5 DEF WithdrawnIsDark
<1> QED BY <1>1, <1>4, <1>6, <1>7, <1>8 DEF SitesInv

LEMMA ConfigIsSaved ==
  ASSUME SitesInv, NEW h \in HttpCalls, SaveConfig(h),
         NEW i, i = http[h].row, NEW read, read = http[h].read, NEW sets, sets = http[h].sets
  PROVE  SitesInv'
<1> DEFINE value == IF sets = "keep" THEN read ELSE sets = "on"
<1>1. /\ UNCHANGED <<site, output, lost, called>> /\ http[h].at = "found"
      /\ config' = IF i = 0 THEN Append(config, value) ELSE [config EXCEPT ![i] = value]
      /\ crossed' = (crossed \/ IF i = 0 THEN config # << >> ELSE config[i] # read)
      /\ opened' = IF http[h].by = "admin" THEN opened /\ sets # "off" ELSE opened \/ sets = "on"
      /\ http' = [http EXCEPT ![h].at = "answered"]
  BY DEF SaveConfig, WriteConfig
<1>2. i = 0 \/ i \in DOMAIN config
  BY DEF SitesInv, CallsMeanIt
<1>3. value \in BOOLEAN
  BY DEF SitesInv, SitesTypes, HttpRequests
<1> HIDE DEF value
<1>4. config \in Seq(BOOLEAN) /\ DOMAIN config = 1..Len(config) /\ Len(config) \in Nat
  BY LenProperties DEF SitesInv, SitesTypes
<1>5. i = 0 => /\ config' \in Seq(BOOLEAN) /\ Len(config') = Len(config) + 1 /\ config' # << >>
               /\ config'[Len(config) + 1] = value
  BY <1>1, <1>3, <1>4, AppendProperties
<1>6. i # 0 => /\ config' \in Seq(BOOLEAN) /\ Len(config') = Len(config)
               /\ \A j \in 1..Len(config) : config'[j] = IF j = i THEN value ELSE config[j]
  BY <1>1, <1>2, <1>3, <1>4, ExceptSeq
<1>7. config' \in Seq(BOOLEAN) /\ DOMAIN config' = 1..Len(config') /\ Len(config') \in Nat
  BY <1>5, <1>6, LenProperties
<1>8. Len(config') = (IF i = 0 THEN Len(config) + 1 ELSE Len(config)) /\ (i # 0 => i \in 1..Len(config))
  BY <1>2, <1>4, <1>5, <1>6
<1>9. DOMAIN config \subseteq DOMAIN config'
  BY <1>4, <1>7, <1>8
<1>10. /\ http' \in [HttpCalls -> HttpRequests]
       /\ http'[h].by = http[h].by /\ http'[h].sets = http[h].sets /\ http'[h].after = http[h].after
       /\ http'[h].at = "answered" /\ http'[h].row = http[h].row
       /\ \A g \in HttpCalls : g # h => http'[g] = http[g]
  BY <1>1 DEF SitesInv, SitesTypes, HttpRequests
<1>11. crossed' \in BOOLEAN /\ opened' \in BOOLEAN
  BY <1>1 DEF SitesInv, SitesTypes
<1>12. SitesTypes' /\ CallsMeanIt'
  BY <1>1, <1>10, <1>11, <1>7, <1>9 DEF SitesInv, SitesTypes, CallsMeanIt
<1>13. SUFFICES ASSUME ~lost, ~crossed'
               PROVE  (Len(config) <= 1 /\ OneAdminAtATime /\ OffIsDark /\ WithdrawnIsDark)'
  BY <1>1, <1>12 DEF SitesInv
<1>14. /\ Len(config) <= 1 /\ OneAdminAtATime /\ OffIsDark /\ WithdrawnIsDark
       /\ i = 0 => config = << >>
       /\ i # 0 => i \in DOMAIN config /\ config[i] = read
  BY <1>1, <1>2, <1>13 DEF SitesInv
<1>15. Len(config') <= 1
  <2>1. i = 0 => Len(config) = 0
    BY <1>14, EmptySeq
  <2> QED BY <1>4, <1>14, <1>8, <2>1
<1>16. IsDark /\ sets = "keep" => IsDark'
  <2>1. SUFFICES ASSUME IsDark, sets = "keep" PROVE IsDark'
    OBVIOUS
  <2>2. i # 0 /\ Len(config') = Len(config) /\ value = config[i]
    BY <2>1, <1>14, <1>8 DEF IsDark, value
  <2>3. \A j \in 1..Len(config) : config'[j] = config[j]
    BY <2>2, <1>6
  <2>4. config' # << >>
    BY <2>1, <2>2, <1>4, EmptySeq DEF IsDark
  <2> QED BY <2>1, <2>2, <2>3, <2>4, <1>4, <1>7 DEF IsDark
<1>17. sets = "off" => IsDark'
  <2>1. SUFFICES ASSUME sets = "off" PROVE IsDark'
    OBVIOUS
  <2>2. ~value
    BY <2>1 DEF value
  <2>3. CASE i = 0
    <3>1. Len(config) = 0
      BY <2>3, <1>14, EmptySeq
    <3> QED BY <2>2, <2>3, <3>1, <1>5, <1>7 DEF IsDark
  <2>4. CASE i # 0
    <3>1. i = 1 /\ Len(config) = 1
      BY <2>4, <1>4, <1>14, <1>8
    <3>2. Len(config') = 1 /\ config'[1] = value
      BY <2>4, <3>1, <1>6
    <3>3. config' # << >>
      BY <3>2, EmptySeq
    <3> QED BY <2>2, <3>2, <3>3, <1>7 DEF IsDark
  <2> QED BY <2>3, <2>4
<1>18. IsDark' \in BOOLEAN
  BY DEF IsDark
<1>19. OneAdminAtATime'
  BY <1>10, <1>14 DEF OneAdminAtATime
<1>20. sets \in {"keep", "on", "off"}
  BY DEF SitesInv, SitesTypes, HttpRequests
<1>21. http[h].by # "admin" /\ (opened \/ IsDark) => opened' \/ IsDark'
  BY <1>1, <1>16, <1>17, <1>20
<1>22. OffIsDark'
  BY <1>10, <1>14, <1>17, <1>21 DEF OffIsDark, OneAdminAtATime
<1>23. WithdrawnIsDark'
  BY <1>1, <1>10, <1>14, <1>21 DEF WithdrawnIsDark
<1> QED BY <1>15, <1>19, <1>22, <1>23

LEMMA CallIsLost ==
  ASSUME SitesInv, NEW h \in HttpCalls, CallLost(h)
  PROVE  SitesInv'
<1>1. /\ UNCHANGED <<site, output, config, crossed, opened, called>> /\ lost' = TRUE
      /\ http[h] \in HttpRequests /\ http[h].at \in {"sent", "found"}
      /\ http' = [http EXCEPT ![h] = IF http[h].by = "admin" THEN [http[h] EXCEPT !.at = "answered"] ELSE NoHttp]
  BY DEF CallLost, SitesInv, SitesTypes
<1>2. /\ http' \in [HttpCalls -> HttpRequests]
      /\ \/ http'[h] = NoHttp
         \/ /\ http'[h].by = http[h].by /\ http'[h].sets = http[h].sets /\ http'[h].after = http[h].after
            /\ http'[h].at = "answered" /\ http'[h].row = http[h].row
      /\ \A g \in HttpCalls : g # h => http'[g] = http[g]
  BY <1>1, NoHttpIsTyped DEF SitesInv, SitesTypes, HttpRequests
<1>3. SitesTypes' /\ CallsMeanIt'
  BY <1>1, <1>2, NoHttpIsTyped DEF SitesInv, SitesTypes, CallsMeanIt
<1> QED BY <1>1, <1>3 DEF SitesInv

LEMMA SenderGoesOn ==
  ASSUME SitesInv, NEW h \in HttpCalls, Answered(h)
  PROVE  SitesInv'
<1>1. /\ UNCHANGED <<output, config, lost, crossed, opened, called>>
      /\ http[h] \in HttpRequests /\ http[h].at = "answered" /\ http' = [http EXCEPT ![h] = NoHttp]
      /\ site' = IF http[h].after = "none" THEN site
                 ELSE IF http[h].after = "edited" THEN (IF site = "none" THEN "DRAFT" ELSE site)
                 ELSE IF site = "none" THEN site ELSE http[h].after
  BY DEF Answered, SitesInv, SitesTypes
<1>2. /\ http' \in [HttpCalls -> HttpRequests] /\ http'[h] = NoHttp
      /\ \A g \in HttpCalls : g # h => http'[g] = http[g]
  BY <1>1, NoHttpIsTyped DEF SitesInv, SitesTypes
<1>3. site' \in WebsiteStatuses \cup {"none"}
  BY <1>1 DEF SitesInv, SitesTypes, HttpRequests, WebsiteStatuses
<1>4. SitesTypes' /\ CallsMeanIt'
  BY <1>1, <1>2, <1>3, NoHttpIsTyped DEF SitesInv, SitesTypes, CallsMeanIt
<1>5. IsDark' = IsDark
  BY <1>1 DEF IsDark
<1>6. OneAdminAtATime => OneAdminAtATime'
  BY <1>2, NoHttpIsTyped DEF OneAdminAtATime
<1>7. OffIsDark => OffIsDark'
  BY <1>1, <1>2, <1>5, NoHttpIsTyped DEF OffIsDark
<1>8. OneAdminAtATime /\ OffIsDark /\ WithdrawnIsDark => WithdrawnIsDark'
  <2> SUFFICES ASSUME OneAdminAtATime, OffIsDark, WithdrawnIsDark,
                      site' \in Withdrawn, \A g \in HttpCalls : http'[g].by # "admin"
               PROVE  opened \/ IsDark
    BY <1>1, <1>5 DEF WithdrawnIsDark
  <2>1. CASE http[h].by = "admin"
    <3>1. http[h].sets = "off"
      BY <2>1, <1>1 DEF SitesInv, CallsMeanIt, Withdrawn
    <3> QED BY <2>1, <3>1, <1>1 DEF OffIsDark
  <2>2. CASE http[h].by # "admin"
    <3>1. site \in Withdrawn
      BY <2>2, <1>1 DEF SitesInv, CallsMeanIt, Withdrawn
    <3> QED BY <2>2, <3>1, <1>2 DEF WithdrawnIsDark
  <2> QED BY <2>1, <2>2
<1> QED BY <1>1, <1>4, <1>6, <1>7, <1>8 DEF SitesInv

\* and every step keeps it.
LEMMA SitesInvNext == SitesInv /\ [SitesNext]_siteVars => SitesInv'
<1> SUFFICES ASSUME SitesInv, [SitesNext]_siteVars PROVE SitesInv'
  OBVIOUS
<1> USE DEF WebsiteStatuses, Kinds
<1> /\ site \in WebsiteStatuses \cup {"none"} /\ output \subseteq Kinds
  BY DEF SitesInv, SitesTypes
<1>1. CASE UNCHANGED siteVars
  BY <1>1, RowIsWritten DEF siteVars, Withdrawn
<1>2. ASSUME NEW h \in HttpCalls, Visit(h) \/ Provision(h) PROVE SitesInv'
  BY <1>2, CallBegins DEF Visit, Provision
<1>3. ASSUME NEW h \in HttpCalls, NEW sets \in {"keep", "on", "off"},
             PatchWebsite(h, sets) \/ PatchConfig(h, sets) \/ ApproveWebsite(h, sets)
      PROVE  SitesInv'
  BY <1>3, CallBegins DEF PatchWebsite, PatchConfig, ApproveWebsite, Withdrawn
<1>4. ASSUME NEW h \in HttpCalls, NEW kind \in Kinds, AdminApprove(h, kind) PROVE SitesInv'
  BY <1>4, CallBegins DEF AdminApprove
<1>5. ASSUME NEW h \in HttpCalls, SetPublished(h, "on", "PUBLISHED") PROVE SitesInv'
  BY <1>5, CallBegins DEF SetPublished
<1>6. ASSUME NEW h \in HttpCalls, NEW status \in {"UNPUBLISHED", "SUSPENDED"}, SetPublished(h, "off", status)
      PROVE  SitesInv'
  BY <1>6, CallBegins DEF SetPublished, Withdrawn
<1>7. CASE SaveWebsite \/ DeployWebsite \/ DeployApp \/ DeleteWebsite
  BY <1>7, RowIsWritten DEF SaveWebsite, DeployWebsite, DeployApp, DeleteWebsite, Withdrawn
<1>8. ASSUME NEW status \in WebsiteStatuses \ {"UNPUBLISHED", "SUSPENDED"}, CreateWebsite(status) PROVE SitesInv'
  BY <1>8, RowIsWritten DEF CreateWebsite, Withdrawn
<1>9. ASSUME NEW kind \in Kinds, NEW by \in {"owner", "admin"}, Reject(kind, by) PROVE SitesInv'
  BY <1>9, RowIsWritten DEF Reject, Withdrawn
<1>10. ASSUME NEW h \in HttpCalls, SaveConfig(h) PROVE SitesInv'
  BY <1>10, ConfigIsSaved
<1> QED
  BY <1>1, <1>2, <1>3, <1>4, <1>5, <1>6, <1>7, <1>8, <1>9, <1>10, ConfigIsFound, CallIsLost, SenderGoesOn
  DEF SitesNext

\* (SitesTypeOK) The status of the Website, what can be decided on and the rows of
\* WebsiteConfig stay within their types.
THEOREM SitesInOrder == SitesSpec => []SitesTypeOK
<1>1. SitesInv => SitesTypeOK
  BY DEF SitesInv, SitesTypes, SitesTypeOK
<1> QED BY <1>1, SitesInvInit, SitesInvNext, PTL DEF SitesSpec

\* (WithdrawnStaysDark) unpublish and suspend tell Commerce first and write the row
\* after: a withdrawn website is dark until a call switches it on in as many words,
\* however late the other calls that read and save the configuration are, unless one
\* was lost or two changes have crossed (website-config.service.ts).
THEOREM WithdrawnSitesAreDark == SitesSpec => []WithdrawnStaysDark
<1>1. SitesInv => WithdrawnStaysDark
  BY DEF SitesInv, WithdrawnIsDark, Withdrawn, IsDark, WithdrawnStaysDark
<1> QED BY <1>1, SitesInvInit, SitesInvNext, PTL DEF SitesSpec
=============================================================================
