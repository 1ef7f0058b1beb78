--------------------------- MODULE PlanCatalogue ---------------------------
(* Subscription plans and how the stored settings are read: the defaults of  *)
(* the code, overridden by what an administrator saved, without what he      *)
(* deleted.  A plan has here its identity, what is paid, what it allows and  *)
(* when it is offered; its texts are left out.                               *)
EXTENDS Integers, SequencesExt, Lists

NoDate == 0     \* startsAt, endsAt: null; dates are days from 1
Statuses == {"ACTIVE", "SCHEDULED", "EXPIRED", "DRAFT", "INACTIVE"}
SubscriptionTiers == {"FREE", "PRO", "AGENCY"}

Quotas(tokens, websites, apps, posts, businesses, keys) ==
  [tokens |-> tokens, websites |-> websites, apps |-> apps, posts |-> posts,
   businesses |-> businesses, mcpKeys |-> keys]
\* In thousands of tokens.
DefaultQuotas ==
  [starter |-> Quotas(150, 3, 0, 15, 3, 2), growth |-> Quotas(500, 3, 3, 40, 3, 3),
   pro |-> Quotas(1200, 6, 6, 100, 5, 5), business |-> Quotas(3000, 6, 6, 250, 10, 8)]

DefaultPlan(id, tier, price) ==
  [id |-> id, tier |-> tier, price |-> price, status |-> "ACTIVE",
   starts |-> NoDate, ends |-> NoDate, quotas |-> DefaultQuotas[id]]
DefaultPlans ==
  <<DefaultPlan("starter", "FREE", 10), DefaultPlan("growth", "PRO", 20),
    DefaultPlan("pro", "PRO", 50), DefaultPlan("business", "AGENCY", 100)>>

DefaultPlanIdFor(tier) ==
  IF tier = "AGENCY" THEN "business" ELSE IF tier = "PRO" THEN "growth" ELSE "starter"

\* The fields of g, overridden by those of f.
Over(f, g) == [x \in DOMAIN f \cup DOMAIN g |-> IF x \in DOMAIN f THEN f[x] ELSE g[x]]
\* normalizePlan: a field of the plan, else of the fallback, else its default;
\* a status that is none is treated as missing.
NormalizePlan(plan, fallback) ==
  LET given == [f \in {g \in DOMAIN plan : g # "status" \/ plan[g] \in Statuses} |-> plan[f]]
      known == Over(given, fallback)
  IN  Over(known,
           [tier |-> known.id, price |-> 0, status |-> "DRAFT", starts |-> NoDate, ends |-> NoDate,
            quotas |-> IF known.id \in DOMAIN DefaultQuotas THEN DefaultQuotas[known.id]
                       ELSE DefaultQuotas.starter])
Nothing == [f \in {} |-> 0]

\* getEffectiveSubscriptionPlanStatus
EffectiveStatus(plan, now) ==
  IF plan.status \in {"DRAFT", "INACTIVE"} THEN plan.status
  ELSE IF plan.ends # NoDate /\ plan.ends <= now THEN "EXPIRED"
  ELSE IF plan.starts > now THEN "SCHEDULED" ELSE "ACTIVE"

\* normalizeSubscriptionPlanSettings: each default that is not deleted takes
\* the first stored plan with its id OR its tier; other stored plans follow
\* when neither their id nor their tier is one of those.
Override(plans, d) ==
  LET found == {i \in DOMAIN plans : plans[i].id = d.id \/ plans[i].tier = d.tier}
  IN  IF found = {} THEN Nothing ELSE plans[Min(found)]
NormalizeSettings(s) ==
  LET kept == Kept(DefaultPlans, {i \in DOMAIN DefaultPlans : DefaultPlans[i].id \notin s.deleted})
      regular == [i \in DOMAIN kept |-> NormalizePlan(Override(s.plans, kept[i]), kept[i])]
      listed == ToSet(regular)
      custom == Kept(s.plans, {i \in DOMAIN s.plans :
                  \A r \in listed : s.plans[i].id # r.id /\ s.plans[i].tier # r.tier})
  IN  [plans |-> regular \o [i \in DOMAIN custom |-> NormalizePlan(custom[i], Nothing)],
       deleted |-> s.deleted]
NoSettings == [plans |-> << >>, deleted |-> {}]
Ids(plans) == {plans[i].id : i \in DOMAIN plans}
=============================================================================
