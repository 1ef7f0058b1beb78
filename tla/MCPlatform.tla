----------------------------- MODULE MCPlatform -----------------------------
(* What the platform keeps, in one run: the plan settings, the database       *)
(* library and the schema scripts of the core package; subscriptions, users   *)
(* and businesses, subdomains and websites.  These parts share no state:      *)
(* `part' is the one that moves, and the others stay as they began.           *)
EXTENDS PlanSettings, EntityTables, SchemaScripts, Billing, Accounts, Subdomains, Sites

\* The constants are such that the calls, requests and scripts of every part have
\* the same names, none of which is distinguished.
CallSymmetry == Permutations(Callers)

VARIABLE part
coreVars == <<planVars, tableVars, schemaVars>>
businessVars == <<billingVars, accountVars, slugVars, siteVars>>
platformVars == <<part, coreVars, businessVars>>

\* What owners type: two spellings of one subdomain, a reserved one, one that is
\* too short, and one that is cut behind a hyphen.
SomeNames == {<<"A", "b", " ", "1">>, <<" ", "a", "b", "-", "1">>, <<"a", "b">>,
              <<"w", "w", "w">>, <<"b", "b", "1", " ", "a">>}

\* What stands still is in one state only.
TablesStill == TablesInit /\ client = AgentTaskClient
SchemaStill == SchemaInit /\ objects = {}
CoreStill == PlansInit /\ TablesStill /\ SchemaStill
SlugsStill == SlugsInit /\ indexed
BillingStill == BillingInit /\ \A id \in PlansSold : listed[id] = Unknown
BusinessStill == BillingStill /\ AccountsInit /\ SlugsStill /\ SitesInit

PlatformInit ==
  \/ part = "plans" /\ PlansInit /\ TablesStill /\ SchemaStill /\ BusinessStill
  \/ part = "tables" /\ PlansInit /\ TablesInit /\ SchemaStill /\ BusinessStill
  \/ part = "schema" /\ PlansInit /\ TablesStill /\ SchemaInit /\ BusinessStill
  \/ part = "slugs" /\ CoreStill /\ BillingStill /\ AccountsInit /\ SlugsInit /\ SitesInit
  \/ /\ part = "billing" /\ CoreStill /\ AccountsInit /\ SlugsStill /\ SitesInit
     /\ BillingInit /\ listed = [id \in PlansSold |-> IF id = "growth" THEN Unknown ELSE "AGENCY"]
  \/ part \in {"accounts", "sites"} /\ CoreStill /\ BusinessStill
PlatformNext ==
  /\ UNCHANGED part
  /\ \/ part = "plans" /\ PlansNext /\ UNCHANGED <<tableVars, schemaVars, businessVars>>
     \/ part = "tables" /\ TablesNext /\ UNCHANGED <<planVars, schemaVars, businessVars>>
     \/ part = "schema" /\ SchemaNext /\ UNCHANGED <<planVars, tableVars, businessVars>>
     \/ part = "billing" /\ BillingNext /\ UNCHANGED <<coreVars, accountVars, slugVars, siteVars>>
     \/ part = "accounts" /\ AccountsNext /\ UNCHANGED <<coreVars, billingVars, slugVars, siteVars>>
     \/ part = "slugs" /\ SlugsNext /\ UNCHANGED <<coreVars, billingVars, accountVars, siteVars>>
     \/ part = "sites" /\ SitesNext /\ UNCHANGED <<coreVars, billingVars, accountVars, slugVars>>
PlatformSpec == PlatformInit /\ [][PlatformNext]_platformVars

\* The types of the parts: rows, calls and saves of the plan settings
\* (subscriptions.service.ts), tables and calls of the library (db-clients.ts),
\* records and locks of the scripts, subscriptions and orders
\* (billing.service.ts), users, businesses and keys (auth.service.ts,
\* mcp.service.ts), claims (subdomain.service.ts), and the calls that change what
\* a storefront shows (website-config.service.ts).
PlatformTypeOK ==
  /\ PlansTypeOK /\ TablesTypeOK /\ SchemaTypeOK
  /\ BillingTypeOK /\ AccountsTypeOK /\ SlugsTypeOK /\ SitesTypeOK
=============================================================================
