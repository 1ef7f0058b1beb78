# Bizpark: a specification and its proofs

TLA+ models of the parts of Bizpark in which several actors meet on shared
state, the TLC runs that check them on small instances, and TLAPS proofs of
what matters most for every size.

`PROJECT.json` lists the runs, the mutants each property must catch, the lines
of source every definition stands for, the hazards and the theorems. Run a model
with `tlc -workers 2 -config X.cfg M`, check proofs with `tlapm M.tla`.

## 1. The system

| Component | State it keeps | Operations | Talks to |
|---|---|---|---|
| Bizpark.Commerce (per-tenant shop) | one PostgreSQL schema per tenant: carts, orders, inventory rows, payments | cart edits, checkout, direct orders, status updates, cancellation, reservations, stock upserts | called by the storefront, the API and payment webhooks |
| Commerce tenants | map of data sources and of initializations under way | get or create the tenant's data source, create its schema, close all | every Commerce request |
| Bizpark.API usage | `AiUsagePeriod` (counters of a month), `AiUsageEvent` (reservations) | reserve, commit or release, consume at once | every AI task; the runner reports over HTTP |
| Bizpark.API agent + Bizpark.Runner.Py | `AgentTask` rows, BullMQ queue `agent-queue`, website and mobile app status | queue, process, approve, reject, retry, report usage | usage, Admin, Commerce (configuration sync) |
| Bizpark.API social | posts, publications, encrypted accounts, delayed BullMQ jobs | generate, publish now, schedule, cancel, process, fail, connect and disconnect accounts | platform HTTP APIs |
| Bizpark.API billing | `Subscription` rows | create checkout, PayHere notification | PayHere, usage (effective plan) |
| Bizpark.API business | businesses, websites, subdomains, mobile apps | create, deploy, claim a subdomain, request a store release | agent tasks, Commerce, Cloudflare |
| Bizpark.API google-business | connections, reviews, reply tasks | sync, approve, reconcile | agent tasks, Google |
| Bizpark.API auth, mcp | users and their sessions, hashed keys | register, log in; generate and revoke keys | usage limits |
| Bizpark.MCP | OAuth clients and codes | authorize, exchange, tools | Commerce and API over HTTP |
| Bizpark.Admin | admin sessions, audit trail, plan settings | publish, suspend, approve, retry, edit plans | the same tables and queue as the API |
| Bizpark.Core | entities and thin clients, the catalogue of plans, scripts and migrations | read, read-modify-write; bootstrap, split and migrate the database | all services |
| Storefronts, mobile app | nothing of their own | screens | the services above |

Behaviour that is hard, and what makes each component correct:

- **Commerce**: concurrent checkouts, updates and cancellations on the same rows;
  deadlocks between carts; a bounded connection pool; a cart edited while it is
  checked out. Correct means: units are conserved, what is reserved is what live
  orders are owed, nothing is oversold, an order moves only along `TRANSITIONS`,
  and a checkout is all or nothing.
- **Usage**: racing reservations; settlements that come late, twice or never;
  plans and months that change meanwhile. Correct means: the counters are what
  the events add up to, within the plans, each event settled once.
- **Agent tasks**: jobs that are redelivered, decisions that race the runner,
  reports that are lost, retries that reuse a reservation.
- **Social publishing**: delayed jobs, retries with errors of two kinds,
  cancellation and deletion racing the worker.
- **Billing**: notifications that are late, repeated or out of order against the one
  row that the next checkout overwrites, saves that each update the columns they found
  different, and plans whose tier is edited meanwhile. Correct means: what is active was
  paid for, and what one confirmation wrote alone is the plan of its order.
- **Tenants**: one initialization shared by concurrent first requests, whose
  failure must not stick. Correct means: one pool per store.
- **Carts**: lines saved with a price read before. Correct means: a price that this very
  item had while it was added, its product's for a variant without one, and nothing for
  free that was there.
- **Social accounts**: several requests to a platform per operation, and rows
  written back by late errors. Correct means: a publication is whole, and an account
  that is shown as connected has its latest token.
- **Reviews**: loops over reviews that two listings run at once. Correct means: the
  owner's answer stands and no text is posted twice.
- **Plans, accounts, subdomains**: read, compare, write. Correct means: a save undoes
  only what it had not read, an overrun is bounded by the number of requests, and an index
  guards what two owners may claim.
- **Websites**: a row here and a configuration in Commerce, changed by calls that
  cross or are lost, some of them the owner's with whatever he put in them. Correct means:
  what an administrator withdrew stays dark until a call says `isPublished`.
- **Database library and scripts**: find, then save; transactions that die. Correct
  means: a row that no save has overtaken is what its callers asked, and a migrated
  database is whole.

## 2. Modules

| Module | What it is |
|---|---|
| `StoreData` | data of a shop: stock levels, baskets, orders, what live orders are owed |
| `OrderStock` | the abstract store: place, advance or cancel an order in one step |
| `CommerceOrders` | the Commerce service: requests, transactions, row locks, pool, cart, crashes |
| `MCCommerceOrders` | instances for TLC |
| `CommerceOrders_proofs`, `CommerceStock_proofs` | lemmas and theorems |
| `UsageData` | data of one user's AI usage: reservations and their sums |
| `UsageLedger` | the abstract ledger: reserve within a plan, commit or release once |
| `UsageQuota` | the usage service: calls, transactions, locks on events and periods, crashes |
| `MCUsageQuota` | instances for TLC |
| `UsageQuota_proofs` | lemmas and theorems |
| `AgentTasks` | AI tasks of a business: queueing, runner, decisions, retries, usage reports |
| `AgentTasks_proofs` | its inductive invariant and what follows from it |
| `SocialPublishing` | one social post: requests, BullMQ jobs, workers, failure hook |
| `SocialPublishing_proofs` | its two inductive invariants and what follows from them |
| `MCSocialPublishing` | an instance for TLC |
| `PlanCatalogue` | the plans: defaults, stored settings, their normalization and effective status |
| `PlanSettings` | administrators editing the plans |
| `EntityTables` | the database library: find, then save, for every entity client |
| `SchemaScripts` | bootstrap, split, rollback, migrations and reverts |
| `Lists` | the elements of a sequence at given places, in their order |
| `Billing` | the subscription of a business: checkouts, notifications, the administration |
| `Accounts` | users and sessions, businesses and MCP keys under the plan's limits |
| `Subdomains` | claims of storefront subdomains and the index that guards them |
| `Sites` | a website's row and its configuration in Commerce |
| `MCPlatform` | these seven in one run |
| `Business_proofs` | inductive invariants of `Billing`, `Accounts`, `Subdomains` and `Sites` |
| `Core_proofs` | those of `EntityTables`, `SchemaScripts` and `PlanSettings`, and the composition of the seven |
| `TenantSources` | the data sources of the stores in one Commerce process |
| `Carts` | a customer's cart and the prices it copies |
| `SocialAccounts` | connecting, disconnecting and publishing with an account of each platform |
| `Reviews` | the Google reviews of a business and the AI replies to them |
| `MCChannels` | these four in one run |
| `Channels_proofs` | their inductive invariants, and the composition of the four |

`MCPlatform` and `MCChannels` run parts that share no state: `part` is chosen in the
initial state, only that part moves, and the others stand still in one state, so that
the run is the sum of its parts and not their product. The symmetry they use permutes
the names of the requests, which no definition tells apart.

`CommerceOrders` implements `OrderStock` and `UsageQuota` implements `UsageLedger`
(refinements, checked and proved). `AgentTasks` stands on that result: a call of
the usage service is one step of it, because `UsageQuota` shows that it behaves
like one.

### CommerceOrders

A request (`pc[p]`, `job[p]`, `basket[p]`) is one HTTP call. A transaction's
uncommitted rows are in `dirty`, the locks it holds in `lock` (inventory rows) and
`olock` (order rows); COMMIT publishes the rows it holds (`PublishRows`), ROLLBACK
drops them. Each action is the code between two statements that can wait:
`BeginCheckout` opens the transaction, `ReserveLine` is one
`reserveWithLock`, `RereadCart` the second reading of the cart, whose lines are kept in
`fresh`, `CommitCheckout` removes them from the cart and commits the order, `Reload` is the
read after the commit that needs a second connection. `Forget` drops a handler's local
variables when it is over.
`LockOrder`, `ReleaseLine` and `CommitUpdate` are a status update or cancellation.
`CreateRead`, `SaveRow` and `InsertOrder` are the direct order creation, which
holds no lock between read and save; `StartReserve` and `StartUpsert` are the endpoints of
the inventory, the second with the reserved count that may be given and with `InsertRow` for
a new sku. `entered` are the inventory rows there are: a line whose row is not entered yet
is untracked. `EditCart` is a cart endpoint called
meanwhile, `DeadlockAbort` is what PostgreSQL does to a cycle, `Crash` loses the
connection.

Abstractions: lines of a cart are reserved in any order (the code uses the order
of the rows, which the database does not fix); prices, totals and payments are
left out; TypeORM's save of a changed row is one UPDATE of both counts under that row's
lock (the library selects the row again just before and leaves out a count that already
has its value); an upsert that gives a known sku another product is left out;
cart lines keep their quantities small (`MaxQty`). Order rows and their items
never disappear.

### UsageQuota

One user. A call that reserves is named by the uuid it reserves under
(`EventIds`), a settlement is one of `Settlers`; both run transactions with row
locks `plock` (periods) and `elock` (events). `StartReserve` reads the plan and
the month before the transaction begins, as the code does; `LockForReserve` is
`withPeriodLock`, which keeps the row as it read it in `call[c].seen`;
`CommitReserve` or `Refuse` follow from `assertWithinQuota` on that row.
`LockEvent`, `LockPeriod` and `CommitSettle` are `commitReservation`.

Abstractions: one counter stands for the three that are treated alike (website,
mobile app and social post generations); every update of a transaction becomes
visible at its commit; the amount, the estimate and the reported tokens are any
numbers up to `MaxUnits`; a period's row always exists (`INSERT ... ON CONFLICT DO
NOTHING` comes first).

### AgentTasks

A task is named by its id: those of `UserTasks` are queued by the API
(`AgentService.queueTask`), those of `AdminTasks` by the administration. `request[t]`
is where the queueing call is: `Reserve` (the quota), `CreateRow`, `AddJob`, and in
the catch block `Release`; `MarkGenerating` is the update of the website that the
callers of a website task do last. `job[t]`, `stalls[t]` and `run[t]` are the BullMQ
job and its runner (`process_agent_task`): `Take` marks or inserts the row, `Deliver`
and `AgentFails` store the outcome, `Report` is `_report_usage`. `decision[d]` is a call
of approve or reject. `input[t].holds` is the reservation id in the task's input: a
retry copies the input, so two tasks may hold one reservation. `disturbed` is a
ghost: the reservations touched by a fault or by a retry. What is claimed of a
reservation that leaks or of work that is not charged excludes those, because the
code has no second attempt at a settlement; `SettledLikeTheWork` and `QueuedHasRow`
claim it of all.

Abstractions: the output is only what distinguishes decisions from results (reply,
generated, approved, error); an update of a task row is one step, as each of the
code's writes sets the status and the output together; there is one website, and
its subdomain and configuration are left out.

### SocialPublishing

One post and its account. `request[q]` is a call of publish now, schedule, cancel,
delete or edit; its check of the status (`Start`), its work on the queue
(`EnqueueNow`, `EnqueueLater`, `RemoveJob`) and its update, which reads the row
(`FindPost`) and saves it (`SavePost`), are separate steps, since each is an await.
`socialPost.update` saves what it read, so a stale status or deletion mark is
written back. `work[j]` is `SocialPublishingProcessor.process` for the job `j`, `hook[j]`
its `onFailed`. All schedule requests share the job `Scheduled`, whose id BullMQ
ignores as long as it keeps a job of that id in any state.

`disturbed` is a ghost: it becomes true when a row is saved that changed since it
was read, when somebody writes behind a running worker's back or after the
publication (`Disturbing`, `Late`), and when a fault hits a step between the platform
and the database. `PublishedOnce` and `QuietIsSettled` are claimed of undisturbed
posts: the platform calls have no idempotency key, and updates have no version, so
neither can hold otherwise. TLC finds counterexamples without them.

Abstractions: caption, media and platform are left out (an edit rewrites the row as
it read it); the account switch of publish now is such an edit; kept jobs are never
evicted (the code keeps the last 100 for 7 days).

### PlanSettings and PlanCatalogue

`Begin...` is a request up to the read of the latest settings row (`getSettingsRow`),
`after` what it is going to save; `Save` is `saveSettings`, `Record` the audit record,
`Crash` the process dying between them. Each reading merges the row with the defaults
of the code as `normalizeSubscriptionPlanSettings` does. `saved` is the history of the
saves: what each had seen, the plans that are not what they were before it (`ChangedIds`),
whether its own plan is then offered, and whether the row it wrote was the latest no more.
A plan is its identity, code (`tier`), price, dates and quotas,
without texts. The edit form also changes the code, which decides what the next reading
takes for a default; `clash` is a ghost, true of a request that gives a default another
code, or an added plan, be it edited or created, the code of a default. After such a save
plans stand for each other or vanish when they are merged: a plan that is created with the
code PRO is gone at the next reading. So `PlanEditsAreKept` claims nothing of added plans
from then on; TLC finds it violated without that exception. Until then it claims that a save
changes the plan it is about and, of the other added plans, only what a save it had not
read has changed, and that what it created or edited is offered; and of deletions, always,
that only a save of what was read before them undoes one. `NewId` is the id of a created plan:
the time is in it, told by the number of saves, and `NewIdsAssumption` says that it is no
default's and that two plans with a save between them get different ones. In the runs it
is `PlanId`, which gives two requests between the same saves one id, as they get within a
millisecond.

### EntityTables

One table and one of the 17 entity clients (`AllClients`), each defined by what it
offers, how its entity deletes rows, and whether an index covers its key. A call waits
for the data source (`Connect`, `Initialized`), finds its row (`FindRow`) and saves the
whole of it (`SaveFound`, `SaveNew`, or `Refused` by the index). Two columns stand for
all. `asked` is what the rows would be were every call one step; `stale` are the rows
and keys of saves that somebody had overtaken. Paging, filters and joins are left out.
(A save of TypeORM reads the row again and updates the columns that differ, so that two
saves whose second reading comes before the first update mix their columns. `Billing` has
that step, because what is claimed there depends on it. Here, and in the other modules
whose rows are saved by `repo.save`, a save is one of the whole row, at the time of that
reading.)

### SchemaScripts

Tables, indexes and types are pairs of schema and name. A script is one transaction, so
`Bootstrap`, `Migrate` and `Revert` take effect in one step from what they had read at
their start, or fail. The split and its rollback move eight tables one by one (`Look`,
`MoveTable`), wait for each other's locks, and commit together. Columns of tables are
left out; a migration is what it needs, creates and drops.

### Billing, Accounts, Subdomains

`Billing`: `UpsertForBusiness` is the first read of `upsertForBusiness` with its merge,
`Reread` the second read, by TypeORM's `save`, and `WriteSub` the update of the columns in
which the two differ. `Merged` is what a checkout, a confirmation, a failure and the
administration each set. `listed` are the tiers of the plans in the settings, which
`EditListing` changes: `FindPlan` looks there before the defaults, and `NotifiedTier` is PRO
when it finds nothing. A tier may be any text, one that the column's type refuses makes the
save fail. The provider's reports are the codes of an order; `HandleNotify` delivers one, any
number of times and in any order; a request whose signature is wrong changes nothing and is
no step. `writers` is history: the saves whose columns a row may hold, one only if the last
save found the row as it had read it. Provider, dates and renewal are left out.
`Accounts`: the session, the limits (`MayCreate`) and the insertions are separate steps;
the owner and the administration delete and revoke meanwhile. Hashing and tokens are
left out: a session is that a token was given. `Subdomains`: `Slugify` is the code's,
over sequences of characters; a claim reads, `FindRowOf` and `SaveRowOf` are the
library's update, `IndexRefuses` the partial unique index, which may be missing.

### Sites

`http[h]` is a call of Commerce, which finds the first configuration row and saves it as
two statements (`FindConfig`, `SaveConfig`), and which may be lost. `Answered` is the
sender going on. What a call `sets` is `isPublished`, or nothing of it: the owner's changes
(`PatchWebsite`), his approval (`ApproveWebsite`) and the store's own administrator
(`PatchConfig`) may all set it, because bodies are forwarded as they are and the DTO of
Commerce accepts it. `crossed`, `lost` and `opened` are ghosts: two changes of one
configuration had read the same row, a call did not arrive, or a call that is not an
administrator's has switched the site on since the last withdrawal. Of a configuration only
`isPublished` is kept.

### TenantSources and Carts

`GetDataSource` is `getDataSource` up to its await; `InitForTenant` the initialization
that succeeds or fails; `Settled` the request that began it, `Joined` those that waited;
`DestroySource` and `ClearSources` are `onModuleDestroy`. In `Carts` the lookups of
cart, line, variant and product are separate steps, and a line is saved with all of
its columns. `ListedPrice` is what an item costs: a variant its own price or, without one,
its product's, and nothing for what is gone. `listed[i]` are the prices the item of row `i`
had while it was last added, from the reading of the cart to that of the price (`Due` is
what a request has still to find); `overtaken` the rows two requests wrote at once.
Quantities are left out here:
`CommerceOrders` has them.

### SocialAccounts

`consent` are the owner's consents at the platform and `token` the life of their tokens.
`Callback` and `ExchangeStep` are the OAuth callback with the number of requests each
platform takes, `FindAccount` and `SaveAccount` its upsert; `Disconnect`, `Revoke`,
`FindDisconnected`, `SoftDelete` the disconnection; `Resolve` and `CallAnswered`,
`CallFails`, `CallUnanswered` (an answer that is lost, or that cannot be parsed, whose error
"Unexpected token" the processor takes for one about the account's token) a publication,
with the requests of each platform in
`Uploads`; `FindExpired` and `SaveExpired` what the processor does to an account whose
token failed. Contents of requests are left out. A save is one of the whole row, as in
`EntityTables`; columns of two saves could mix only with a third consent, which the run
does not have.

### Reviews

`StartReconcile`, `FindPending`, `LookAtTask`, `PostReply`, `FindReview`, `SaveReview` are
`reconcileReviewTasks`; `ListReviews` to `FindQueued` the loop of `syncReviews`;
`ApproveReply` the owner's answer, `Run` the outcome of the reply agent, `GiveUp` any
failure. A text is who wrote it. `loose` is a ghost: the reviews two requests handled at
once, or that one gave up midway.

## 3. What TLC checks

Every property has a mutant in `PROJECT.json`, a plausible bug of the code it
catches under the same configuration.

| Run | Bounds | Shows |
|---|---|---|
| `orders_locked` | three requests (checkouts, updates, cancellations) on two rows, two lines of one unit, a pool of four, so that nobody waits for a connection | `TransactionsAccount`, `StockConserved`, `ReservedIsOwed`, `NoOversell`, the refinement of `OrderStock` for the endpoints that lock rows, and that every request ends, through deadlocks and crashes |
| `orders_all` | all six endpoints | `OrderInv` and `StatusFollowsTransitions` hold even beside the unlocked endpoints |
| `orders_create_oversells` | one checkout, one direct creation | finding: the direct creation oversells |
| `orders_cart_moved` | one cart, edits meanwhile | finding: the lines ordered and the lines cleared differ |
| `usage_ledger` | three calls, two plans, one month | counters, bounds, settled once, refinement of `UsageLedger` |
| `usage_months` | two months, one settler, weak fairness of every call | settlements count in the month of the reservation, and no two transactions wait for each other |
| `agents_tasks` | one task of the owner, of either kind, one of the administration, a decision, two faults | settlements follow the work, none leaks, rows exist before their jobs, jobs end |
| `social_post` | two requests of any kind, one worker, two faults | the history is true, a post is online once, a quiet post is settled |
| `social_cancelled` | the same, without faults | finding: a post cancelled while its job is active is published |
| `platform` | plans: two administrators, three saves, edits that leave a code, make it a default's or a new one; library: two calls, one key, two rows, three saves, all clients; scripts: two operators, three scripts, three kinds of database; billing: two calls, two orders, a default plan and one of the settings, three saves or edits; accounts: one user, three businesses, three keys, two calls, limits of one; subdomains: two businesses, five spellings, labels of four, three saves; website: two calls at once, three in all | `PlanEditsAreKept`, `RowsAreAsAsked`, `OneRowPerKey`, `LegacyStaysTogether`, `RecordedIsThere`, `ActiveIsPaidFor`, `OverrunIsBounded`, `NoSharedStorefront`, `WithdrawnStaysDark` |
| `billing_unpaid_active` | two calls, two orders of two plans, three saves, no administrator | finding: a confirmation and a checkout that save at once leave the plan of the checkout ACTIVE, which nobody paid for |
| `channels` | two stores, three requests, three initializations; two cart calls, two edits; two flows, one publisher, two consents, one attempt, every platform and medium; one review, two calls, two tasks | `SourcesAreShared`, `LinesArePriced`, `PublishIsWhole`, `ConnectedHasLatestToken`, `RepliesStand` |

Each configuration says `CHECK_DEADLOCK FALSE`: the instances really stop once their
requests, saves or faults are used up. What should not hang is a property of its own
(every request, call and job ends; no two transactions wait for each other).

Two contended rows and two or three concurrent requests are enough for every
conflict the code has: a lock conflict and a lost update take two requests on one
row, a deadlock two requests on two rows, a leaked or doubled release one order
and two updates. The proofs below lift what holds to every size.

One task of each kind is enough for the agents: tasks meet only in the website and
in a reservation that a retry shares, and both have two writers here; two faults
reach the crash after a crash that BullMQ treats differently (`MaxStalled` is its
default, 1). Two requests on a post give every pair of requests and, with schedule
and publish now, two jobs; two faults reach a retry that fails while it is handled,
and the crash after a crash.

In `platform` and `channels` a lost update takes two requests and a third save to show
what is lost; an overrun takes a limit and one more request than it allows; a claim
that is set back takes a claim and one status change; a configuration that is
made twice takes two calls, and switching it off again a third. An account takes two
consents to have an older token, a review two tasks for an older text. Two scripts and
a third reach a migration after a half-seen split, and a revert after a migration.

These two runs check safety only: their histories (`stale`, `overtaken`, `crossed`, `lost`,
`opened`, `undone`, `unindexed`, `loose`, and what `saved` and `writers` tell of a save)
exclude the states in which two writers met, or somebody asked for what happened, because
the code locks nothing there and no document promises that it does. What the properties say
is that nothing else goes wrong. The hazards in `PROJECT.json` say which of them a property
covers only in part, or excuses. No fairness is assumed, since what would
have to happen there (a call of the owner, a notification, the next synchronization)
is nobody's duty.

Fairness: a request that has been accepted continues while its next statement can
run (the Node event loop runs every ready continuation, and PostgreSQL grants a
free row lock), so weak fairness of each request's own steps. Nothing forces a
client to call, a plan to change, or a crash to happen. For the agents there is
always a runner, and an agent ends (its model calls have timeouts), so weak
fairness of `Take`, `Deliver`, `AgentFails` and `Report` together, and of nothing else.

## 4. What is proved

With TLAPS, for every number of requests, customers, rows, lines, reservations,
settlements, months and plans:

- `OrdersInOrder`, `StatusIsTransitional` (`CommerceOrders_proofs`): the invariant
  `OrderInv` (types; each request's record of its work; a status update holds its
  order's lock until it commits) is inductive with all endpoints in play, and the
  status property follows: the status checked is still the status written over.
- `StockInOrder`, `TransactionsAreAccounted`, `UnitsAreConserved`, `ReservationsAreOwed`,
  `NothingIsOversold`, `StoreIsImplemented` (`CommerceStock_proofs`): assuming `LockedOnly` (the endpoints
  that lock rows) and `UniqueMatch` (a line matches at most one row: without the
  first `orders_create_oversells`, without the second the
  instance `TwoRows` has a counterexample). The strengthening is `Accounts`: an uncommitted row differs from
  the committed one by exactly the units of the lines its transaction has already
  handled. Without it, a commit cannot be shown to move exactly the units of its order.
- `QuotaInOrder`, `CountersAreRight`, `CountersAreBounded`, `TokensAreBounded`,
  `ReservationSettledOnce`, `LedgerIsImplemented` (`UsageQuota_proofs`): the
  strengthening is that a settlement that holds its event found it RESERVED and
  works on its month, and that a reserving call has not inserted its event.
  Sums are cardinalities of sets of units, so that adding one event is a disjoint
  union (`TotalAdd`) and no induction over data is needed.
- `CallsAreNeverStuck` (`UsageQuota_proofs`): `WaitsEnd`, that from every call the waiting
  leads in two steps at most to one whose guard is met, and `GetsOn`, that a call which moves
  has fewer statements left. Events are locked before periods, and who holds a lock is
  between the statement that took it and its commit (`HoldersWork`). With the fairness of
  `FairSpec` this is why `CallsFinish` holds; that the guards in `CanMove` are those of
  the actions is read, not proved, since ENABLED is beyond the prover.
- `TasksInOrder`, `ReservationsFollowWork`, `NothingLeaks`, `WorkIsCharged`, `JobsHaveRows`
  (`AgentTasks_proofs`), for any number of tasks, retries, decisions, stalls and
  faults: `TaskInv` says which row, job, run and reservation belong to each place
  a request can be (`RequestInOrder`), that a reservation in another task's input is
  disturbed (`ReservationInOrder`), and that an undisturbed task is run once with
  its reservation open until it is through (`UndisturbedInOrder`). Without the last,
  a report could find its reservation settled by another run.

- `TablesInOrder`, `RowsFollowTheirCalls`, `KeysHaveOneRow`, `TablesAreTyped`
  (`Core_proofs`), for any number of calls, keys, rows and any set of clients that meets
  `ClientsAssumption` (rows that are upserted without an index are created and deleted
  by nothing else, which TLC evaluates for the 17 of the code): `CallsKnowTheirRow` says
  that a call which is about to save holds its row as it is, or an older version;
  `UpsertsLookFirst` that a key looked up in vain is in no row that was seen. Without
  these, the save of a row says nothing about the row it overwrites.
- `SchemaInvHolds`, `RecordsAreThere`, `LegacyMovesAsAWhole`, `SchemaInOrder`
  (`Core_proofs`), for any number of operators and scripts: each table has one migration
  that makes it (`Maker`), so that a revert takes away only what its own migration made, and
  after any number of migrations, reverts or failures what is recorded is there. That is an induction over the
  list of migrations, stated as a fact about sets of numbers (`AllNumbers`). For the legacy
  tables, who has moved one holds its lock alone (`MoversLock`), and as long as no script of
  the other direction has ended beside it, what a split or a rollback has moved was where
  it starts and what it has skipped is where it leads (`MovesInOrder`).
- `PlansInvHolds`, `EditsAreKept`, `PlansInOrder` (`Core_proofs`), for any number of
  administrators and saves: `NormalFacts` says what normalized settings consist of (what
  stands for each default, and the stored plans that neither have the id nor the code of
  one); `NormalKeepsAdded` that settings whose codes are in order (`Coded`) offer what was
  added as it was stored. The invariant says of what a request is about to save
  (`SavesWell`) that it has, of every added plan but its own, what is current unless a save
  made since its reading changed that, and that its codes are in order while none has
  clashed; of a deletion that no save was unaware of that the latest row and all that was
  read since lack it (`DeletionsHold`); and of an id that it is `Taken`: no later plan gets
  it. Without the last, a deleted plan could come back under a new plan's name.
- `BillingInOrder`, `ActiveSubscriptionsArePaidFor`, `AccountsInOrder`,
  `LimitsAreOverrunByFew`, `SubdomainsAreValid`, `StorefrontsAreNotShared`, `SitesInOrder`,
  `WithdrawnSitesAreDark` (`Business_proofs`), for any number of calls, orders, users,
  businesses and claims. A row is paid for because each request that is about to save says
  what it asks (`RequestsAsk`), and an update either finds the row as it had read it and
  leaves what this one request asks, or leaves columns of both (`LeftIsPaidFor`), of which an
  ACTIVE status has a writer that may write it. The overrun is a cardinality: what exists
  beyond the limit is
  no more than the requests that have passed the limit and not inserted, and since a key
  that is revoked makes room, `KeysAreBounded` is inductive only when it is said of every
  number from the limit up. What an administrator
  withdraws is dark from Commerce's answer on, before its row says so (`OffIsDark`), or a call
  was lost, two crossed, or another has switched it on.
- `SourcesInOrder`, `StoresShareTheirSource` (`Channels_proofs`), for any number of
  stores, requests and initializations: `PromisesHaveOwners` gives every promise in the
  map exactly one request that will take it away, and `PoolsAreKept` says an open pool
  is kept or still awaited, never both, so that no second one is opened.
- `ConnectingInOrder`, `PublicationsAreWhole`, `ConnectedAccountsWork`, `CartsInOrder`,
  `CartLinesArePriced`, `ReviewsInOrder`, `OwnersRepliesStand` (`Channels_proofs`), for
  any number of flows, publishers, carts, reviews, calls and tasks. A post is whole because
  the requests it has still to make tell whether it is online (`PostIsWhole`). An account that
  is shown as connected has the newest token of its row (`RowsHoldLatest`), given that what
  callbacks, disconnections and posts hold exists. A request that is to save a line of a cart
  has a price its item had since it read, and one that has still to read a price will find
  one of those (`Due`); a change of quantity keeps the price of the addition that is
  recorded, unless it was overtaken (`RequestStands`, `RowIsKept`). A review that one request
  at a time handles is known to it: those that wait know its task, the one that acts
  its row, and no task is posted twice (`HandledInTurn`, `PostedOnce`).
- `EachPartOfThePlatformActsAlone`, `PlatformInOrder`, `PromisesAreKept` (`Core_proofs`),
  `EachPartActsAlone`, `ChannelsInOrder` (`Channels_proofs`): a behaviour of a run that
  puts parts side by side is a behaviour of each part, so what is proved of a part is true
  of the run.

- `HistoryTellsTheTruth`, `OnlineAtMostOnce`, `QuietPostsAreSettled`
  (`SocialPublishing_proofs`), for any number of requests, workers and faults. Two
  invariants carry them. `HistoryInv`: a row that says PUBLISHED, stored or only read, is
  one of a post that is online, and the runs that have still to publish are counted among
  the log rows, so that the publications never outnumber these. `UndisturbedInv`: as long
  as nobody writes to the post while a worker has it, one job at most is active, and a
  post in between has a job, a hook or a cancellation that will settle it. `LogsFollow`
  reduces a step to what its one run adds to each side of the counts.

Every invariant and every action property the passing runs check is stated by one of
these theorems. Only model-checked: liveness (`RequestsFinish`, `CallsFinish`,
`TasksFinish`), which is beyond the prover, and the findings, whose runs are
counterexamples. Nothing that is proved uses a RECURSIVE operator; what recursion over data
computes (`Slugify`, and the state after a list of migrations as such) is evaluated by TLC,
and the theorems about subdomains use only that what is claimed was found valid.

The assumptions on constants are named in the modules that declare them and evaluated by
TLC on the runs: they bound numbers and say that sets of requests are finite, and beyond that
say `ClientsAssumption` (above), `NewIdsAssumption` (a created plan's id carries the
time), `LockedOnly` and `UniqueMatch` (hypotheses of the stock theorems only).

## 5. What disagrees with the documents

`PROJECT.json` quotes each with its line. With a run:

- `POST /orders` reserves without a lock and oversells (`orders_create_oversells`).
- A checkout orders the cart it read before its transaction and clears the one it reads
  after (`orders_cart_moved`).
- Cancelling a post whose job is active makes it a DRAFT that is published
  (`social_cancelled`).
- The confirmation of an old order and the checkout of another plan, saving at once, leave
  the plan that nobody has paid for ACTIVE (`billing_unpaid_active`): each of the two saves
  updates only the columns it found different.

Met while modelling, and visible in the models though no run is spent on them:

- As many checkouts as the pool has connections wait for each other for ever:
  each reads through the pool while it holds one (`Reload`, with `PoolSize` as small).
- An unrecoverable first attempt leaves a post PUBLISHING, because `onFailed` waits for
  the last attempt; nobody can then publish, schedule or delete it.
- The documented order, bootstrap and then migrations, fails at the Google tables:
  the bootstrap has made indexes the migration creates without `IF NOT EXISTS`.
- The normalization of the plans takes the first stored plan with the id or the tier, so
  `pro` is read back as `growth` after the first save of settings that hold `growth`; and a
  plan that is created with a default's code, which the form suggests, is gone at the next
  reading.
- An unpaid checkout already gives the plan's quotas (TRIALING counts as active), and a
  late notice about an older order sets the row PAST_DUE though a later one is paid.
- A claimed subdomain is set back by an administrator's status change that had read the row.
- The owner's approval says nothing of `isPublished` unless the content holds it: a website
  that was withdrawn stays dark while its row says PUBLISHED. The other way round, bodies are
  forwarded to Commerce as they are, so that the owner, or the store's administrator, can
  show a suspended website again by saying `isPublished`. The administration's decisions
  take every task for one of the website.
- `deployMobileApp` stores GENERATING before it queues; a refusal leaves it there.
- A product that is gone is added to the cart at price 0.
- Tokens are never refreshed, although the clients can; an account that was disconnected
  is active again when a row read before is saved after.
- `autoEligible` of a reply is stored and not read.

Two inventory rows of one product (`TwoRows` in `MCCommerceOrders`) violate
`StockConserved`: a line without variant may be released on another row than it was
reserved on. A post whose scheduled job has failed cannot be scheduled again, since the
kept job's id is ignored; `publishNow` may store PUBLISHING over the PUBLISHED of a fast
worker; and the queue makes 2 attempts where `social/README.md` says 4.

Eight hazards have no property of their own, and `PROJECT.json` says why at each: which row
of a product without variant is found
(`inventory.service.ts:111`, nothing says how variants match), which of a decision and the
runner's result should win (`processor.py:82`, the code checks no status and no document
decides), and the second publication after a crash between the platform and the database
(`social-publishing.processor.ts:92`, there is no idempotency key; `PublishedOnce` excludes
it), the pool that checkouts exhaust (a finding, with a pool no larger than they are), the
second output of a retry, which is charged to nobody, a post that an unrecoverable error or
a kept job leaves unsettled, and the stale write-back of a post. All of them can happen in
the models; where a property names what happened as an exception, it does so to say that
there is no other.

## 6. Not modelled

- **MCP server** (Go): it does not compile at this commit; a merge left `main.go`, `db.go`
  and `tools.go` with declarations that clash, so it has no behaviour to be faithful to.
- **Mobile app** configuration and store requests, **templates**, the **catalogue**,
  shipping and customers of Commerce: single reads and writes of one row, which
  `EntityTables` has in general and nothing else depends on.
- **Payments** of Commerce: the service calls the order update that `CommerceOrders` has.
- **Generation of social content**, media and the AI agents' prompts: sequential, and
  what a language model answers is data no property tells apart.
- **Queries**: paging, filters, joins and summaries only read.
- **Storefront, mobile client, admin pages** only call the services; **deployment** files
  have no state.

## 7. Plan

Done and proved: the safety of every part that is modelled, and that the parts of the two
composed runs do not disturb each other. Left, in order:

1. The liveness argument as far as it is safety, done for `CallsFinish` (`CallsAreNeverStuck`),
   for `RequestsFinish` and `TasksFinish`: the bound on what each request still has
   to do, which decreases with every step, and that who waits for a lock waits for somebody
   who can move.
2. An abstract specification of a task that is charged once for its work, for `AgentTasks`
   to implement; of a table whose calls are one step each, for `EntityTables` without
   overtaking.
3. `Billing` beside `UsageQuota`: the plan that a notification activates while reservations
   are open. The mobile app's status in `AgentTasks`.
4. `SocialPublishing`: the end of every job under fairness.
