---------------------------- MODULE EntityTables ----------------------------
(* The database library (applicationDb, adminDb, runnerDb): each call waits  *)
(* for the data source, finds a row and saves it again as a second statement.*)
(* `save' compares what it is given with the row of now and writes every     *)
(* column that differs; a row that is gone meanwhile it inserts again.       *)
EXTENDS Integers, Sequences, FiniteSets

CONSTANTS
  Callers,   \* calls in progress at once
  Keys,      \* e-mail addresses, domains, businesses, ... rows are looked up by
  Clients,   \* the entity clients that are checked
  MaxRows,   \* bound: rows created
  MaxWrites  \* bound: saves

ASSUME EntityAssumption == MaxRows \in Nat /\ MaxWrites \in Nat /\ Keys # {}

\* What the entity of a table says of its rows: whether they have a deletedAt,
\* and whether a column they are looked up by is unique.
Entity(soft, unique) == [soft |-> soft, unique |-> unique]
ApiUserEntity == Entity(FALSE, TRUE)
ApiBusinessEntity == Entity(FALSE, FALSE)
ApiWebsiteEntity == Entity(FALSE, TRUE)
ApiMobileAppEntity == Entity(FALSE, FALSE)
ApiSubscriptionEntity == Entity(FALSE, FALSE)
ApiSocialAccountEntity == Entity(TRUE, FALSE)
ApiSocialPostEntity == Entity(TRUE, FALSE)
ApiSocialPostMediaEntity == Entity(TRUE, FALSE)
ApiAiGenerationEntity == Entity(TRUE, FALSE)
ApiPublishingLogEntity == Entity(FALSE, FALSE)
ApiGoogleBusinessConnectionEntity == Entity(FALSE, FALSE)
ApiGoogleBusinessReviewEntity == Entity(FALSE, TRUE)
ApiMcpApiKeyEntity == Entity(FALSE, TRUE)
AdminUserEntity == Entity(FALSE, TRUE)
AdminAuditLogEntity == Entity(FALSE, FALSE)
AdminTemplateEntity == Entity(FALSE, FALSE)
RunnerAgentTaskEntity == Entity(FALSE, FALSE)
\* The index that a migration adds over the accounts that are not deleted.
Indexed(entity) == [entity EXCEPT !.unique = TRUE]

\* What a client offers besides its queries, how it deletes rows ("hard", "soft",
\* "no"), and whether a unique index covers its key.
EntityClient(offers, entity) ==
  [ops |-> offers \cup {"find"},
   deletes |-> IF "delete" \notin offers THEN "no" ELSE IF entity.soft THEN "soft" ELSE "hard",
   unique |-> entity.unique]
UserClient == EntityClient({"create", "update", "delete"}, ApiUserEntity)
BusinessClient == EntityClient({"create", "update"}, ApiBusinessEntity)
WebsiteClient == EntityClient({"upsert", "update", "delete"}, ApiWebsiteEntity)
MobileAppClient == EntityClient({"upsert", "update"}, ApiMobileAppEntity)
SubscriptionClient == EntityClient({"upsert"}, ApiSubscriptionEntity)
SocialAccountClient == EntityClient({"upsert", "update", "delete"}, Indexed(ApiSocialAccountEntity))
SocialPostClient == EntityClient({"create", "update", "delete"}, ApiSocialPostEntity)
SocialPostMediaClient == EntityClient({"create", "delete"}, ApiSocialPostMediaEntity)
AiGenerationClient == EntityClient({"create"}, ApiAiGenerationEntity)
PublishingLogClient == EntityClient({"create", "update"}, ApiPublishingLogEntity)
GoogleConnectionClient == EntityClient({"upsert"}, ApiGoogleBusinessConnectionEntity)
GoogleReviewClient == EntityClient({"upsert", "update"}, ApiGoogleBusinessReviewEntity)
McpApiKeyClient == EntityClient({"create", "update"}, ApiMcpApiKeyEntity)
AdminUserClient == EntityClient({"create"}, AdminUserEntity)
AuditLogClient == EntityClient({"create"}, AdminAuditLogEntity)
TemplateClient == EntityClient({"create", "update"}, AdminTemplateEntity)
AgentTaskClient == EntityClient({"create", "update"}, RunnerAgentTaskEntity)
AllClients ==
  {UserClient, BusinessClient, WebsiteClient, MobileAppClient, SubscriptionClient,
   SocialAccountClient, SocialPostClient, SocialPostMediaClient, AiGenerationClient,
   PublishingLogClient, GoogleConnectionClient, GoogleReviewClient, McpApiKeyClient,
   AdminUserClient, AuditLogClient, TemplateClient, AgentTaskClient}

\* Rows that are upserted without an index are created and deleted by nothing else.
ASSUME ClientsAssumption ==
  \A cl \in Clients :
    "upsert" \in cl.ops /\ ~cl.unique => cl.ops \cap {"create", "delete"} = {}

VARIABLES
  client,  \* the client in use
  table,   \* its rows in the order of their creation: key, state, two columns
  tcall,   \* tcall[c]: the call, where it is, and the row it has found
  source,  \* the data source: "none", "starting", "ready"
  writes,  \* number of saves
  asked,   \* history: the rows as they would be were each call one step
  stale    \* history: rows and keys of saves that something had changed meanwhile
tableVars == <<client, table, tcall, source, writes, asked, stale>>
rowVars == <<client, table, writes, asked, stale>>

Columns == {"a", "b"}
NoRow == [key |-> CHOOSE k \in Keys : TRUE, state |-> "gone", cols |-> [x \in Columns |-> 0], ver |-> 0]
NoTableCall == [at |-> "idle", op |-> "find", id |-> 0, key |-> CHOOSE k \in Keys : TRUE,
                col |-> "a", row |-> NoRow, seen |-> {}]
TablesInit ==
  /\ client \in Clients
  /\ table = << >>
  /\ tcall = [c \in Callers |-> NoTableCall]
  /\ source = "none"
  /\ writes = 0
  /\ asked = << >>
  /\ stale = {}

LiveRows(key) == {i \in DOMAIN table : table[i].state = "live" /\ table[i].key = key}
\* The unique index: over the key, among rows that are not deleted.
Unique(i, row) == client.unique /\ row.state = "live" => LiveRows(row.key) \subseteq {i}

TableCall(c, op, id, key, col) ==
  /\ tcall[c].at = "idle" /\ op \in client.ops
  /\ tcall' = [tcall EXCEPT ![c] = [NoTableCall EXCEPT !.at = "connect", !.op = op,
                                      !.id = id, !.key = key, !.col = col]]
  /\ UNCHANGED <<rowVars, source>>

\* ensureDataSourceInitialized: one initialize() for everybody who waits.
Connect(c) ==
  /\ tcall[c].at = "connect"
  /\ tcall' = [tcall EXCEPT ![c].at = IF source = "ready" THEN "find" ELSE "wait"]
  /\ source' = IF source = "none" THEN "starting" ELSE source
  /\ UNCHANGED rowVars
Initialized(ok) ==
  /\ source = "starting"
  /\ source' = IF ok THEN "ready" ELSE "none"
  /\ tcall' = [c \in Callers |-> IF tcall[c].at # "wait" THEN tcall[c]
                                 ELSE IF ok THEN [tcall[c] EXCEPT !.at = "find"] ELSE NoTableCall]
  /\ UNCHANGED rowVars
Disconnect ==
  /\ source = "ready"
  /\ source' = "none"
  /\ tcall' = [c \in Callers |-> NoTableCall]
  /\ UNCHANGED rowVars

\* Mutant: an upsert that looks its row up by an id it was not given.
FindRowById(c) ==
  /\ tcall[c].at = "find"
  /\ tcall' = [tcall EXCEPT ![c].at = "save", ![c].seen = DOMAIN table,
                 ![c].row = IF tcall[c].id = 0 THEN NoRow ELSE table[tcall[c].id]]
  /\ UNCHANGED <<rowVars, source>>
\* findOne: by id, or the live row of the key; a query is done then, and an
\* update or a deletion of a row that is not there fails.
FindRow(c) ==
  LET found == IF tcall[c].op = "upsert" THEN LiveRows(tcall[c].key)
               ELSE {i \in DOMAIN table : i = tcall[c].id /\ table[i].state # "gone"}
      Finds(id, row) == tcall' = [tcall EXCEPT ![c].at = "save", ![c].id = id, ![c].row = row,
                                                ![c].seen = DOMAIN table]
  IN  /\ tcall[c].at = "find"
      /\ \/ /\ tcall[c].op = "find" \/ (tcall[c].op \in {"update", "delete"} /\ found = {})
            /\ tcall' = [tcall EXCEPT ![c] = NoTableCall]
         \/ tcall[c].op \in {"create", "upsert"} /\ found = {} /\ Finds(0, NoRow)
         \/ \E id \in found :
              tcall[c].op # "find" /\ (\A k \in found : k <= id) /\ Finds(id, table[id])
      /\ UNCHANGED <<rowVars, source>>

\* What the call makes of a row: with the column it was given, or
\* marked deleted.
Changed(k, row) ==
  IF k.op = "delete"
  THEN [row EXCEPT !.state = IF client.deletes = "hard" THEN "gone" ELSE "deleted", !.ver = writes + 1]
  ELSE [row EXCEPT !.cols[k.col] = writes + 1, !.ver = writes + 1]
Fresh(k) == [key |-> k.key, state |-> "live", ver |-> writes + 1,
             cols |-> [x \in Columns |-> IF x = k.col THEN writes + 1 ELSE 0]]
EndCall(c) == tcall' = [tcall EXCEPT ![c] = NoTableCall]

\* Mutant: what is saved has the given column only, the others at their defaults.
SaveFoundBlank(c) ==
  LET k == tcall[c] IN
  /\ k.at = "save" /\ k.id # 0 /\ writes < MaxWrites
  /\ table' = [table EXCEPT ![k.id] = Changed(k, [k.row EXCEPT !.cols = NoRow.cols])]
  /\ asked' = [asked EXCEPT ![k.id] = Changed(k, @)]
  /\ writes' = writes + 1
  /\ EndCall(c)
  /\ UNCHANGED <<client, source, stale>>
\* save(existing) and delete; `stale' if the row was written since it was read.
SaveFound(c) ==
  LET k == tcall[c] IN
  /\ k.at = "save" /\ k.id # 0 /\ writes < MaxWrites
  /\ Unique(k.id, Changed(k, k.row))
  /\ table' = [table EXCEPT ![k.id] = Changed(k, k.row)]
  /\ asked' = [asked EXCEPT ![k.id] = Changed(k, @)]
  /\ writes' = writes + 1
  /\ stale' = IF table[k.id].ver = k.row.ver THEN stale ELSE stale \cup {k.id}
  /\ EndCall(c)
  /\ UNCHANGED <<client, source>>
\* save(create(...)); `stale' if somebody created a row since it was looked up.
SaveNew(c) ==
  LET k == tcall[c] IN
  /\ k.at = "save" /\ k.id = 0 /\ writes < MaxWrites /\ Len(table) < MaxRows
  /\ Unique(0, Fresh(k))
  /\ table' = Append(table, Fresh(k))
  /\ asked' = Append(asked, Fresh(k))
  /\ writes' = writes + 1
  /\ stale' = IF LiveRows(k.key) \subseteq k.seen THEN stale ELSE stale \cup {k.key}
  /\ EndCall(c)
  /\ UNCHANGED <<client, source>>
\* The unique index refuses the row.
Refused(c) ==
  LET k == tcall[c] IN
  /\ k.at = "save" /\ k.op # "delete"
  /\ ~Unique(k.id, IF k.id = 0 THEN Fresh(k) ELSE Changed(k, k.row))
  /\ EndCall(c)
  /\ UNCHANGED <<rowVars, source>>

TablesNext ==
  \/ \E c \in Callers :
       \/ \E key \in Keys, x \in Columns, op \in {"find", "create", "upsert"} : TableCall(c, op, 0, key, x)
       \/ \E i \in DOMAIN table, x \in Columns, op \in {"update", "delete"} :
            TableCall(c, op, i, table[i].key, x)
       \/ Connect(c) \/ FindRow(c) \/ SaveFound(c) \/ SaveNew(c) \/ Refused(c)
  \/ \E ok \in BOOLEAN : Initialized(ok)
  \/ Disconnect
TablesSpec == TablesInit /\ [][TablesNext]_tableVars

-----------------------------------------------------------------------------
TablesTypeOK ==
  /\ client \in Clients /\ source \in {"none", "starting", "ready"}
  /\ \A i \in DOMAIN table : table[i] \in
       [key : Keys, state : {"live", "deleted", "gone"}, cols : [Columns -> 0..MaxWrites],
        ver : 1..MaxWrites]
  /\ \A c \in Callers : tcall[c].at \in {"idle", "connect", "wait", "find", "save"}
  /\ stale \subseteq Keys \cup (1..MaxRows) /\ writes \in 0..MaxWrites

\* The library serves one call at a time as its caller would expect: a column
\* keeps what it was last given and a deleted row stays deleted, unless a save
\* of that row was based on a row that had changed since.
RowsAreAsAsked ==
  \A i \in DOMAIN table : i \notin stale =>
    table[i].cols = asked[i].cols /\ table[i].state = asked[i].state

\* Upserts create one row per business, domain, account or review: a second
\* one only where no unique index guards the key and two upserts looked for it
\* before either had created it.
OneRowPerKey ==
  "upsert" \in client.ops =>
    \A key \in Keys : Cardinality(LiveRows(key)) > 1 => ~client.unique /\ key \in stale
=============================================================================
