---------------------------- MODULE SchemaScripts ----------------------------
(* The scripts that create and move the tables of the platform: the          *)
(* bootstrap, the TypeORM migrations with their reverts, and the move of a   *)
(* legacy database from the public schema to one schema per service and back.*)
(* Each script is one transaction: it takes effect as a whole when it        *)
(* commits, or not at all.                                                   *)
EXTENDS Naturals, Sequences, FiniteSets, SequencesExt, Lists

CONSTANTS
  Operators,  \* scripts running at once
  MaxScripts  \* bound: scripts started

ASSUME SchemaAssumption == MaxScripts \in Nat

\* moves: the tables of the legacy schema and where they belong.
Moves ==
  <<[table |-> "User", target |-> "api"], [table |-> "Business", target |-> "api"],
    [table |-> "BusinessUser", target |-> "api"], [table |-> "Website", target |-> "api"],
    [table |-> "Product", target |-> "api"], [table |-> "SocialMediaPost", target |-> "api"],
    [table |-> "Template", target |-> "admin"], [table |-> "AgentTask", target |-> "runner"]>>
Legacy == {Moves[i].table : i \in DOMAIN Moves}

\* What the bootstrap creates where it is missing: tables, the indexes of the
\* Google tables by name, and types that later migrations are about.
Api(names) == {<<"api", n>> : n \in names}
ApiTables ==
  Api({"User", "businesses", "BusinessUser", "Website", "Subscription", "Product", "SocialMediaPost",
       "GoogleBusinessConnection", "GoogleBusinessReview"})
GoogleIndexes == Api({"IDX_GoogleBusinessConnection", "IDX_GoogleBusinessReview"})
AdminTables == {<<"admin", t>> : t \in {"Template", "AdminUser", "AdminAuditLog"}}
RunnerTables == {<<"runner", "AgentTask">>}
BaseEnums ==
  Api({"SubscriptionTier"}) \cup
  {<<"runner", v>> : v \in {"TaskType", "TaskStatus", "GOOGLE_REVIEW_REPLY", "PENDING_APPROVAL"}}
Bootstrapped == ApiTables \cup GoogleIndexes \cup AdminTables \cup RunnerTables \cup BaseEnums

\* A migration: what it needs, what it creates unless it is there, what it
\* creates without asking, what it drops; what its revert drops, what that
\* needs, and whose references to it stop the revert.
Migration(needs, makes) ==
  [needs |-> needs, makes |-> makes, fresh |-> {}, drops |-> {},
   undo |-> makes, undoNeeds |-> {}, refers |-> {}]
CreateApiBusinessesTable ==
  [Migration({}, Api({"businesses"})) EXCEPT
     !.undoNeeds = Api({"businesses"}),
     !.refers = Api({"BusinessUser", "Website", "Subscription", "GoogleBusinessConnection",
                     "GoogleBusinessReview", "McpApiKey", "MobileApp", "AiUsageEvent"})]
FixBusinessTableName == [Migration(Api({"BusinessUser"}), {}) EXCEPT !.drops = Api({"Business"})]
AddAdminControlFields ==
  [Migration(Api({"businesses", "User", "Website", "SubscriptionTier"}), Api({"Subscription"}))
     EXCEPT !.undoNeeds = Api({"businesses", "User", "Website"})]
CreateGoogleBusinessReviewTables ==
  [Migration(Api({"businesses"}), Api({"GoogleBusinessConnection", "GoogleBusinessReview"}))
     EXCEPT !.fresh = GoogleIndexes, !.undo = @ \cup GoogleIndexes]
SocialTables == Api({"SocialAccount", "SocialPost", "SocialPostMedia", "AiGeneration", "PublishingLog"})
CreateSocialMediaAgentTables == Migration(Api({"businesses"}), SocialTables)
CreateMcpApiKeyTable == Migration(Api({"businesses"}), Api({"McpApiKey"}))
CreateMobileAppTable == Migration(Api({"businesses"}), Api({"MobileApp"}))
AddMobileAppStoreFields ==
  [Migration(Api({"MobileApp"}), Api({"MobileAppStoreStatus"})) EXCEPT !.undoNeeds = Api({"MobileApp"})]
AddAiUsageQuotas ==
  [Migration(Api({"Subscription", "User", "businesses"}), Api({"AiUsagePeriod", "AiUsageEvent"}))
     EXCEPT !.undoNeeds = Api({"Subscription"})]
AddAdminUsersAndAuditLogs == Migration({}, {<<"admin", "AdminUser">>, <<"admin", "AdminAuditLog">>})
\* Values of the runner's types; PostgreSQL cannot remove them again.
EnumValue(type, value) == [Migration({<<"runner", type>>}, {<<"runner", value>>}) EXCEPT !.undo = {}]
AddGoogleReviewReplyTaskType == EnumValue("TaskType", "GOOGLE_REVIEW_REPLY")
AddPendingApprovalTaskStatus == EnumValue("TaskStatus", "PENDING_APPROVAL")
AddSocialPostPublishTaskType == EnumValue("TaskType", "SOCIAL_POST_PUBLISH")
AddMobileAppGenerationTaskType == EnumValue("TaskType", "MOBILE_APP_GENERATION")
\* Per database, in the order of their timestamps.
Migrations ==
  [app |-> <<CreateApiBusinessesTable, FixBusinessTableName, AddAdminControlFields,
             CreateGoogleBusinessReviewTables, CreateSocialMediaAgentTables, CreateMcpApiKeyTable,
             CreateMobileAppTable, AddMobileAppStoreFields, AddAiUsageQuotas>>,
   admin |-> <<AddAdminUsersAndAuditLogs>>,
   runner |-> <<AddGoogleReviewReplyTaskType, AddPendingApprovalTaskStatus,
                AddSocialPostPublishTaskType, AddMobileAppGenerationTaskType>>]
Databases == DOMAIN Migrations

VARIABLES
  objects,  \* the tables, indexes and types there are, with their schema
  applied,  \* applied[d]: the recorded migrations of a database, latest last
  op,       \* op[o]: the script an operator runs, and where it is
  locked,   \* locked[t]: who has moved the legacy table t and not committed
  ended,    \* history: how scripts ended, as <<script, database, how, and how
            \* many had ended when it began>>
  born      \* history: the objects of the beginning
schemaVars == <<objects, applied, op, locked, ended, born>>

Scripts == {"bootstrap", "split", "rollback", "migrate", "revert"}
NoScript == [name |-> "none", db |-> "app", step |-> 0, found |-> "", moved |-> [t \in Legacy |-> ""],
             seen |-> << >>, began |-> 0]
\* An empty database; a legacy one, with its tables in the public schema; or
\* one in use, with every migration recorded.
InUse == Bootstrapped \cup UNION {UNION {Migrations[d][i].makes : i \in DOMAIN Migrations[d]} : d \in DOMAIN Migrations}
SchemaInit ==
  /\ \/ /\ objects \in {{}, {<<"public", t>> : t \in Legacy}}
        /\ applied = [d \in Databases |-> << >>]
     \/ /\ objects = InUse
        /\ applied = [d \in Databases |-> [i \in DOMAIN Migrations[d] |-> i]]
  /\ op = [o \in Operators |-> NoScript]
  /\ locked = [t \in Legacy |-> {}]
  /\ ended = << >>
  /\ born = objects

Active == {o \in Operators : op[o].name # "none"}
End(o, how) ==
  /\ ended' = Append(ended, <<op[o].name, op[o].db, how, op[o].began>>)
  /\ op' = [op EXCEPT ![o] = NoScript]
  /\ locked' = [t \in Legacy |-> locked[t] \ {o}]
  /\ UNCHANGED born
\* A script connects; the migration commands read which are recorded.
Start(o, name, d) ==
  /\ op[o].name = "none" /\ Len(ended) + Cardinality(Active) < MaxScripts
  /\ op' = [op EXCEPT ![o] = [NoScript EXCEPT !.name = name, !.db = d, !.step = 1,
                                              !.seen = applied[d], !.began = Len(ended)]]
  /\ UNCHANGED <<objects, applied, locked, ended, born>>

\* Where the commands look for a table; the first match, if there is one.
SearchOrder(o) == IF op[o].name = "split" THEN <<"api", "admin", "runner", "public">>
                  ELSE <<"public", "api", "admin", "runner">>
Found(o, t) ==
  LET there == {k \in DOMAIN SearchOrder(o) : <<SearchOrder(o)[k], t>> \in objects}
  IN  {SearchOrder(o)[k] : k \in {i \in there : \A j \in there : i <= j}}
Target(o, i) == IF op[o].name = "split" THEN Moves[i].target ELSE "public"
Looking(o) == op[o].name \in {"split", "rollback"} /\ op[o].step \in DOMAIN Moves /\ op[o].found = ""
Altering(o) == op[o].name \in {"split", "rollback"} /\ op[o].found # ""

\* Look the next table up; it is where it belongs, or (rollback) nowhere: skip it.
Skip(o) ==
  LET t == Moves[op[o].step].table IN
  /\ Looking(o)
  /\ IF Found(o, t) = {} THEN op[o].name = "rollback" ELSE Found(o, t) = {Target(o, op[o].step)}
  /\ op' = [op EXCEPT ![o].step = @ + 1]
  /\ UNCHANGED <<objects, applied, locked, ended, born>>
Look(o) ==
  LET t == Moves[op[o].step].table IN
  /\ Looking(o)
  /\ \E s \in Found(o, t) \ {Target(o, op[o].step)} : op' = [op EXCEPT ![o].found = s]
  /\ UNCHANGED <<objects, applied, locked, ended, born>>
\* Mutant: nothing waits for a move that is not committed.
MoveTableAtOnce(o) ==
  LET t == Moves[op[o].step].table IN
  /\ Altering(o) /\ <<op[o].found, t>> \in objects
  /\ op' = [op EXCEPT ![o].moved[t] = op[o].found, ![o].found = "", ![o].step = @ + 1]
  /\ locked' = [locked EXCEPT ![t] = @ \cup {o}]
  /\ UNCHANGED <<objects, applied, ended, born>>
\* ALTER TABLE ... SET SCHEMA: waits for whoever has moved it and not committed.
MoveTable(o) ==
  LET t == Moves[op[o].step].table IN
  /\ Altering(o) /\ locked[t] = {}
  /\ <<op[o].found, t>> \in objects /\ <<Target(o, op[o].step), t>> \notin objects
  /\ op' = [op EXCEPT ![o].moved[t] = op[o].found, ![o].found = "", ![o].step = @ + 1]
  /\ locked' = [locked EXCEPT ![t] = {o}]
  /\ UNCHANGED <<objects, applied, ended, born>>
\* The split does not find a table; another script has moved it since, or the
\* target schema has one.
MoveFails(o) ==
  LET t == Moves[op[o].step].table IN
  /\ \/ Looking(o) /\ op[o].name = "split" /\ Found(o, t) = {}
     \/ /\ Altering(o) /\ locked[t] = {}
        /\ <<op[o].found, t>> \notin objects \/ <<Target(o, op[o].step), t>> \in objects
  /\ End(o, "failed")
  /\ UNCHANGED <<objects, applied>>
AllMoved(o) ==
  LET moved == {i \in DOMAIN Moves : op[o].moved[Moves[i].table] # ""} IN
  (objects \ {<<op[o].moved[Moves[i].table], Moves[i].table>> : i \in moved})
    \cup {<<Target(o, i), Moves[i].table>> : i \in moved}
MoveCommits(o) ==
  /\ op[o].name \in {"split", "rollback"} /\ op[o].step = Len(Moves) + 1
  /\ objects' = AllMoved(o)
  /\ End(o, "done")
  /\ UNCHANGED applied

Bootstrap(o) ==
  /\ op[o].name = "bootstrap"
  /\ objects' = objects \cup Bootstrapped
  /\ End(o, "done")
  /\ UNCHANGED applied

\* migration:run: every migration that was not recorded when it started, in
\* order and in one transaction, which one that cannot be applied undoes.
Runs(m, there) == m.needs \subseteq there /\ m.fresh \cap there = {}
After(m, there) == (there \cup m.makes \cup m.fresh) \ m.drops
All(o) == Migrations[op[o].db]
Pending(o) == DOMAIN All(o) \ ToSet(op[o].seen)
Upto(o) ==
  LET state[i \in 0..Len(All(o))] ==
        IF i = 0 THEN objects
        ELSE IF i \in Pending(o) THEN After(All(o)[i], state[i - 1]) ELSE state[i - 1]
  IN  state
AllRun(o) == \A i \in Pending(o) : Runs(All(o)[i], Upto(o)[i - 1])
Recorded(o) == applied[op[o].db] \o Kept([i \in DOMAIN All(o) |-> i], Pending(o))
\* Mutant: what fails is left half applied, and recorded.
MigrateRecorded(o) ==
  /\ op[o].name = "migrate"
  /\ objects' = IF AllRun(o) THEN Upto(o)[Len(All(o))] ELSE objects
  /\ applied' = [applied EXCEPT ![op[o].db] = Recorded(o)]
  /\ End(o, IF AllRun(o) THEN "done" ELSE "failed")
Migrate(o) ==
  /\ op[o].name = "migrate"
  /\ IF AllRun(o)
     THEN /\ objects' = Upto(o)[Len(All(o))]
          /\ applied' = [applied EXCEPT ![op[o].db] = Recorded(o)]
          /\ End(o, "done")
     ELSE End(o, "failed") /\ UNCHANGED <<objects, applied>>
\* migration:revert: the one that was recorded last when it started.
Revert(o) ==
  LET d == op[o].db
      m == Migrations[d][Last(op[o].seen)]
  IN  /\ op[o].name = "revert"
      /\ IF op[o].seen # << >> /\ m.undoNeeds \subseteq objects /\ m.refers \cap objects = {}
         THEN /\ objects' = objects \ m.undo
              /\ applied' = [applied EXCEPT ![d] = Kept(@, {k \in DOMAIN @ : @[k] # Last(op[o].seen)})]
              /\ End(o, "done")
         ELSE End(o, "failed") /\ UNCHANGED <<objects, applied>>
\* Mutant: no transaction, what was moved stays moved.
ScriptDiesMoved(o) ==
  /\ op[o].name # "none"
  /\ objects' = IF op[o].name \in {"split", "rollback"} THEN AllMoved(o) ELSE objects
  /\ End(o, "died")
  /\ UNCHANGED applied
\* The process dies: the server rolls its transaction back.
ScriptDies(o) ==
  /\ op[o].name # "none"
  /\ End(o, "died")
  /\ UNCHANGED <<objects, applied>>

SchemaNext ==
  \E o \in Operators :
    \/ \E name \in Scripts, d \in Databases :
         (name \in {"bootstrap", "split", "rollback"} => d = "app") /\ Start(o, name, d)
    \/ Skip(o) \/ Look(o) \/ MoveTable(o) \/ MoveFails(o) \/ MoveCommits(o)
    \/ Bootstrap(o) \/ Migrate(o) \/ Revert(o) \/ ScriptDies(o)
SchemaSpec == SchemaInit /\ [][SchemaNext]_schemaVars

-----------------------------------------------------------------------------
SchemaTypeOK ==
  /\ \A x \in objects : x[1] \in {"public", "api", "admin", "runner"}
  /\ \A d \in Databases : applied[d] \in Seq(DOMAIN Migrations[d])
  /\ \A o \in Operators : op[o].name \in Scripts \cup {"none"} /\ op[o].step \in 0..(Len(Moves) + 1)
  /\ \A t \in Legacy : locked[t] \subseteq Operators /\ Cardinality(locked[t]) <= 1

Ended(name) == \E i \in DOMAIN ended : ended[i][1] = name /\ ended[i][3] = "done"
HomeOf(t) == {Moves[i].target : i \in {k \in DOMAIN Moves : Moves[k].table = t}}

\* Scripts i and k ran at the same time.
Overlap(i, k) == i < k /\ ended[k][4] < i
Crossed == \E i, k \in DOMAIN ended : Overlap(i, k) /\ {ended[i][1], ended[k][1]} = {"split", "rollback"}

\* The split and its rollback move a legacy database as a whole, whatever dies
\* on the way: the tables are all in the public schema or each in the schema of
\* its service, until the bootstrap creates tables of their names or a migration
\* drops the old `Business' for good.  Only a split and a rollback at the same
\* time tear it apart: the rollback skips what the split has moved and not
\* committed, and moves back what it finds after the commit.
LegacyStaysTogether ==
  born = {<<"public", t>> : t \in Legacy} /\ ~Ended("bootstrap") /\ ~Ended("migrate") /\ ~Crossed =>
    \/ \A t \in Legacy : {x \in objects : x[2] = t} = {<<"public", t>>}
    \/ \A t \in Legacy : {x \in objects : x[2] = t} = {<<s, t>> : s \in HomeOf(t)}

\* What a migration that is recorded created is there: no failure, revert or
\* second operator leaves a record without its tables.
RecordedIsThere ==
  \A d \in Databases : \A i \in ToSet(applied[d]) :
    Migrations[d][i].makes \cup Migrations[d][i].fresh \subseteq objects
=============================================================================
