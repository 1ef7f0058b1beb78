---------------------- MODULE SocialPublishing_proofs ----------------------
(* The publishing history tells the truth (social-publishing.processor.ts),  *)
(* for any number of requests, workers and faults.                           *)
EXTENDS SocialPublishing, FiniteSetTheorems, TLAPS

RunPlaces ==
  {"none", "mark", "marking", "open", "account", "publish", "record", "finish", "finishing",
   "error", "thrown"}
Runs == [row : Posts, log : {"none"} \cup LogStatuses, final : BOOLEAN, at : RunPlaces, token : BOOLEAN]
Hooks == [at : {"none", "find", "save"}, row : Posts]
Calls == [kind : Kinds, at : {"idle", "queue", "find", "save", "done"}, row : Posts]

\* A job has attempts left while it is queued or running, and has a worker when
\* it is active; the job of a publish-now request is queued once.
JobsInOrder ==
  /\ WorkersInOrder
  /\ \A j \in Jobs : job[j] \in {"delayed", "waiting", "active"} => made[j] < Attempts
  /\ \A j \in Jobs : job[j] = "none" => made[j] = 0
  /\ \A q \in Requests : request[q].at \in {"idle", "queue"} => job[q] = "none"

Online == sent > 0
\* A row that says PUBLISHED, stored or read, is one of a post that is online.
RowsAreTrue ==
  /\ post.status = "PUBLISHED" => Online
  /\ \A q \in Requests : request[q].row.status = "PUBLISHED" => Online
  /\ \A j \in Jobs : work[j].row.status = "PUBLISHED" \/ hook[j].row.status = "PUBLISHED" => Online
  /\ \A j \in Jobs : work[j].at \in {"record", "finish", "finishing"} => Online

\* Runs that have still to publish, and runs whose log row has this status.
Coming == {j \in Jobs : work[j].at \in {"account", "publish"}}
Logging == {"account", "publish", "record", "finish", "finishing", "error"}
Logged(s) == {j \in Jobs : work[j].at \in Logging /\ work[j].log = s}
AllLogs == logs["PENDING"] + logs["SUCCESS"] + logs["RETRYING"] + logs["FAILED"]
\* Every run has a log row of its own from before it publishes, which is what the
\* number of publications is bounded by.
RunIsLogged(j) ==
  /\ work[j].at \in {"account", "publish", "record"} => work[j].log = "PENDING"
  /\ work[j].at \in {"finish", "finishing"} => work[j].log = "SUCCESS"
  /\ work[j].at = "error" => work[j].log = "PENDING" \/ (faults # 0 /\ work[j].log = "SUCCESS")
LogsInOrder ==
  /\ \A j \in Jobs : RunIsLogged(j)
  /\ Cardinality(Logged("PENDING")) <= logs["PENDING"]
  /\ Cardinality(Logged("SUCCESS")) <= logs["SUCCESS"]
  /\ sent + Cardinality(Coming) <= AllLogs
  /\ faults = 0 => sent = logs["SUCCESS"] + Cardinality(Recording)

HistoryInv == TypeOK /\ JobsInOrder /\ RowsAreTrue /\ LogsInOrder
-----------------------------------------------------------------------------
LEMMA JobsFinite == IsFiniteSet(Jobs)
BY PublishingAssumption, FS_AddElement DEF Jobs

Types ==
  /\ post \in Posts
  /\ account \in {"CONNECTED", "EXPIRED", "DELETED"}
  /\ request \in [Requests -> Calls]
  /\ job \in [Jobs -> {"none", "delayed", "waiting", "active", "completed", "failed"}]
  /\ made \in [Jobs -> 0..Attempts] /\ stalls \in [Jobs -> 0..MaxStalled]
  /\ work \in [Jobs -> Runs]
  /\ hook \in [Jobs -> Hooks]
  /\ logs \in [LogStatuses -> Nat] /\ sent \in Nat
  /\ disturbed \in BOOLEAN /\ faults \in 0..MaxFaults

LEMMA TypesOf == TypeOK <=> Types
BY DEF TypeOK, Types, Calls, Runs, RunPlaces, Hooks

LEMMA TypesNext == TypeOK' <=> Types'
BY DEF TypeOK, Types, Calls, Runs, RunPlaces, Hooks

One(b) == IF b THEN 1 ELSE 0
\* Two sets of jobs that agree on all jobs but one.
LEMMA CountMoves ==
  ASSUME NEW S \in SUBSET Jobs, NEW T \in SUBSET Jobs, NEW j \in Jobs, S \ {j} = T \ {j}
  PROVE  /\ Cardinality(S) \in Nat /\ Cardinality(T) \in Nat
         /\ Cardinality(S) >= One(j \in S)
         /\ Cardinality(T) = Cardinality(S) + One(j \in T) - One(j \in S)
<1> DEFINE R == S \ {j}
<1>1. IsFiniteSet(S) /\ IsFiniteSet(T) /\ IsFiniteSet(R)
  BY JobsFinite, FS_Subset
<1>2. Cardinality(R) \in Nat /\ Cardinality(S) \in Nat /\ Cardinality(T) \in Nat
  BY <1>1, FS_CardinalityType
<1>3. Cardinality(R \cup {j}) = Cardinality(R) + 1
  BY <1>1, FS_AddElement
<1>4. S = (IF j \in S THEN R \cup {j} ELSE R) /\ T = (IF j \in T THEN R \cup {j} ELSE R)
  OBVIOUS
<1> HIDE DEF R
<1>5. Cardinality(S) = Cardinality(R) + One(j \in S)
  BY <1>2, <1>3, <1>4 DEF One
<1>6. Cardinality(T) = Cardinality(R) + One(j \in T)
  BY <1>2, <1>3, <1>4 DEF One
<1>7. One(j \in S) \in 0..1 /\ One(j \in T) \in 0..1
  BY DEF One
<1> QED BY <1>2, <1>5, <1>6, <1>7

\* Bounds and balances on such sets stay when the one job's contribution follows.
LEMMA CountStaysBelow ==
  ASSUME NEW S \in SUBSET Jobs, NEW T \in SUBSET Jobs, NEW j \in Jobs, S \ {j} = T \ {j},
         NEW b \in Int, NEW c \in Int, Cardinality(S) <= b, One(j \in T) - One(j \in S) <= c - b
  PROVE  Cardinality(T) <= c
<1> DEFINE u == One(j \in S)   v == One(j \in T)   m == Cardinality(S)   n == Cardinality(T)
<1>1. u \in Int /\ v \in Int
  BY DEF One
<1>2. m \in Int /\ n \in Int /\ n = m + v - u
  BY CountMoves
<1>3. m <= b /\ v - u <= c - b
  OBVIOUS
<1>4. n <= c
  <2> HIDE DEF u, v, m, n
  <2> QED BY <1>1, <1>2, <1>3
<1> QED BY <1>4

LEMMA SumStaysBelow ==
  ASSUME NEW S \in SUBSET Jobs, NEW T \in SUBSET Jobs, NEW j \in Jobs, S \ {j} = T \ {j},
         NEW a \in Int, NEW b \in Int, NEW c \in Int, NEW d \in Int,
         a + Cardinality(S) <= c, (b - a) + One(j \in T) - One(j \in S) <= d - c
  PROVE  b + Cardinality(T) <= d
<1> DEFINE u == One(j \in S)   v == One(j \in T)   m == Cardinality(S)   n == Cardinality(T)
<1>1. u \in Int /\ v \in Int
  BY DEF One
<1>2. m \in Int /\ n \in Int /\ n = m + v - u
  BY CountMoves
<1>3. a + m <= c /\ (b - a) + v - u <= d - c
  OBVIOUS
<1>4. b + n <= d
  <2> HIDE DEF u, v, m, n
  <2> QED BY <1>1, <1>2, <1>3
<1> QED BY <1>4

\* A step of one run keeps the logs in order when its own contribution does.
LEMMA LogsFollow ==
  ASSUME LogsInOrder, TypeOK, TypeOK', NEW j \in Jobs,
         \A d \in Jobs \ {j} : work'[d] = work[d],
         RunIsLogged(j)',
         One(j \in Logged("PENDING")') - One(j \in Logged("PENDING")) <= logs'["PENDING"] - logs["PENDING"],
         One(j \in Logged("SUCCESS")') - One(j \in Logged("SUCCESS")) <= logs'["SUCCESS"] - logs["SUCCESS"],
         (sent' - sent) + One(j \in Coming') - One(j \in Coming) <= AllLogs' - AllLogs,
         faults' = 0 => /\ faults = 0
                        /\ sent' - sent = (logs'["SUCCESS"] - logs["SUCCESS"])
                                            + One(j \in Recording') - One(j \in Recording)
  PROVE  LogsInOrder'
<1>1. /\ faults \in Nat /\ faults' \in Nat /\ sent \in Nat /\ sent' \in Nat
      /\ \A s \in LogStatuses : logs[s] \in Nat /\ logs'[s] \in Nat
  BY PublishingAssumption DEF TypeOK
<1>2. \A d \in Jobs : RunIsLogged(d)'
  <2>1. faults' = 0 => faults = 0
    OBVIOUS
  <2> QED BY <2>1 DEF LogsInOrder, RunIsLogged
<1>3. \A s \in {"PENDING", "SUCCESS"} : Cardinality(Logged(s)') <= logs'[s]
  <2> SUFFICES ASSUME NEW s \in {"PENDING", "SUCCESS"}
               PROVE  Cardinality(Logged(s)') <= logs'[s]
    OBVIOUS
  <2>1. Logged(s) \in SUBSET Jobs /\ Logged(s)' \in SUBSET Jobs /\ Logged(s) \ {j} = Logged(s)' \ {j}
    BY DEF Logged
  <2>2. Cardinality(Logged(s)) <= logs[s]
    BY DEF LogsInOrder
  <2>3. One(j \in Logged(s)') - One(j \in Logged(s)) <= logs'[s] - logs[s]
    OBVIOUS
  <2>4. logs[s] \in Int /\ logs'[s] \in Int
    BY <1>1 DEF LogStatuses
  <2> QED BY <2>1, <2>2, <2>3, <2>4, CountStaysBelow
<1>4. sent' + Cardinality(Coming') <= AllLogs'
  <2>1. Coming \in SUBSET Jobs /\ Coming' \in SUBSET Jobs /\ Coming \ {j} = Coming' \ {j}
    BY DEF Coming
  <2>2. sent + Cardinality(Coming) <= AllLogs
    BY DEF LogsInOrder
  <2>3. sent \in Int /\ sent' \in Int /\ AllLogs \in Int /\ AllLogs' \in Int
    BY <1>1 DEF AllLogs, LogStatuses
  <2> QED BY <2>1, <2>2, <2>3, SumStaysBelow
<1>5. faults' = 0 => sent' = logs'["SUCCESS"] + Cardinality(Recording')
  <2> SUFFICES ASSUME faults' = 0
               PROVE  sent' = logs'["SUCCESS"] + Cardinality(Recording')
    OBVIOUS
  <2>1. Recording \in SUBSET Jobs /\ Recording' \in SUBSET Jobs /\ Recording \ {j} = Recording' \ {j}
    BY DEF Recording
  <2>2. sent = logs["SUCCESS"] + Cardinality(Recording)
    BY DEF LogsInOrder
  <2>3. sent \in Int /\ sent' \in Int /\ logs["SUCCESS"] \in Int /\ logs'["SUCCESS"] \in Int
    BY <1>1 DEF LogStatuses
  <2>4. sent' - sent = (logs'["SUCCESS"] - logs["SUCCESS"]) + One(j \in Recording') - One(j \in Recording)
    OBVIOUS
  <2> DEFINE u == One(j \in Recording)   v == One(j \in Recording')
             m == Cardinality(Recording)   n == Cardinality(Recording')
             o == logs["SUCCESS"]          p == logs'["SUCCESS"]
             x == sent                     y == sent'
  <2>5. m \in Int /\ n \in Int /\ n = m + v - u
    BY <2>1, CountMoves
  <2>6. u \in Int /\ v \in Int /\ o \in Int /\ p \in Int /\ x = o + m /\ y - x = (p - o) + v - u
    BY <2>2, <2>3, <2>4 DEF One
  <2>7. x \in Int /\ y \in Int
    BY <2>3
  <2>8. y = p + n
    <3> HIDE DEF u, v, m, n, o, p, x, y
    <3> QED BY <2>5, <2>6, <2>7
  <2> QED BY <2>8
<1> QED BY <1>2, <1>3, <1>4, <1>5 DEF LogsInOrder

\* A log row is opened, or changes its status.
LEMMA LogMoves ==
  ASSUME TypeOK, NEW j \in Jobs, NEW from \in {"none", "PENDING", "SUCCESS"}, NEW to \in LogStatuses,
         from # to, Log(j, from, to), from # "none" => logs[from] > 0
  PROVE  /\ logs' \in [LogStatuses -> Nat]
         /\ \A s \in LogStatuses : logs'[s] = logs[s] + One(s = to) - One(s = from)
         /\ AllLogs' = AllLogs + One(from = "none")
<1>1. logs \in [LogStatuses -> Nat]
  BY DEF TypeOK
<1>2. \A s \in LogStatuses : logs'[s] = logs[s] + One(s = to) - One(s = from)
  BY DEF Log, One
<1>3. \A s \in LogStatuses : logs'[s] \in Nat
  <2> SUFFICES ASSUME NEW s \in LogStatuses PROVE logs'[s] \in Nat
    OBVIOUS
  <2>1. logs[s] \in Nat /\ logs'[s] = logs[s] + One(s = to) - One(s = from) /\ One(s = to) \in {0, 1}
    BY <1>1, <1>2 DEF One
  <2>2. CASE s = from
    <3>1. logs[s] > 0 /\ One(s = from) = 1
      BY <2>2 DEF One, LogStatuses
    <3> QED BY <2>1, <3>1
  <2>3. CASE s # from
    <3>1. One(s = from) = 0
      BY <2>3 DEF One
    <3> QED BY <2>1, <3>1
  <2> QED BY <2>2, <2>3
<1>4. logs' \in [LogStatuses -> Nat]
  BY <1>3 DEF Log
<1>5. AllLogs' = AllLogs + One(from = "none")
  BY <1>1, <1>2 DEF AllLogs, LogStatuses, One
<1> QED BY <1>2, <1>4, <1>5
-----------------------------------------------------------------------------
LEMMA HistoryInit == Init => HistoryInv
<1> SUFFICES ASSUME Init PROVE HistoryInv
  OBVIOUS
<1>1. TypeOK
  <2>1. Draft \in Posts
    BY DEF Draft, Posts
  <2>2. Idle \in Runs /\ NoHook \in Hooks
    BY <2>1 DEF Idle, NoHook, Runs, RunPlaces, Hooks
  <2>3. [kind |-> "edit", at |-> "idle", row |-> Draft] \in Calls
    BY <2>1 DEF Calls, Kinds
  <2>4. post \in Posts /\ request \in [Requests -> Calls] /\ work \in [Jobs -> Runs] /\ hook \in [Jobs -> Hooks]
    BY <2>1, <2>2, <2>3 DEF Init
  <2>5. /\ job \in [Jobs -> {"none", "delayed", "waiting", "active", "completed", "failed"}]
        /\ made \in [Jobs -> 0..Attempts] /\ stalls \in [Jobs -> 0..MaxStalled]
        /\ logs \in [LogStatuses -> Nat]
    BY DEF Init, Attempts, MaxStalled
  <2>6. account \in {"CONNECTED", "EXPIRED", "DELETED"} /\ sent \in Nat /\ disturbed \in BOOLEAN
        /\ faults \in 0..MaxFaults
    <3>1. disturbed \in BOOLEAN
      BY Zenon DEF Init
    <3>2. account \in {"CONNECTED", "EXPIRED", "DELETED"}
      BY Zenon DEF Init
    <3> QED BY <3>1, <3>2, PublishingAssumption DEF Init
  <2> QED BY <2>4, <2>5, <2>6, TypesOf DEF Types
<1>2. Active = {} /\ Coming = {} /\ Recording = {} /\ Logged("PENDING") = {} /\ Logged("SUCCESS") = {}
  BY DEF Init, Active, Coming, Recording, Logged, Logging, Idle
<1>3. Cardinality({}) = 0
  BY FS_EmptySet
<1>4. JobsInOrder
  BY <1>2, <1>3, PublishingAssumption DEF Init, JobsInOrder, WorkersInOrder, Idle, Attempts, Jobs
<1>5. RowsAreTrue
  BY DEF Init, RowsAreTrue, Draft, Idle, NoHook
<1>6. LogsInOrder
  <2>1. \A j \in Jobs : RunIsLogged(j)
    BY DEF Init, RunIsLogged, Idle
  <2>2. \A t \in LogStatuses : logs[t] = 0
    BY DEF Init
  <2>3. logs["PENDING"] = 0 /\ logs["SUCCESS"] = 0 /\ logs["RETRYING"] = 0 /\ logs["FAILED"] = 0 /\ sent = 0
    BY <2>2 DEF LogStatuses, Init
  <2> QED BY <1>2, <1>3, <2>1, <2>3 DEF LogsInOrder, AllLogs
<1> QED BY <1>1, <1>4, <1>5, <1>6 DEF HistoryInv

\* Fewer jobs are active, or the same.
LEMMA WorkersStay ==
  ASSUME JobsInOrder, TypeOK, TypeOK', Active' \subseteq Active
  PROVE  Cardinality(Active') <= Workers
<1>1. IsFiniteSet(Active)
  BY JobsFinite, FS_Subset DEF Active
<1>2. Cardinality(Active') <= Cardinality(Active) /\ IsFiniteSet(Active')
  BY <1>1, FS_Subset
<1>3. Cardinality(Active) \in Nat /\ Cardinality(Active') \in Nat
  BY <1>1, <1>2, FS_CardinalityType
<1> QED BY <1>2, <1>3, PublishingAssumption DEF JobsInOrder, WorkersInOrder

\* What leaves the jobs' runs and the history alone.
LEMMA LogsStay ==
  ASSUME LogsInOrder, UNCHANGED <<work, logs, sent>>, faults' = 0 => faults = 0
  PROVE  LogsInOrder'
<1>1. /\ Coming' = Coming /\ Recording' = Recording /\ AllLogs' = AllLogs
      /\ Logged("PENDING")' = Logged("PENDING") /\ Logged("SUCCESS")' = Logged("SUCCESS")
  BY DEF Coming, Recording, AllLogs, Logged
<1>2. \A j \in Jobs : RunIsLogged(j)'
  BY DEF LogsInOrder, RunIsLogged
<1> QED BY <1>1, <1>2 DEF LogsInOrder

\* No job is started, ended or put back, and nobody leaves the queueing of jobs.
LEMMA JobsStay ==
  ASSUME JobsInOrder, TypeOK, TypeOK', UNCHANGED <<job, made>>,
         \A j \in Jobs : work'[j].at = "none" <=> work[j].at = "none",
         \A q \in Requests : request'[q].at \in {"idle", "queue"} => request[q].at \in {"idle", "queue"}
  PROVE  JobsInOrder'
<1>1. Active' = Active
  BY DEF Active
<1>2. Cardinality(Active') <= Workers
  BY <1>1, WorkersStay
<1>3. \A j \in Jobs : job'[j] = "active" <=> work'[j].at # "none"
  BY DEF JobsInOrder, WorkersInOrder
<1> QED BY <1>2, <1>3 DEF JobsInOrder, WorkersInOrder

\* What an update makes of the row it has read.
LEMMA StatusWritten ==
  ASSUME NEW row \in Posts,
         NEW status \in {"DRAFT", "SCHEDULED", "PUBLISHING", "PUBLISHED", "FAILED", "CANCELLED"}
  PROVE  LET new == [row EXCEPT !.status = status] IN new \in Posts /\ new.status = status
BY DEF Posts

LEMMA DraftRow == Draft \in Posts /\ Draft.status = "DRAFT"
BY DEF Draft, Posts

\* What a request makes of a row says PUBLISHED only if the row did.
LEMMA ChangedRow ==
  ASSUME NEW row \in Posts, NEW kind \in Kinds
  PROVE  /\ Changed(kind, row) \in Posts
         /\ Changed(kind, row).status = "PUBLISHED" => row.status = "PUBLISHED"
<1>1. CASE kind = "delete"
  BY <1>1 DEF Changed, Posts
<1>2. CASE kind = "edit"
  BY <1>2 DEF Changed
<1>3. CASE kind = "publishNow"
  BY <1>3, StatusWritten DEF Changed
<1>4. CASE kind = "schedule"
  BY <1>4, StatusWritten DEF Changed
<1>5. CASE kind = "cancel"
  BY <1>5, StatusWritten DEF Changed
<1> QED BY <1>1, <1>2, <1>3, <1>4, <1>5 DEF Kinds
-----------------------------------------------------------------------------
(* The requests of the owner, and the account *)

LEMMA FaultCounted == ASSUME TypeOK, Fault PROVE faults' \in 0..MaxFaults /\ faults' # 0
BY PublishingAssumption DEF TypeOK, Fault

\* A request that leaves the queues of jobs, the workers and the post alone.
LEMMA RequestsMoveOn ==
  ASSUME HistoryInv, NEW q \in Requests, NEW call \in Calls,
         request' = [request EXCEPT ![q] = call],
         call.row.status = "PUBLISHED" => Online,
         call.at \in {"idle", "queue"} => request[q].at \in {"idle", "queue"},
         post' \in Posts, post'.status = "PUBLISHED" => Online,
         disturbed' \in BOOLEAN, faults' \in 0..MaxFaults, faults' = 0 => faults = 0,
         UNCHANGED <<account, job, made, stalls, work, hook, logs, sent>>
  PROVE  HistoryInv'
<1>1. TypeOK'
  BY TypesOf, TypesNext DEF HistoryInv, Types
<1>2. JobsInOrder'
  <2>1. \A p \in Requests : request'[p] = IF p = q THEN call ELSE request[p]
    BY TypesOf DEF HistoryInv, Types
  <2> QED BY <1>1, <2>1, JobsStay DEF HistoryInv
<1>3. RowsAreTrue'
  BY TypesOf DEF HistoryInv, Types, RowsAreTrue, Online
<1>4. LogsInOrder'
  BY LogsStay DEF HistoryInv
<1> QED BY <1>1, <1>2, <1>3, <1>4 DEF HistoryInv

\* The queues of jobs change, and with them the one request that asked for it.
LEMMA QueueingKeepsHistory ==
  ASSUME HistoryInv, NEW q \in Requests, EnqueueNow(q) \/ EnqueueLater(q) \/ RemoveJob(q)
  PROVE  HistoryInv'
<1> DEFINE states == {"none", "delayed", "waiting", "active", "completed", "failed"}
<1>1. /\ request \in [Requests -> Calls] /\ TypeOK /\ JobsInOrder
      /\ job \in [Jobs -> states] /\ made \in [Jobs -> 0..Attempts] /\ stalls \in [Jobs -> 0..MaxStalled]
  BY TypesOf DEF HistoryInv, Types
<1>2. /\ UNCHANGED <<post, account, work, hook, logs, sent, disturbed, faults>>
      /\ request' = [request EXCEPT ![q].at = "find"] /\ request[q].at = "queue"
  BY DEF EnqueueNow, EnqueueLater, RemoveJob, ToFind
<1>3. /\ request' \in [Requests -> Calls]
      /\ \A p \in Requests : /\ request'[p].row = request[p].row
                             /\ request'[p].at = IF p = q THEN "find" ELSE request[p].at
  BY <1>1, <1>2 DEF Calls
<1>4. PICK d \in Jobs, state \in {"none", "delayed", "waiting"} :
        /\ job[d] = "active" => job' = job
        /\ job' = job \/ job' = [job EXCEPT ![d] = state]
        /\ \/ made' = made /\ stalls' = stalls /\ (job' = job \/ (job[d] = "none" /\ state # "none"))
           \/ /\ d = Scheduled /\ state = "none" /\ job' = [job EXCEPT ![d] = state]
              /\ made' = [made EXCEPT ![d] = 0] /\ stalls' = [stalls EXCEPT ![d] = 0]
  <2>1. CASE EnqueueNow(q)
    BY <1>1, <2>1 DEF EnqueueNow, ToFind, JobsInOrder, Jobs
  <2>2. CASE EnqueueLater(q)
    BY <1>1, <2>2 DEF EnqueueLater, ToFind, Jobs
  <2>3. CASE RemoveJob(q)
    BY <1>1, <2>3 DEF RemoveJob, Jobs
  <2> QED BY <2>1, <2>2, <2>3
<1>5. /\ job' \in [Jobs -> states] /\ made' \in [Jobs -> 0..Attempts] /\ stalls' \in [Jobs -> 0..MaxStalled]
  BY <1>1, <1>4 DEF Attempts, MaxStalled
<1>6. TypeOK'
  BY <1>1, <1>2, <1>3, <1>5, TypesOf, TypesNext DEF Types
<1>7. JobsInOrder'
  <2>1. \A j \in Jobs : job'[j] = "active" <=> job[j] = "active"
    BY <1>1, <1>4
  <2>2. Active' \subseteq Active
    BY <2>1 DEF Active
  <2>3. Cardinality(Active') <= Workers
    BY <1>1, <1>6, <2>2, WorkersStay
  <2>4. \A j \in Jobs : job'[j] = "active" <=> work'[j].at # "none"
    BY <1>1, <1>2, <2>1 DEF JobsInOrder, WorkersInOrder
  <2>5. \A j \in Jobs : job'[j] \in {"delayed", "waiting", "active"} => made'[j] < Attempts
    BY <1>1, <1>4 DEF JobsInOrder, Attempts
  <2>8. \A j \in Jobs : job'[j] = "none" => made'[j] = 0
    BY <1>1, <1>4 DEF JobsInOrder
  <2>6. \A p \in Requests : request'[p].at \in {"idle", "queue"} => job'[p] = "none"
    <3> SUFFICES ASSUME NEW p \in Requests, request'[p].at \in {"idle", "queue"} PROVE job'[p] = "none"
      OBVIOUS
    <3>1. p # q /\ job[p] = "none" /\ p \in Jobs
      BY <1>1, <1>3 DEF JobsInOrder, Jobs
    <3>2. CASE EnqueueNow(q)
      BY <1>1, <3>1, <3>2 DEF EnqueueNow
    <3>3. CASE EnqueueLater(q) \/ RemoveJob(q)
      BY <1>1, <3>1, <3>3, PublishingAssumption DEF EnqueueLater, RemoveJob
    <3> QED BY <3>2, <3>3
  <2>7. WorkersInOrder'
    BY <2>3, <2>4 DEF WorkersInOrder
  <2> QED BY <2>5, <2>6, <2>7, <2>8, Zenon DEF JobsInOrder
<1>8. RowsAreTrue'
  BY <1>2, <1>3 DEF HistoryInv, RowsAreTrue, Online
<1>9. LogsInOrder'
  BY <1>2, LogsStay DEF HistoryInv
<1> QED BY <1>6, <1>7, <1>8, <1>9 DEF HistoryInv

\* Every step of a request.
LEMMA OwnerKeepsHistory ==
  ASSUME HistoryInv, NEW q \in Requests, Serve(q)
  PROVE  HistoryInv'
<1> DEFINE places == {"idle", "queue", "find", "save", "done"}
<1>1. /\ request \in [Requests -> Calls] /\ request[q] \in Calls /\ request[q].row \in Posts
      /\ request[q].kind \in Kinds /\ request[q].at \in places
      /\ post \in Posts /\ disturbed \in BOOLEAN /\ faults \in 0..MaxFaults /\ TypeOK
  BY TypesOf DEF HistoryInv, Types, Calls
<1>2. /\ request[q].row.status = "PUBLISHED" => Online
      /\ post.status = "PUBLISHED" => Online
  BY DEF HistoryInv, RowsAreTrue
<1>3. ASSUME NEW kind \in Kinds, Start(q, kind) PROVE HistoryInv'
  <2> DEFINE at == IF kind \in {"delete", "edit"} THEN "find" ELSE "queue"
             call == [request[q] EXCEPT !.kind = kind, !.at = at]
  <2>1. call \in Calls /\ call.row = request[q].row
    BY <1>1 DEF Calls
  <2>2. request' = [request EXCEPT ![q] = call] /\ request[q].at = "idle"
    BY <1>1, <1>3 DEF Start
  <2>3. UNCHANGED <<post, account, job, made, stalls, work, hook, logs, sent, disturbed, faults>>
    BY <1>3 DEF Start, bull
  <2> HIDE DEF call
  <2> QED BY <1>1, <1>2, <2>1, <2>2, <2>3, RequestsMoveOn
<1>4. CASE EnqueueNow(q)
  BY <1>4, QueueingKeepsHistory
<1>5. CASE EnqueueLater(q) \/ RemoveJob(q)
  BY <1>5, QueueingKeepsHistory
<1>6. CASE EnqueueFails(q)
  <2> DEFINE call == [request[q] EXCEPT !.at = "done", !.row = Draft]
  <2>1. call \in Calls /\ call.row = Draft /\ call.at = "done"
    BY <1>1, DraftRow DEF Calls
  <2>2. request' = [request EXCEPT ![q] = call]
    BY <1>1, <1>6 DEF EnqueueFails, End
  <2> HIDE DEF call
  <2> QED BY <1>1, <1>2, <1>6, <2>1, <2>2, DraftRow, RequestsMoveOn DEF EnqueueFails, bull
<1>7. CASE FindPost(q)
  <2> DEFINE call == [request[q] EXCEPT !.at = "save", !.row = post]
  <2>1. call \in Calls /\ call.row = post /\ call.at = "save"
    BY <1>1 DEF Calls
  <2>2. request' = [request EXCEPT ![q] = call]
    BY <1>1, <1>7 DEF FindPost
  <2> HIDE DEF call
  <2> QED BY <1>1, <1>2, <1>7, <2>1, <2>2, RequestsMoveOn DEF FindPost, bull
<1>8. CASE SavePost(q)
  <2> DEFINE call == [request[q] EXCEPT !.at = "done", !.row = Draft]
  <2>1. call \in Calls /\ call.row = Draft /\ call.at = "done"
    BY <1>1, DraftRow DEF Calls
  <2>2. request' = [request EXCEPT ![q] = call]
    BY <1>1, <1>8 DEF SavePost, End
  <2>3. post' \in Posts /\ (post'.status = "PUBLISHED" => Online)
    BY <1>1, <1>2, <1>8, ChangedRow DEF SavePost
  <2>4. disturbed' \in BOOLEAN
    BY <1>8, Zenon DEF SavePost
  <2> HIDE DEF call
  <2> QED BY <1>1, <1>8, <2>1, <2>2, <2>3, <2>4, DraftRow, RequestsMoveOn DEF SavePost, bull
<1>9. CASE RequestLost(q)
  <2> DEFINE call == [request[q] EXCEPT !.at = "done", !.row = Draft]
  <2>1. call \in Calls /\ call.row = Draft /\ call.at = "done"
    BY <1>1, DraftRow DEF Calls
  <2>2. request' = [request EXCEPT ![q] = call]
    BY <1>1, <1>9 DEF RequestLost, End
  <2>3. faults' \in 0..MaxFaults /\ faults' # 0
    BY <1>1, <1>9, FaultCounted DEF RequestLost
  <2> HIDE DEF call
  <2> QED BY <1>1, <1>2, <1>9, <2>1, <2>2, <2>3, DraftRow, RequestsMoveOn DEF RequestLost, bull
<1> QED BY <1>3, <1>4, <1>5, <1>6, <1>7, <1>8, <1>9 DEF Serve

LEMMA AccountKeepsHistory ==
  ASSUME HistoryInv, Disconnect \/ Reconnect
  PROVE  HistoryInv'
<1>1. /\ UNCHANGED <<post, request, job, made, stalls, work, hook, logs, sent, disturbed, faults>>
      /\ account' \in {"CONNECTED", "EXPIRED", "DELETED"}
  BY DEF Disconnect, Reconnect, bull
<1>2. TypeOK'
  BY <1>1, TypesOf, TypesNext DEF HistoryInv, Types
<1>3. JobsInOrder'
  BY <1>1, <1>2, JobsStay DEF HistoryInv
<1>4. RowsAreTrue'
  BY <1>1 DEF HistoryInv, RowsAreTrue, Online
<1>5. LogsInOrder'
  BY <1>1, LogsStay DEF HistoryInv
<1> QED BY <1>2, <1>3, <1>4, <1>5 DEF HistoryInv
-----------------------------------------------------------------------------
(* The workers *)

\* What a worker's run is before and after its step.
LEMMA RunOf ==
  ASSUME TypeOK, NEW j \in Jobs
  PROVE  /\ work[j] \in Runs /\ work[j].row \in Posts /\ work[j].at \in RunPlaces
         /\ work[j].log \in {"none"} \cup LogStatuses /\ work[j].final \in BOOLEAN /\ work[j].token \in BOOLEAN
BY TypesOf DEF Types, Runs

LEMMA RunMoves ==
  ASSUME TypeOK, NEW j \in Jobs, NEW run \in Runs, work' = [work EXCEPT ![j] = run]
  PROVE  /\ work' \in [Jobs -> Runs] /\ work'[j] = run
         /\ \A d \in Jobs \ {j} : work'[d] = work[d]
         /\ \A t \in LogStatuses : j \in Logged(t)' <=> run.at \in Logging /\ run.log = t
         /\ j \in Coming' <=> run.at \in {"account", "publish"}
         /\ j \in Recording' <=> run.at = "record"
BY TypesOf DEF Types, Logged, Coming, Recording

\* A run with a log row is counted by its status.
LEMMA LoggedRow ==
  ASSUME HistoryInv, NEW t \in {"PENDING", "SUCCESS"}, NEW j \in Logged(t)
  PROVE  logs[t] > 0
<1>1. j \in Jobs /\ Logged(t) \in SUBSET Jobs
  BY DEF Logged
<1>2. Cardinality(Logged(t)) \in Nat /\ Cardinality(Logged(t)) >= One(j \in Logged(t))
  BY <1>1, CountMoves
<1>3. Cardinality(Logged(t)) <= logs[t]
  BY DEF HistoryInv, LogsInOrder
<1>4. logs[t] \in Nat
  BY TypesOf DEF HistoryInv, Types, LogStatuses
<1>5. One(j \in Logged(t)) = 1
  BY DEF One
<1> QED BY <1>2, <1>3, <1>4, <1>5

\* A step of a worker that goes on with its job.
LEMMA RunMovesOn ==
  ASSUME HistoryInv, NEW j \in Jobs, NEW run \in Runs, work' = [work EXCEPT ![j] = run],
         run.at # "none", work[j].at # "none",
         run.row.status = "PUBLISHED" => sent' > 0,
         run.at \in {"record", "finish", "finishing"} => sent' > 0,
         post' \in Posts, post'.status = "PUBLISHED" => sent' > 0,
         account' \in {"CONNECTED", "EXPIRED", "DELETED"}, logs' \in [LogStatuses -> Nat],
         sent' \in Nat, sent > 0 => sent' > 0, disturbed' \in BOOLEAN, faults' \in 0..MaxFaults,
         UNCHANGED <<request, job, made, stalls, hook>>
  PROVE  TypeOK' /\ JobsInOrder' /\ RowsAreTrue'
<1>1. work' \in [Jobs -> Runs] /\ work'[j] = run /\ \A d \in Jobs \ {j} : work'[d] = work[d]
  BY RunMoves DEF HistoryInv
<1>2. TypeOK'
  BY <1>1, TypesOf, TypesNext DEF HistoryInv, Types
<1>3. JobsInOrder'
  BY <1>1, <1>2, JobsStay DEF HistoryInv
<1>4. RowsAreTrue'
  BY <1>1 DEF HistoryInv, RowsAreTrue, Online
<1> QED BY <1>2, <1>3, <1>4

\* A step that leaves the log rows alone: the run keeps its row, or drops it, and
\* when the post goes online it is a run that was still to publish.
WritesTruth(run) ==
  /\ run.row.status = "PUBLISHED" => sent' > 0
  /\ run.at \in {"record", "finish", "finishing"} => sent' > 0
  /\ post' \in Posts /\ (post'.status = "PUBLISHED" => sent' > 0)
  /\ account' \in {"CONNECTED", "EXPIRED", "DELETED"} /\ disturbed' \in BOOLEAN /\ faults' \in 0..MaxFaults
KeepsLog(j, run) ==
  /\ run.at \in Logging => work[j].at \in Logging /\ run.log = work[j].log
  /\ run.at \in {"account", "publish", "record"} => run.log = "PENDING"
  /\ run.at \in {"finish", "finishing"} => run.log = "SUCCESS"
  /\ run.at = "error" => run.log = "PENDING" \/ (faults' # 0 /\ run.log = "SUCCESS")
PublishesOnce(j, run) ==
  /\ run.at # "none" /\ work[j].at # "none"
  /\ \/ sent' = sent /\ (run.at \in {"account", "publish"} => work[j].at \in {"account", "publish"})
     \/ sent' = sent + 1 /\ work[j].at = "publish" /\ run.at \in {"record", "error"}
  /\ faults' = 0 => (run.at = "record" <=> work[j].at = "record" \/ sent' = sent + 1)
  /\ faults' = 0 => faults = 0

LEMMA RunKeepsHistory ==
  ASSUME HistoryInv, NEW j \in Jobs, NEW run \in Runs, work' = [work EXCEPT ![j] = run],
         UNCHANGED <<request, job, made, stalls, hook, logs>>,
         WritesTruth(run), KeepsLog(j, run), PublishesOnce(j, run)
  PROVE  HistoryInv'
<1>1. /\ TypeOK /\ LogsInOrder /\ logs \in [LogStatuses -> Nat] /\ sent \in Nat /\ faults \in Nat
      /\ work[j] \in Runs /\ work[j].at \in RunPlaces
  BY RunOf, TypesOf, PublishingAssumption DEF HistoryInv, Types
<1>2. sent' \in Nat /\ (sent > 0 => sent' > 0)
  BY <1>1 DEF PublishesOnce
<1>3. TypeOK' /\ JobsInOrder' /\ RowsAreTrue'
  BY <1>1, <1>2, RunMovesOn DEF WritesTruth, PublishesOnce
<1>4. /\ work'[j] = run /\ \A d \in Jobs \ {j} : work'[d] = work[d]
      /\ j \in Logged("PENDING")' => j \in Logged("PENDING")
      /\ j \in Logged("SUCCESS")' => j \in Logged("SUCCESS")
      /\ j \in Coming' <=> run.at \in {"account", "publish"}
      /\ j \in Coming <=> work[j].at \in {"account", "publish"}
      /\ j \in Recording' <=> run.at = "record"
      /\ j \in Recording <=> work[j].at = "record"
  <2>1. /\ work'[j] = run /\ \A d \in Jobs \ {j} : work'[d] = work[d]
        /\ \A t \in LogStatuses : j \in Logged(t)' <=> run.at \in Logging /\ run.log = t
        /\ j \in Coming' <=> run.at \in {"account", "publish"}
        /\ j \in Recording' <=> run.at = "record"
    BY <1>1, RunMoves
  <2>2. \A t \in LogStatuses : j \in Logged(t)' => j \in Logged(t)
    <3> SUFFICES ASSUME NEW t \in LogStatuses, j \in Logged(t)' PROVE j \in Logged(t)
      OBVIOUS
    <3>1. run.at \in Logging /\ run.log = t
      BY <2>1
    <3>2. work[j].at \in Logging /\ work[j].log = t
      BY <3>1 DEF KeepsLog
    <3> QED BY <3>2 DEF Logged
  <2>3. /\ j \in Coming <=> work[j].at \in {"account", "publish"}
        /\ j \in Recording <=> work[j].at = "record"
    BY DEF Coming, Recording
  <2> QED BY <2>1, <2>2, <2>3 DEF LogStatuses
<1>5. RunIsLogged(j)'
  <2>1. work'[j] = run
    BY <1>4
  <2> QED BY <2>1 DEF RunIsLogged, KeepsLog
<1>6. AllLogs' = AllLogs /\ AllLogs \in Int /\ logs["PENDING"] \in Int /\ logs["SUCCESS"] \in Int
  BY <1>1 DEF AllLogs, LogStatuses
<1>7. /\ One(j \in Logged("PENDING")') - One(j \in Logged("PENDING")) <= logs'["PENDING"] - logs["PENDING"]
      /\ One(j \in Logged("SUCCESS")') - One(j \in Logged("SUCCESS")) <= logs'["SUCCESS"] - logs["SUCCESS"]
  BY <1>4, <1>6 DEF One
<1>8. (sent' - sent) + One(j \in Coming') - One(j \in Coming) <= AllLogs' - AllLogs
  <2>1. CASE sent' = sent
    <3>1. j \in Coming' => j \in Coming
      BY <1>1, <1>4, <2>1 DEF PublishesOnce
    <3>2. sent' - sent = 0 /\ AllLogs' - AllLogs = 0
      BY <1>1, <1>6, <2>1
    <3>3. One(j \in Coming') <= One(j \in Coming) /\ One(j \in Coming') \in Int /\ One(j \in Coming) \in Int
      BY <3>1 DEF One
    <3> QED BY <3>2, <3>3
  <2>2. CASE sent' = sent + 1
    <3>1. j \in Coming /\ j \notin Coming'
      BY <1>1, <1>4, <2>2 DEF PublishesOnce
    <3>2. sent' - sent = 1 /\ AllLogs' - AllLogs = 0
      BY <1>1, <1>6, <2>2
    <3> QED BY <3>1, <3>2 DEF One
  <2> QED BY <2>1, <2>2 DEF PublishesOnce
<1>9. ASSUME faults' = 0
      PROVE  sent' - sent = (logs'["SUCCESS"] - logs["SUCCESS"]) + One(j \in Recording') - One(j \in Recording)
  <2>1. CASE sent' = sent
    <3>1. j \in Recording' <=> j \in Recording
      BY <1>1, <1>4, <1>9, <2>1 DEF PublishesOnce
    <3>2. sent' - sent = 0 /\ logs'["SUCCESS"] - logs["SUCCESS"] = 0
      BY <1>1, <1>6, <2>1
    <3> QED BY <3>1, <3>2 DEF One
  <2>2. CASE sent' = sent + 1
    <3>1. j \in Recording' /\ j \notin Recording
      BY <1>1, <1>4, <1>9, <2>2 DEF PublishesOnce
    <3>2. sent' - sent = 1 /\ logs'["SUCCESS"] - logs["SUCCESS"] = 0
      BY <1>1, <1>6, <2>2
    <3> QED BY <3>1, <3>2 DEF One
  <2> QED BY <2>1, <2>2 DEF PublishesOnce
<1>10. LogsInOrder'
  BY <1>1, <1>3, <1>4, <1>5, <1>7, <1>8, <1>9, LogsFollow DEF PublishesOnce
<1> QED BY <1>3, <1>10 DEF HistoryInv

\* An update reads the row.
LEMMA FindRowKeepsHistory ==
  ASSUME HistoryInv, NEW j \in Jobs, FindRow(j)
  PROVE  HistoryInv'
<1> DEFINE at == IF work[j].at = "mark" THEN "marking" ELSE "finishing"
           run == [work[j] EXCEPT !.row = post, !.at = at]
<1>1. /\ TypeOK /\ work[j] \in Runs /\ work[j].at \in {"mark", "finish"} /\ RunIsLogged(j)
      /\ post \in Posts /\ faults \in 0..MaxFaults /\ disturbed \in BOOLEAN
      /\ account \in {"CONNECTED", "EXPIRED", "DELETED"}
  BY RunOf, TypesOf DEF HistoryInv, Types, FindRow, LogsInOrder
<1>2. run \in Runs /\ run.row = post /\ run.at = at /\ run.log = work[j].log
  BY <1>1 DEF Runs, RunPlaces
<1>3. work' = [work EXCEPT ![j] = run]
  BY <1>1, TypesOf DEF FindRow, Types
<1>4. UNCHANGED <<post, account, request, job, made, stalls, hook, logs, sent, disturbed, faults>>
  BY DEF FindRow, owner, bull
<1>5. (post.status = "PUBLISHED" => sent > 0) /\ (work[j].at = "finish" => sent > 0)
  BY DEF HistoryInv, RowsAreTrue, Online
<1>6. (at = "finishing" => work[j].log = "SUCCESS" /\ work[j].at \in Logging) /\ "marking" \notin Logging
  BY <1>1 DEF RunIsLogged, Logging
<1> HIDE DEF run
<1>7. WritesTruth(run)
  BY <1>1, <1>2, <1>4, <1>5, <1>6, TypesOf DEF HistoryInv, Types, WritesTruth
<1>8. KeepsLog(j, run)
  BY <1>1, <1>2, <1>4, <1>5, <1>6, TypesOf DEF HistoryInv, Types, KeepsLog
<1>9. PublishesOnce(j, run)
  BY <1>1, <1>2, <1>4, <1>5, <1>6, TypesOf DEF HistoryInv, Types, PublishesOnce
<1> QED BY <1>2, <1>3, <1>4, <1>7, <1>8, <1>9, RunKeepsHistory

\* The post is marked as being published, with the row as it was read.
LEMMA MarkPublishingKeepsHistory ==
  ASSUME HistoryInv, NEW j \in Jobs, MarkPublishing(j)
  PROVE  HistoryInv'
<1> DEFINE run == [work[j] EXCEPT !.at = "open", !.row = Draft]
<1>1. /\ TypeOK /\ work[j] \in Runs /\ work[j].at = "marking" /\ work[j].row \in Posts
      /\ faults \in 0..MaxFaults /\ account \in {"CONNECTED", "EXPIRED", "DELETED"}
  BY RunOf, TypesOf DEF HistoryInv, Types, MarkPublishing
<1>2. run \in Runs /\ run.row = Draft /\ run.at = "open"
  BY <1>1, DraftRow DEF Runs, RunPlaces
<1>3. work' = [work EXCEPT ![j] = run]
  BY <1>1, TypesOf DEF MarkPublishing, Types
<1>4. UNCHANGED <<account, request, job, made, stalls, hook, logs, sent, faults>>
  BY DEF MarkPublishing, owner, bull
<1>5. post' \in Posts /\ post'.status = "PUBLISHING"
  BY <1>1, StatusWritten DEF MarkPublishing
<1>6. disturbed' \in BOOLEAN
  BY Zenon DEF MarkPublishing, Disturb
<1>7. "open" \notin Logging
  BY DEF Logging
<1> HIDE DEF run
<1>8. WritesTruth(run)
  BY <1>1, <1>2, <1>4, <1>5, <1>6, <1>7, DraftRow, TypesOf DEF HistoryInv, Types, WritesTruth
<1>9. KeepsLog(j, run)
  BY <1>1, <1>2, <1>4, <1>5, <1>6, <1>7, DraftRow, TypesOf DEF HistoryInv, Types, KeepsLog
<1>10. PublishesOnce(j, run)
  BY <1>1, <1>2, <1>4, <1>5, <1>6, <1>7, DraftRow, TypesOf DEF HistoryInv, Types, PublishesOnce
<1>11. UNCHANGED <<request, job, made, stalls, hook, logs>>
  BY <1>4
<1> QED BY <1>2, <1>3, <1>8, <1>9, <1>10, <1>11, RunKeepsHistory

\* The account is resolved, or the error is final.
LEMMA ResolveAccountKeepsHistory ==
  ASSUME HistoryInv, NEW j \in Jobs, ResolveAccount(j)
  PROVE  HistoryInv'
<1> DEFINE run == IF account = "CONNECTED" THEN [work[j] EXCEPT !.at = "publish"]
                  ELSE [work[j] EXCEPT !.at = "error", !.final = TRUE, !.token = (account = "EXPIRED")]
<1>1. /\ TypeOK /\ work[j] \in Runs /\ work[j].at = "account" /\ RunIsLogged(j)
      /\ post \in Posts /\ faults \in 0..MaxFaults /\ disturbed \in BOOLEAN
      /\ account \in {"CONNECTED", "EXPIRED", "DELETED"}
  BY RunOf, TypesOf DEF HistoryInv, Types, ResolveAccount, LogsInOrder
<1>2. (account = "EXPIRED") \in BOOLEAN
  OBVIOUS
<1>3. run \in Runs /\ run.row = work[j].row /\ run.at \in {"publish", "error"} /\ run.log = work[j].log
  BY <1>1, <1>2 DEF Runs, RunPlaces
<1>4. work' = [work EXCEPT ![j] = run]
  BY <1>1, TypesOf DEF ResolveAccount, Goto, Types
<1>5. UNCHANGED <<post, account, request, job, made, stalls, hook, logs, sent, disturbed, faults>>
  BY DEF ResolveAccount, owner, bull
<1>6. (post.status = "PUBLISHED" => sent > 0) /\ (work[j].row.status = "PUBLISHED" => sent > 0)
  BY DEF HistoryInv, RowsAreTrue, Online
<1>7. work[j].log = "PENDING" /\ work[j].at \in Logging
  BY <1>1 DEF RunIsLogged, Logging
<1> HIDE DEF run
<1>8. WritesTruth(run)
  BY <1>1, <1>3, <1>5, <1>6, <1>7, TypesOf DEF HistoryInv, Types, WritesTruth
<1>9. KeepsLog(j, run)
  BY <1>1, <1>3, <1>5, <1>6, <1>7, TypesOf DEF HistoryInv, Types, KeepsLog
<1>10. PublishesOnce(j, run)
  BY <1>1, <1>3, <1>5, <1>6, <1>7, TypesOf DEF HistoryInv, Types, PublishesOnce
<1>11. UNCHANGED <<request, job, made, stalls, hook, logs>>
  BY <1>5
<1> QED BY <1>3, <1>4, <1>8, <1>9, <1>10, <1>11, RunKeepsHistory

\* The platform puts the post online, or refuses it.
LEMMA PublishKeepsHistory ==
  ASSUME HistoryInv, NEW j \in Jobs, Publish(j)
  PROVE  HistoryInv'
<1> DEFINE run == [work[j] EXCEPT !.at = "record"]
<1>1. /\ TypeOK /\ work[j] \in Runs /\ work[j].at = "publish" /\ RunIsLogged(j)
      /\ post \in Posts /\ faults \in 0..MaxFaults /\ disturbed \in BOOLEAN
      /\ account \in {"CONNECTED", "EXPIRED", "DELETED"}
  BY RunOf, TypesOf DEF HistoryInv, Types, Publish, LogsInOrder
<1>2. run \in Runs /\ run.row = work[j].row /\ run.at = "record" /\ run.log = work[j].log
  BY <1>1 DEF Runs, RunPlaces
<1>3. work' = [work EXCEPT ![j] = run]
  BY <1>1, TypesOf DEF Publish, Goto, Types
<1>4. UNCHANGED <<post, account, request, job, made, stalls, hook, logs, disturbed, faults>>
  BY DEF Publish, owner, bull
<1>5. sent' = sent + 1 /\ sent' > 0
  BY TypesOf DEF Publish, HistoryInv, Types
<1>6. work[j].log = "PENDING" /\ work[j].at \in Logging
  BY <1>1 DEF RunIsLogged, Logging
<1> HIDE DEF run
<1>7. WritesTruth(run)
  BY <1>1, <1>2, <1>4, <1>5, <1>6 DEF WritesTruth
<1>8. KeepsLog(j, run)
  BY <1>1, <1>2, <1>4, <1>5, <1>6 DEF KeepsLog
<1>9. PublishesOnce(j, run)
  BY <1>1, <1>2, <1>4, <1>5, <1>6 DEF PublishesOnce
<1> QED BY <1>2, <1>3, <1>4, <1>7, <1>8, <1>9, RunKeepsHistory

LEMMA PlatformRefusesKeepsHistory ==
  ASSUME HistoryInv, NEW j \in Jobs, NEW token \in BOOLEAN, PlatformRefuses(j, token)
  PROVE  HistoryInv'
<1> DEFINE run == [work[j] EXCEPT !.at = "error", !.token = token]
<1>1. /\ TypeOK /\ work[j] \in Runs /\ work[j].at = "publish" /\ RunIsLogged(j)
      /\ post \in Posts /\ faults \in 0..MaxFaults /\ disturbed \in BOOLEAN
      /\ account \in {"CONNECTED", "EXPIRED", "DELETED"}
  BY RunOf, TypesOf DEF HistoryInv, Types, PlatformRefuses, LogsInOrder
<1>2. run \in Runs /\ run.row = work[j].row /\ run.at = "error" /\ run.log = work[j].log
  BY <1>1 DEF Runs, RunPlaces
<1>3. work' = [work EXCEPT ![j] = run]
  BY <1>1, TypesOf DEF PlatformRefuses, Types
<1>4. UNCHANGED <<post, account, request, job, made, stalls, hook, logs, sent, disturbed, faults>>
  BY DEF PlatformRefuses, owner, bull
<1>5. (post.status = "PUBLISHED" => sent > 0) /\ (work[j].row.status = "PUBLISHED" => sent > 0)
  BY DEF HistoryInv, RowsAreTrue, Online
<1>6. work[j].log = "PENDING" /\ work[j].at \in Logging
  BY <1>1 DEF RunIsLogged, Logging
<1> HIDE DEF run
<1>7. WritesTruth(run)
  BY <1>1, <1>2, <1>4, <1>5, <1>6, TypesOf DEF HistoryInv, Types, WritesTruth
<1>8. KeepsLog(j, run)
  BY <1>1, <1>2, <1>4, <1>5, <1>6, TypesOf DEF HistoryInv, Types, KeepsLog
<1>9. PublishesOnce(j, run)
  BY <1>1, <1>2, <1>4, <1>5, <1>6, TypesOf DEF HistoryInv, Types, PublishesOnce
<1> QED BY <1>2, <1>3, <1>4, <1>7, <1>8, <1>9, RunKeepsHistory

\* The faults of a run that leave its log row as it is.
LEMMA RunFaultKeepsHistory ==
  ASSUME HistoryInv, NEW j \in Jobs,
         PublishUnanswered(j) \/ RecordFails(j) \/ HandlingFails(j) \/ OpenFails(j)
  PROVE  HistoryInv'
<1>1. /\ TypeOK /\ work \in [Jobs -> Runs] /\ work[j] \in Runs /\ RunIsLogged(j) /\ work[j].at \in RunPlaces
      /\ post \in Posts /\ disturbed \in BOOLEAN /\ account \in {"CONNECTED", "EXPIRED", "DELETED"}
      /\ sent \in Nat
  BY RunOf, TypesOf DEF HistoryInv, Types, LogsInOrder
<1>2. PICK run \in Runs :
        /\ work' = [work EXCEPT ![j] = run] /\ run.at # "none" /\ work[j].at # "none"
        /\ run.row = work[j].row \/ run.row = Draft
        /\ \/ sent' = sent /\ run.at = "thrown"
           \/ /\ sent' = sent /\ run.at = "error" /\ run.log = work[j].log
              /\ work[j].at \in {"account", "record", "finish", "finishing"}
           \/ /\ sent' = sent + 1 /\ run.at = "error" /\ run.log = work[j].log
              /\ work[j].at = "publish"
  <2>1. CASE PublishUnanswered(j)
    <3> DEFINE run == [work[j] EXCEPT !.at = "error"]
    <3>1. run \in Runs /\ run.row = work[j].row /\ run.at = "error" /\ run.log = work[j].log
      BY <1>1 DEF Runs, RunPlaces
    <3>2. work' = [work EXCEPT ![j] = run] /\ work[j].at = "publish" /\ sent' = sent + 1
      BY <1>1, <2>1 DEF PublishUnanswered, Goto
    <3> HIDE DEF run
    <3> QED BY <3>1, <3>2
  <2>2. CASE RecordFails(j)
    <3> DEFINE run == [work[j] EXCEPT !.at = "error", !.row = Draft]
    <3>1. run \in Runs /\ run.row = Draft /\ run.at = "error" /\ run.log = work[j].log
      BY <1>1, DraftRow DEF Runs, RunPlaces
    <3>2. /\ work' = [work EXCEPT ![j] = run] /\ sent' = sent
          /\ work[j].at \in {"account", "record", "finish", "finishing"}
      BY <1>1, <2>2 DEF RecordFails
    <3> HIDE DEF run
    <3> QED BY <3>1, <3>2
  <2>3. CASE HandlingFails(j)
    <3> DEFINE run == [work[j] EXCEPT !.at = "thrown", !.final = FALSE]
    <3>1. run \in Runs /\ run.row = work[j].row /\ run.at = "thrown"
      BY <1>1 DEF Runs, RunPlaces
    <3>2. work' = [work EXCEPT ![j] = run] /\ sent' = sent /\ work[j].at = "error"
      BY <1>1, <2>3 DEF HandlingFails
    <3> HIDE DEF run
    <3> QED BY <3>1, <3>2
  <2>4. CASE OpenFails(j)
    <3> DEFINE run == [work[j] EXCEPT !.at = "thrown"]
    <3>1. run \in Runs /\ run.row = work[j].row /\ run.at = "thrown"
      BY <1>1 DEF Runs, RunPlaces
    <3>2. work' = [work EXCEPT ![j] = run] /\ sent' = sent /\ work[j].at \in {"mark", "marking", "open"}
      BY <1>1, <2>4 DEF OpenFails, Goto
    <3> HIDE DEF run
    <3> QED BY <3>1, <3>2
  <2> QED BY <2>1, <2>2, <2>3, <2>4
<1>3. /\ UNCHANGED <<post, account, request, job, made, stalls, hook, logs>>
      /\ Fault /\ disturbed' \in BOOLEAN
  BY <1>1 DEF PublishUnanswered, RecordFails, HandlingFails, OpenFails, owner, bull
<1>4. faults' \in 0..MaxFaults /\ faults' # 0
  BY <1>1, <1>3, FaultCounted
<1>5. /\ post.status = "PUBLISHED" => sent' > 0
      /\ run.row.status = "PUBLISHED" => sent' > 0
  BY <1>1, <1>2, DraftRow DEF HistoryInv, RowsAreTrue, Online
<1>6. /\ "thrown" \notin Logging
      /\ run.at = "error" => work[j].at \in Logging /\ run.log = work[j].log /\ run.log \in {"PENDING", "SUCCESS"}
  BY <1>1, <1>2 DEF RunIsLogged, Logging
<1>7. WritesTruth(run)
  BY <1>1, <1>2, <1>3, <1>4, <1>5, <1>6 DEF WritesTruth
<1>8. KeepsLog(j, run)
  BY <1>1, <1>2, <1>3, <1>4, <1>5, <1>6 DEF KeepsLog
<1>9. PublishesOnce(j, run)
  BY <1>1, <1>2, <1>3, <1>4, <1>5, <1>6 DEF PublishesOnce
<1> QED BY <1>2, <1>3, <1>7, <1>8, <1>9, RunKeepsHistory

\* A step that opens the log row of the run, or changes its status.
LEMMA RunLogKeepsHistory ==
  ASSUME HistoryInv, NEW j \in Jobs, NEW run \in Runs, work' = [work EXCEPT ![j] = run],
         UNCHANGED <<request, job, made, stalls, hook, sent, faults>>, WritesTruth(run),
         NEW from \in {"none", "PENDING", "SUCCESS"}, NEW to \in LogStatuses, from # to, Log(j, from, to),
         run.at # "none", work[j].at # "none",
         IF from = "none" THEN work[j].at \notin Logging ELSE work[j].at \in Logging /\ work[j].log = from,
         run.at \in Logging => run.log = to,
         run.at \in {"account", "publish", "record"} => run.log = "PENDING",
         run.at \in {"finish", "finishing"} => run.log = "SUCCESS", run.at # "error",
         run.at \in {"account", "publish"} => from = "none",
         faults = 0 => (to = "SUCCESS" <=> work[j].at = "record") /\ run.at # "record" /\ from # "SUCCESS"
  PROVE  HistoryInv'
<1>1. /\ TypeOK /\ LogsInOrder /\ logs \in [LogStatuses -> Nat] /\ sent \in Nat /\ faults \in Nat
      /\ work[j] \in Runs /\ work[j].at \in RunPlaces
  BY RunOf, TypesOf, PublishingAssumption DEF HistoryInv, Types
<1>2. from # "none" => j \in Logged(from) /\ logs[from] > 0
  <2> SUFFICES ASSUME from # "none" PROVE j \in Logged(from) /\ logs[from] > 0
    OBVIOUS
  <2>1. from \in {"PENDING", "SUCCESS"} /\ j \in Logged(from)
    BY DEF Logged
  <2> QED BY <2>1, LoggedRow
<1>3. /\ logs' \in [LogStatuses -> Nat]
      /\ \A s \in LogStatuses : logs'[s] = logs[s] + One(s = to) - One(s = from)
      /\ AllLogs' = AllLogs + One(from = "none")
  BY <1>1, <1>2, LogMoves
<1>4. TypeOK' /\ JobsInOrder' /\ RowsAreTrue'
  BY <1>1, <1>3, RunMovesOn DEF WritesTruth
<1>5. /\ work'[j] = run /\ \A d \in Jobs \ {j} : work'[d] = work[d]
      /\ \A t \in LogStatuses : j \in Logged(t)' <=> run.at \in Logging /\ run.log = t
      /\ j \in Coming' <=> run.at \in {"account", "publish"}
      /\ j \in Recording' <=> run.at = "record"
  BY <1>1, RunMoves
<1>6. RunIsLogged(j)'
  BY <1>5 DEF RunIsLogged
<1>7. \A t \in {"PENDING", "SUCCESS"} : One(j \in Logged(t)') - One(j \in Logged(t)) <= logs'[t] - logs[t]
  <2> SUFFICES ASSUME NEW t \in {"PENDING", "SUCCESS"}
               PROVE  One(j \in Logged(t)') - One(j \in Logged(t)) <= logs'[t] - logs[t]
    OBVIOUS
  <2> DEFINE u == One(j \in Logged(t))   v == One(j \in Logged(t)')
             x == One(t = to)            y == One(t = from)
  <2>1. logs[t] \in Nat /\ logs'[t] = logs[t] + x - y /\ t \in LogStatuses
    BY <1>1, <1>3 DEF LogStatuses
  <2>2. v - u <= x - y
    <3>1. v <= x
      BY <1>5, <2>1 DEF One
    <3>2. y <= u
      BY <1>2 DEF One
    <3>3. u \in Int /\ v \in Int /\ x \in Int /\ y \in Int
      BY DEF One
    <3> HIDE DEF u, v, x, y
    <3> QED BY <3>1, <3>2, <3>3
  <2>3. u \in Int /\ v \in Int /\ x \in Int /\ y \in Int
    BY DEF One
  <2>4. v - u <= logs'[t] - logs[t]
    <3> HIDE DEF u, v, x, y
    <3> QED BY <2>1, <2>2, <2>3
  <2> QED BY <2>4
<1>8. (sent' - sent) + One(j \in Coming') - One(j \in Coming) <= AllLogs' - AllLogs
  <2> DEFINE u == One(j \in Coming)   v == One(j \in Coming')   x == One(from = "none")
  <2>1. v <= x /\ u \in Nat /\ v \in Nat /\ x \in Nat
    BY <1>5 DEF One
  <2>2. sent' - sent = 0 /\ AllLogs \in Int /\ AllLogs' = AllLogs + x
    BY <1>1, <1>3 DEF AllLogs, LogStatuses
  <2> HIDE DEF u, v, x
  <2>3. (sent' - sent) + v - u <= AllLogs' - AllLogs
    BY <2>1, <2>2
  <2> QED BY <2>3 DEF u, v
<1>9. ASSUME faults' = 0
      PROVE  sent' - sent = (logs'["SUCCESS"] - logs["SUCCESS"]) + One(j \in Recording') - One(j \in Recording)
  <2> DEFINE u == One(j \in Recording)   v == One(j \in Recording')
             x == One("SUCCESS" = to)    y == One("SUCCESS" = from)
  <2>1. (to = "SUCCESS" <=> work[j].at = "record") /\ run.at # "record" /\ from # "SUCCESS"
    BY <1>9
  <2>2. v = 0 /\ y = 0 /\ x = u
    BY <1>5, <2>1 DEF One, Recording
  <2>3. logs["SUCCESS"] \in Nat /\ logs'["SUCCESS"] = logs["SUCCESS"] + x - y /\ x \in Nat
    BY <1>1, <1>3 DEF LogStatuses, One
  <2>4. sent' - sent = 0
    BY <1>1
  <2> HIDE DEF u, v, x, y
  <2>5. sent' - sent = (logs'["SUCCESS"] - logs["SUCCESS"]) + v - u
    BY <2>2, <2>3, <2>4
  <2> QED BY <2>5 DEF u, v
<1>10. LogsInOrder'
  BY <1>1, <1>4, <1>5, <1>6, <1>7, <1>8, <1>9, LogsFollow
<1> QED BY <1>4, <1>10 DEF HistoryInv

LEMMA OpenLogKeepsHistory ==
  ASSUME HistoryInv, NEW j \in Jobs, OpenLog(j)
  PROVE  HistoryInv'
<1> DEFINE run == [work[j] EXCEPT !.at = "account", !.log = "PENDING"]
<1>1. /\ TypeOK /\ work[j] \in Runs /\ work[j].at = "open"
      /\ post \in Posts /\ faults \in 0..MaxFaults /\ disturbed \in BOOLEAN
      /\ account \in {"CONNECTED", "EXPIRED", "DELETED"}
  BY RunOf, TypesOf DEF HistoryInv, Types, OpenLog
<1>2. run \in Runs /\ run.row = work[j].row /\ run.at = "account" /\ run.log = "PENDING"
  BY <1>1 DEF Runs, RunPlaces, LogStatuses
<1>3. work' = [work EXCEPT ![j] = run]
  BY <1>1, TypesOf DEF OpenLog, Types
<1>4. UNCHANGED <<post, account, request, job, made, stalls, hook, sent, disturbed, faults>>
  BY DEF OpenLog, owner, bull
<1>5. (post.status = "PUBLISHED" => sent > 0) /\ (work[j].row.status = "PUBLISHED" => sent > 0)
  BY DEF HistoryInv, RowsAreTrue, Online
<1> HIDE DEF run
<1>6. WritesTruth(run)
  BY <1>1, <1>2, <1>4, <1>5 DEF WritesTruth
<1>7. Log(j, "none", "PENDING") /\ "open" \notin Logging /\ "PENDING" \in LogStatuses
  BY DEF OpenLog, Logging, LogStatuses
<1> QED BY <1>1, <1>2, <1>3, <1>4, <1>6, <1>7, RunLogKeepsHistory

LEMMA RecordKeepsHistory ==
  ASSUME HistoryInv, NEW j \in Jobs, Record(j)
  PROVE  HistoryInv'
<1> DEFINE run == [work[j] EXCEPT !.at = "finish", !.log = "SUCCESS"]
<1>1. /\ TypeOK /\ work[j] \in Runs /\ work[j].at = "record" /\ RunIsLogged(j)
      /\ post \in Posts /\ faults \in 0..MaxFaults /\ disturbed \in BOOLEAN
      /\ account \in {"CONNECTED", "EXPIRED", "DELETED"}
  BY RunOf, TypesOf DEF HistoryInv, Types, Record, LogsInOrder
<1>2. run \in Runs /\ run.row = work[j].row /\ run.at = "finish" /\ run.log = "SUCCESS"
  BY <1>1 DEF Runs, RunPlaces, LogStatuses
<1>3. work' = [work EXCEPT ![j] = run]
  BY <1>1, TypesOf DEF Record, Types
<1>4. UNCHANGED <<post, account, request, job, made, stalls, hook, sent, disturbed, faults>>
  BY DEF Record, owner, bull
<1>5. /\ post.status = "PUBLISHED" => sent > 0
      /\ work[j].row.status = "PUBLISHED" => sent > 0
      /\ work[j].at = "record" => sent > 0
  BY DEF HistoryInv, RowsAreTrue, Online
<1> HIDE DEF run
<1>6. WritesTruth(run)
  BY <1>1, <1>2, <1>4, <1>5 DEF WritesTruth
<1>7. /\ Log(j, "PENDING", "SUCCESS") /\ "record" \in Logging /\ work[j].log = "PENDING"
      /\ "SUCCESS" \in LogStatuses
  BY <1>1 DEF Record, Logging, LogStatuses, RunIsLogged
<1> QED BY <1>1, <1>2, <1>3, <1>4, <1>6, <1>7, RunLogKeepsHistory

LEMMA HandleErrorKeepsHistory ==
  ASSUME HistoryInv, NEW j \in Jobs, HandleError(j)
  PROVE  HistoryInv'
<1> DEFINE run == [work[j] EXCEPT !.at = "thrown"]
           to == IF WillRetry(j) THEN "RETRYING" ELSE "FAILED"
<1>1. /\ TypeOK /\ work[j] \in Runs /\ work[j].at = "error" /\ RunIsLogged(j)
      /\ post \in Posts /\ faults \in 0..MaxFaults /\ disturbed \in BOOLEAN
      /\ account \in {"CONNECTED", "EXPIRED", "DELETED"}
  BY RunOf, TypesOf DEF HistoryInv, Types, HandleError, LogsInOrder
<1>2. run \in Runs /\ run.row = work[j].row /\ run.at = "thrown"
  BY <1>1 DEF Runs, RunPlaces
<1>3. work' = [work EXCEPT ![j] = run]
  BY <1>1, TypesOf DEF HandleError, Goto, Types
<1>4. /\ UNCHANGED <<post, request, job, made, stalls, hook, sent, disturbed, faults>>
      /\ account' \in {"CONNECTED", "EXPIRED", "DELETED"}
  BY <1>1 DEF HandleError, ExpireAccount, bull
<1>5. (post.status = "PUBLISHED" => sent > 0) /\ (work[j].row.status = "PUBLISHED" => sent > 0)
  BY DEF HistoryInv, RowsAreTrue, Online
<1> HIDE DEF run
<1>6. WritesTruth(run)
  BY <1>1, <1>2, <1>4, <1>5 DEF WritesTruth
<1>7. /\ work[j].log = "PENDING" \/ (faults # 0 /\ work[j].log = "SUCCESS")
      /\ "error" \in Logging /\ "thrown" \notin Logging
  BY <1>1 DEF Logging, RunIsLogged
<1>8. Log(j, work[j].log, to) /\ to \in LogStatuses /\ to \notin {"PENDING", "SUCCESS"}
  BY DEF HandleError, LogStatuses
<1> HIDE DEF to
<1> QED BY <1>1, <1>2, <1>3, <1>4, <1>6, <1>7, <1>8, RunLogKeepsHistory
-----------------------------------------------------------------------------
(* The queue, and the hook on a failed job *)

\* A run that starts, or that ends when nothing is to be recorded.
LEMMA LogsLeft ==
  ASSUME HistoryInv, TypeOK', NEW j \in Jobs, NEW run \in Runs, work' = [work EXCEPT ![j] = run],
         UNCHANGED <<logs, sent>>, run.at \notin Logging,
         faults' = 0 => faults = 0 /\ work[j].at # "record"
  PROVE  LogsInOrder'
<1>1. /\ TypeOK /\ LogsInOrder /\ logs \in [LogStatuses -> Nat] /\ sent \in Nat
  BY TypesOf DEF HistoryInv, Types
<1>2. run.at \notin {"account", "publish", "record", "finish", "finishing", "error"}
  BY DEF Logging
<1>3. /\ work'[j] = run /\ \A d \in Jobs \ {j} : work'[d] = work[d]
      /\ j \notin Logged("PENDING")' /\ j \notin Logged("SUCCESS")' /\ j \notin Coming' /\ j \notin Recording'
  BY <1>1, <1>2, RunMoves DEF LogStatuses
<1>4. RunIsLogged(j)'
  BY <1>2, <1>3 DEF RunIsLogged
<1>5. /\ AllLogs \in Int /\ AllLogs' = AllLogs /\ sent' - sent = 0 /\ AllLogs' - AllLogs = 0
      /\ logs'["PENDING"] - logs["PENDING"] = 0 /\ logs'["SUCCESS"] - logs["SUCCESS"] = 0
  BY <1>1 DEF AllLogs, LogStatuses
<1>6. /\ One(j \in Logged("PENDING")') - One(j \in Logged("PENDING")) <= logs'["PENDING"] - logs["PENDING"]
      /\ One(j \in Logged("SUCCESS")') - One(j \in Logged("SUCCESS")) <= logs'["SUCCESS"] - logs["SUCCESS"]
      /\ (sent' - sent) + One(j \in Coming') - One(j \in Coming) <= AllLogs' - AllLogs
  BY <1>3, <1>5 DEF One
<1>7. ASSUME faults' = 0
      PROVE  sent' - sent = (logs'["SUCCESS"] - logs["SUCCESS"]) + One(j \in Recording') - One(j \in Recording)
  <2>1. j \notin Recording
    BY <1>7 DEF Recording
  <2> QED BY <1>3, <1>5, <2>1 DEF One
<1> QED BY <1>1, <1>3, <1>4, <1>6, <1>7, LogsFollow

\* One job changes its state; it was queued or running before.
LEMMA JobMoves ==
  ASSUME JobsInOrder, TypeOK, TypeOK', NEW j \in Jobs, NEW state, job' = [job EXCEPT ![j] = state],
         job[j] # "none", state # "none", request' = request,
         \A d \in Jobs \ {j} : made'[d] = made[d] /\ work'[d] = work[d],
         state = "active" <=> work'[j].at # "none",
         state \in {"delayed", "waiting", "active"} => made'[j] < Attempts,
         Cardinality(Active') <= Workers
  PROVE  JobsInOrder'
<1>1. \A d \in Jobs : job'[d] = IF d = j THEN state ELSE job[d]
  BY TypesOf DEF Types
<1>2. \A d \in Jobs : job'[d] = "active" <=> work'[d].at # "none"
  BY <1>1 DEF JobsInOrder, WorkersInOrder
<1>3. WorkersInOrder'
  BY <1>2 DEF WorkersInOrder
<1>4. \A d \in Jobs : job'[d] \in {"delayed", "waiting", "active"} => made'[d] < Attempts
  BY <1>1 DEF JobsInOrder
<1>5. \A d \in Jobs : job'[d] = "none" => made'[d] = 0
  BY <1>1 DEF JobsInOrder
<1>6. \A q \in Requests : request'[q].at \in {"idle", "queue"} => job'[q] = "none"
  BY <1>1 DEF JobsInOrder, Jobs
<1> QED BY <1>3, <1>4, <1>5, <1>6 DEF JobsInOrder

\* It is not active afterwards.
LEMMA OneLess ==
  ASSUME JobsInOrder, TypeOK, TypeOK', NEW j \in Jobs, NEW state, job' = [job EXCEPT ![j] = state],
         state # "active"
  PROVE  Cardinality(Active') <= Workers
<1>1. Active' \subseteq Active
  BY TypesOf DEF Types, Active
<1> QED BY <1>1, WorkersStay

LEMMA IdleRun == Idle \in Runs /\ Idle.at = "none" /\ Idle.row = Draft /\ Idle.at \notin Logging
BY DraftRow DEF Idle, Runs, RunPlaces, Logging

LEMMA PromoteKeepsHistory ==
  ASSUME HistoryInv, NEW j \in Jobs, Promote(j)
  PROVE  HistoryInv'
<1>1. /\ TypeOK /\ JobsInOrder /\ job[j] = "delayed" /\ job' = [job EXCEPT ![j] = "waiting"]
      /\ UNCHANGED <<post, account, request, made, stalls, work, hook, logs, sent, disturbed, faults>>
  BY DEF HistoryInv, Promote, owner
<1>2. TypeOK'
  BY <1>1, TypesOf, TypesNext DEF Types
<1>3. work'[j].at = "none" /\ made'[j] < Attempts
  BY <1>1 DEF JobsInOrder, WorkersInOrder
<1>4. Cardinality(Active') <= Workers
  BY <1>1, <1>2, OneLess
<1>5. JobsInOrder'
  BY <1>1, <1>2, <1>3, <1>4, JobMoves
<1>6. RowsAreTrue'
  BY <1>1 DEF HistoryInv, RowsAreTrue, Online
<1>7. LogsInOrder'
  BY <1>1, LogsStay DEF HistoryInv
<1> QED BY <1>2, <1>5, <1>6, <1>7 DEF HistoryInv

\* A worker takes a job: one more is active, or there is nothing to do.
LEMMA TakeKeepsHistory ==
  ASSUME HistoryInv, NEW j \in Jobs, Take(j)
  PROVE  HistoryInv'
<1>1. /\ TypeOK /\ JobsInOrder /\ job[j] = "waiting" /\ Cardinality(Active) < Workers
      /\ work[j].at = "none" /\ made[j] < Attempts
      /\ UNCHANGED <<post, account, request, made, stalls, hook, logs, sent, faults>>
  BY DEF HistoryInv, Take, owner, JobsInOrder, WorkersInOrder
<1>2. disturbed' \in BOOLEAN
  BY Zenon DEF Take
<1>3. CASE Skipped
  <2>1. job' = [job EXCEPT ![j] = "completed"] /\ UNCHANGED work
    BY <1>3 DEF Take
  <2>2. TypeOK'
    BY <1>1, <1>2, <2>1, TypesOf, TypesNext DEF Types
  <2>3. Cardinality(Active') <= Workers
    BY <1>1, <2>1, <2>2, OneLess
  <2>4. JobsInOrder'
    BY <1>1, <2>1, <2>2, <2>3, JobMoves
  <2>5. RowsAreTrue'
    BY <1>1, <2>1 DEF HistoryInv, RowsAreTrue, Online
  <2>6. LogsInOrder'
    BY <1>1, <2>1, LogsStay DEF HistoryInv
  <2> QED BY <2>2, <2>4, <2>5, <2>6 DEF HistoryInv
<1>4. CASE ~Skipped
  <2> DEFINE at == IF post.status = "PUBLISHING" THEN "open" ELSE "mark"
             run == [Idle EXCEPT !.at = at]
  <2>1. job' = [job EXCEPT ![j] = "active"] /\ work' = [work EXCEPT ![j] = run]
    BY <1>4 DEF Take
  <2>2. run \in Runs /\ run.at \in {"open", "mark"} /\ run.row = Draft
    BY IdleRun DEF Idle, Runs, RunPlaces
  <2> HIDE DEF run
  <2>3. work' \in [Jobs -> Runs] /\ work'[j] = run /\ \A d \in Jobs \ {j} : work'[d] = work[d]
    BY <1>1, <2>1, <2>2, RunMoves
  <2>4. TypeOK'
    BY <1>1, <1>2, <2>1, <2>3, TypesOf, TypesNext DEF Types
  <2>5. Cardinality(Active') <= Workers
    <3>1. Active \in SUBSET Jobs /\ Active' \in SUBSET Jobs /\ Active \ {j} = Active' \ {j}
      BY <1>1, <2>1, TypesOf DEF Active, Types
    <3>2. j \notin Active
      BY <1>1 DEF Active
    <3> DEFINE m == Cardinality(Active)   n == Cardinality(Active')   v == One(j \in Active')
               u == One(j \in Active)
    <3>3. m \in Nat /\ n \in Nat /\ n = m + v - u
      BY <3>1, CountMoves
    <3>4. u = 0 /\ v \in {0, 1} /\ m < Workers /\ Workers \in Nat
      BY <1>1, <3>2, PublishingAssumption DEF One
    <3>5. n <= Workers
      <4> HIDE DEF m, n, u, v
      <4> QED BY <3>3, <3>4
    <3> QED BY <3>5
  <2>6. JobsInOrder'
    BY <1>1, <2>1, <2>2, <2>3, <2>4, <2>5, JobMoves
  <2>7. RowsAreTrue'
    BY <1>1, <2>2, <2>3, DraftRow DEF HistoryInv, RowsAreTrue, Online
  <2>8. run.at \notin Logging
    BY <2>2 DEF Logging
  <2>9. LogsInOrder'
    BY <1>1, <2>1, <2>2, <2>4, <2>8, LogsLeft
  <2> QED BY <2>4, <2>6, <2>7, <2>9 DEF HistoryInv
<1> QED BY <1>3, <1>4

\* The post is published.
LEMMA FinishKeepsHistory ==
  ASSUME HistoryInv, NEW j \in Jobs, Finish(j)
  PROVE  HistoryInv'
<1>1. /\ TypeOK /\ JobsInOrder /\ work[j].at = "finishing" /\ job[j] = "active"
      /\ job' = [job EXCEPT ![j] = "completed"] /\ work' = [work EXCEPT ![j] = Idle]
      /\ UNCHANGED <<account, request, made, stalls, hook, logs, sent, faults>>
  BY DEF HistoryInv, Finish, owner, JobsInOrder, WorkersInOrder
<1>2. disturbed' \in BOOLEAN
  BY Zenon DEF Finish, Disturb
<1>3. post' \in Posts
  BY <1>1, RunOf, StatusWritten DEF Finish
<1>4. work' \in [Jobs -> Runs] /\ work'[j] = Idle /\ \A d \in Jobs \ {j} : work'[d] = work[d]
  BY <1>1, IdleRun, RunMoves
<1>5. TypeOK'
  BY <1>1, <1>2, <1>3, <1>4, TypesOf, TypesNext DEF Types
<1>6. Cardinality(Active') <= Workers
  BY <1>1, <1>5, OneLess
<1>7. JobsInOrder'
  BY <1>1, <1>4, <1>5, <1>6, IdleRun, JobMoves
<1>8. sent > 0
  BY <1>1 DEF HistoryInv, RowsAreTrue, Online
<1>9. RowsAreTrue'
  BY <1>1, <1>4, <1>8, IdleRun, DraftRow DEF HistoryInv, RowsAreTrue, Online
<1>10. LogsInOrder'
  BY <1>1, <1>5, IdleRun, LogsLeft
<1> QED BY <1>5, <1>7, <1>9, <1>10 DEF HistoryInv

\* BullMQ counts the attempt.
LEMMA FailKeepsHistory ==
  ASSUME HistoryInv, NEW j \in Jobs, Fail(j)
  PROVE  HistoryInv'
<1> DEFINE state == IF WillRetry(j) THEN "delayed" ELSE "failed"
<1>1. /\ TypeOK /\ JobsInOrder /\ work[j].at = "thrown" /\ job[j] = "active" /\ made[j] < Attempts
      /\ job' = [job EXCEPT ![j] = state] /\ work' = [work EXCEPT ![j] = Idle]
      /\ made' = [made EXCEPT ![j] = @ + 1]
      /\ UNCHANGED <<post, account, request, stalls, logs, sent, disturbed, faults>>
  BY DEF HistoryInv, Fail, owner, JobsInOrder, WorkersInOrder
<1>2. /\ made \in [Jobs -> 0..Attempts] /\ hook \in [Jobs -> Hooks]
      /\ job \in [Jobs -> {"none", "delayed", "waiting", "active", "completed", "failed"}]
  BY <1>1, TypesOf DEF Types
<1>3. made' \in [Jobs -> 0..Attempts] /\ made'[j] = made[j] + 1 /\ \A d \in Jobs \ {j} : made'[d] = made[d]
  BY <1>1, <1>2 DEF Attempts
<1>4. hook' \in [Jobs -> Hooks] /\ \A d \in Jobs : hook'[d].row = hook[d].row
  <2> DEFINE at == IF made'[j] >= Attempts THEN "find" ELSE "none"
  <2>1. hook' = [hook EXCEPT ![j].at = at] /\ at \in {"find", "none"}
    BY DEF Fail
  <2> HIDE DEF at
  <2> QED BY <1>2, <2>1 DEF Hooks
<1>5. work' \in [Jobs -> Runs] /\ work'[j] = Idle /\ \A d \in Jobs \ {j} : work'[d] = work[d]
  BY <1>1, IdleRun, RunMoves
<1>6. job' \in [Jobs -> {"none", "delayed", "waiting", "active", "completed", "failed"}]
  BY <1>1, <1>2
<1>7. TypeOK'
  BY <1>1, <1>3, <1>4, <1>5, <1>6, TypesOf, TypesNext DEF Types
<1>8. state \in {"delayed", "failed"} /\ (state = "delayed" => made'[j] < Attempts)
  BY <1>3 DEF WillRetry
<1> HIDE DEF state
<1>9. Cardinality(Active') <= Workers
  BY <1>1, <1>7, <1>8, OneLess
<1>10. JobsInOrder'
  BY <1>1, <1>3, <1>5, <1>7, <1>8, <1>9, IdleRun, JobMoves
<1>11. RowsAreTrue'
  BY <1>1, <1>4, <1>5, IdleRun, DraftRow DEF HistoryInv, RowsAreTrue, Online
<1>12. LogsInOrder'
  BY <1>1, <1>7, IdleRun, LogsLeft
<1> QED BY <1>7, <1>10, <1>11, <1>12 DEF HistoryInv

\* onFailed reads the row and writes it, or does not get that far.
LEMMA HookKeepsHistory ==
  ASSUME HistoryInv, NEW j \in Jobs, HookFind(j) \/ HookSave(j) \/ HookFails(j)
  PROVE  HistoryInv'
<1>1. /\ TypeOK /\ post \in Posts /\ hook \in [Jobs -> Hooks] /\ hook[j].row \in Posts
      /\ disturbed \in BOOLEAN /\ faults \in 0..MaxFaults
      /\ UNCHANGED <<account, request, job, made, stalls, work, logs, sent>>
  BY TypesOf DEF HistoryInv, Types, Hooks, HookFind, HookSave, HookFails, owner, bull
<1>2. PICK new \in Hooks : hook' = [hook EXCEPT ![j] = new] /\ new.row \in {Draft, post}
  BY <1>1, DraftRow DEF HookFind, HookSave, HookFails, NoHook, Hooks
<1>3. hook' \in [Jobs -> Hooks] /\ \A d \in Jobs : hook'[d].row \in {Draft, post, hook[d].row}
  BY <1>1, <1>2
<1>4. disturbed' \in BOOLEAN
  BY <1>1, Zenon DEF HookFind, HookSave, HookFails, Disturb
<1>5. faults' \in 0..MaxFaults /\ (faults' = 0 => faults = 0)
  BY <1>1, FaultCounted DEF HookFind, HookSave, HookFails
<1>6. post' \in Posts /\ (post' = post \/ post'.status = "FAILED")
  BY <1>1, StatusWritten DEF HookFind, HookSave, HookFails
<1>7. TypeOK'
  BY <1>1, <1>3, <1>4, <1>5, <1>6, TypesOf, TypesNext DEF Types
<1>8. JobsInOrder'
  BY <1>1, <1>7, JobsStay DEF HistoryInv
<1>9. RowsAreTrue'
  BY <1>1, <1>3, <1>6, DraftRow DEF HistoryInv, RowsAreTrue, Online
<1>10. LogsInOrder'
  BY <1>1, <1>5, LogsStay DEF HistoryInv
<1> QED BY <1>7, <1>8, <1>9, <1>10 DEF HistoryInv

\* The worker dies.
LEMMA CrashKeepsHistory ==
  ASSUME HistoryInv, NEW j \in Jobs, Crash(j)
  PROVE  HistoryInv'
<1> DEFINE state == IF stalls[j] < MaxStalled THEN "waiting" ELSE "failed"
<1>1. /\ TypeOK /\ JobsInOrder /\ job[j] = "active" /\ made[j] < Attempts
      /\ job' = [job EXCEPT ![j] = state] /\ work' = [work EXCEPT ![j] = Idle]
      /\ disturbed' = TRUE /\ Fault
      /\ UNCHANGED <<post, account, request, made, hook, logs, sent>>
  BY DEF HistoryInv, Crash, owner, JobsInOrder
<1>2. stalls' \in [Jobs -> 0..MaxStalled]
  BY <1>1, TypesOf DEF Types, Crash, MaxStalled
<1>3. faults' \in 0..MaxFaults /\ faults' # 0
  BY <1>1, FaultCounted
<1>4. work' \in [Jobs -> Runs] /\ work'[j] = Idle /\ \A d \in Jobs \ {j} : work'[d] = work[d]
  BY <1>1, IdleRun, RunMoves
<1>5. state \in {"waiting", "failed"}
  OBVIOUS
<1> HIDE DEF state
<1>6. TypeOK'
  BY <1>1, <1>2, <1>3, <1>4, <1>5, TypesOf, TypesNext DEF Types
<1>7. Cardinality(Active') <= Workers
  BY <1>1, <1>5, <1>6, OneLess
<1>8. JobsInOrder'
  BY <1>1, <1>4, <1>5, <1>6, <1>7, IdleRun, JobMoves
<1>9. RowsAreTrue'
  BY <1>1, <1>4, IdleRun, DraftRow DEF HistoryInv, RowsAreTrue, Online
<1>10. LogsInOrder'
  BY <1>1, <1>3, <1>6, IdleRun, LogsLeft
<1> QED BY <1>6, <1>8, <1>9, <1>10 DEF HistoryInv
-----------------------------------------------------------------------------
LEMMA HistoryNext ==
  ASSUME HistoryInv, [Next]_vars
  PROVE  HistoryInv'
<1>1. ASSUME NEW q \in Requests, Serve(q) PROVE HistoryInv'
  BY <1>1, OwnerKeepsHistory
<1>2. ASSUME NEW j \in Jobs, Work(j) PROVE HistoryInv'
  <2>1. CASE Promote(j) \/ Take(j)
    BY <2>1, PromoteKeepsHistory, TakeKeepsHistory
  <2>2. CASE FindRow(j) \/ MarkPublishing(j) \/ OpenLog(j) \/ ResolveAccount(j)
    BY <2>2, FindRowKeepsHistory, MarkPublishingKeepsHistory, OpenLogKeepsHistory, ResolveAccountKeepsHistory
  <2>3. CASE Publish(j) \/ \E token \in BOOLEAN : PlatformRefuses(j, token)
    BY <2>3, PublishKeepsHistory, PlatformRefusesKeepsHistory
  <2>4. CASE Record(j) \/ Finish(j) \/ HandleError(j) \/ Fail(j)
    BY <2>4, RecordKeepsHistory, FinishKeepsHistory, HandleErrorKeepsHistory, FailKeepsHistory
  <2>5. CASE HookFind(j) \/ HookSave(j)
    BY <2>5, HookKeepsHistory
  <2> QED BY <1>2, <2>1, <2>2, <2>3, <2>4, <2>5 DEF Work
<1>3. ASSUME NEW j \in Jobs,
             PublishUnanswered(j) \/ RecordFails(j) \/ OpenFails(j) \/ HandlingFails(j) \/ HookFails(j) \/ Crash(j)
      PROVE  HistoryInv'
  BY <1>3, RunFaultKeepsHistory, HookKeepsHistory, CrashKeepsHistory
<1>4. CASE Disconnect \/ Reconnect
  BY <1>4, AccountKeepsHistory
<1>5. CASE UNCHANGED vars
  <2>1. UNCHANGED <<post, account, request, job, made, stalls, work, hook, logs, sent, disturbed, faults>>
    BY <1>5 DEF vars
  <2>2. TypeOK'
    BY <2>1, TypesOf, TypesNext DEF HistoryInv, Types
  <2>3. JobsInOrder'
    BY <2>1, <2>2, JobsStay DEF HistoryInv
  <2>4. RowsAreTrue' /\ LogsInOrder'
    BY <2>1, LogsStay DEF HistoryInv, RowsAreTrue, Online
  <2> QED BY <2>2, <2>3, <2>4 DEF HistoryInv
<1> QED BY <1>1, <1>2, <1>3, <1>4, <1>5 DEF Next

\* The bound on the publications is that of the runs that are still to publish.
LEMMA HistoryIsTrue == HistoryInv => PublishingInv
<1> SUFFICES ASSUME HistoryInv PROVE PublishingInv
  OBVIOUS
<1>1. TypeOK /\ WorkersInOrder
  BY DEF HistoryInv, JobsInOrder
<1>2. post.status = "PUBLISHED" => sent > 0
  BY DEF HistoryInv, RowsAreTrue, Online
<1>3. sent <= AllLogs
  <2>1. IsFiniteSet(Coming)
    BY JobsFinite, FS_Subset DEF Coming
  <2>2. Cardinality(Coming) \in Nat
    BY <2>1, FS_CardinalityType
  <2>3. sent \in Nat /\ AllLogs \in Nat /\ sent + Cardinality(Coming) <= AllLogs
    BY TypesOf DEF HistoryInv, Types, LogsInOrder, AllLogs, LogStatuses
  <2> QED BY <2>2, <2>3
<1>4. faults = 0 => sent = logs["SUCCESS"] + Cardinality(Recording)
  BY DEF HistoryInv, LogsInOrder
<1> QED BY <1>1, <1>2, <1>3, <1>4 DEF PublishingInv, LogsMatchPlatform, AllLogs

\* The publishing history tells the truth, however requests, workers, retries
\* and faults interleave (social-publishing.processor.ts, social-posts.service.ts):
\* a post is shown as published only if it is online, and every publication has
\* its log row.
THEOREM HistoryTellsTheTruth == Spec => []PublishingInv
<1>1. Init => HistoryInv
  BY HistoryInit
<1>2. HistoryInv /\ [Next]_vars => HistoryInv'
  BY HistoryNext
<1>3. HistoryInv => PublishingInv
  BY HistoryIsTrue
<1> QED BY <1>1, <1>2, <1>3, PTL DEF Spec
-----------------------------------------------------------------------------
(* Posts that nobody disturbs *)

\* As long as nobody writes to the post while a worker has it, one job at most is
\* active, and a post that is online is being recorded by it, or is recorded.
Published == {"record", "finish", "finishing"}
OnlineOnce ==
  /\ \A i, j \in Jobs : job[i] = "active" /\ job[j] = "active" => i = j
  /\ \/ sent = 0
     \/ sent = 1 /\ post.status = "PUBLISHED" /\ Active = {}
     \/ sent = 1 /\ \E j \in Jobs : work[j].at \in Published

\* A post that is publishing, or scheduled, has a job that will settle it, or that
\* gave up early, or a cancellation that will write the row.
Pending(j) ==
  \/ job[j] \in {"delayed", "waiting", "active"} \/ hook[j].at # "none"
  \/ job[j] = "failed" /\ made[j] < Attempts
Cancelling == \E q \in Requests : request[q].kind = "cancel" /\ request[q].at \in {"find", "save"}
Settling ==
  /\ post.status = "PUBLISHING" => Cancelling \/ \E j \in Jobs : Pending(j)
  /\ post.status = "SCHEDULED" => Cancelling \/ job[Scheduled] # "none"

UndisturbedInv == ~disturbed => OnlineOnce /\ (~post.deleted => Settling)

LEMMA ActiveHasRun == ASSUME HistoryInv, NEW j \in Jobs PROVE job[j] = "active" <=> work[j].at # "none"
BY DEF HistoryInv, JobsInOrder, WorkersInOrder

\* A run that has not published yet, or a post that no run has, is not online.
LEMMA NotOnline ==
  ASSUME HistoryInv, OnlineOnce,
         \/ \E j \in Jobs : work[j].at # "none" /\ work[j].at \notin Published
         \/ Active = {} /\ post.status # "PUBLISHED"
  PROVE  sent = 0
<1>1. CASE \E j \in Jobs : work[j].at # "none" /\ work[j].at \notin Published
  <2>1. PICK j \in Jobs : work[j].at # "none" /\ work[j].at \notin Published
    BY <1>1
  <2>2. j \in Active /\ \A i \in Jobs : work[i].at \in Published => i = j
    BY <2>1, ActiveHasRun DEF OnlineOnce, Active, Published
  <2> QED BY <2>1, <2>2 DEF OnlineOnce
<1>2. CASE Active = {} /\ post.status # "PUBLISHED"
  <2>1. \A j \in Jobs : work[j].at \notin Published
    BY <1>2, ActiveHasRun DEF Active, Published
  <2> QED BY <1>2, <2>1 DEF OnlineOnce
<1> QED BY <1>1, <1>2

LEMMA UndisturbedInit == Init => UndisturbedInv
BY DEF Init, UndisturbedInv, OnlineOnce, Settling, Draft

\* The jobs, the hooks and the row stay; a run that has published goes on with it.
LEMMA RunStays ==
  ASSUME UndisturbedInv, ~disturbed, NEW j \in Jobs,
         UNCHANGED <<post, request, job, made, hook, sent>>,
         \A d \in Jobs \ {j} : work'[d] = work[d],
         work[j].at \in Published => work'[j].at \in Published
  PROVE  UndisturbedInv'
<1>1. OnlineOnce'
  <2>1. \A d \in Jobs : work[d].at \in Published => work'[d].at \in Published
    OBVIOUS
  <2>2. Active' = Active
    BY DEF Active
  <2> QED BY <2>1, <2>2 DEF UndisturbedInv, OnlineOnce
<1>2. ~post'.deleted => Settling'
  <2>1. Cancelling' = Cancelling /\ \A d \in Jobs : Pending(d)' = Pending(d)
    BY DEF Cancelling, Pending
  <2> QED BY <2>1 DEF UndisturbedInv, Settling
<1> QED BY <1>1, <1>2 DEF UndisturbedInv

\* Nobody has the post when somebody else than a worker writes it undisturbed.
LEMMA UndisturbedWrite ==
  ASSUME HistoryInv, UndisturbedInv, ~disturbed, NEW row, ~Disturbing(None, row)
  PROVE  Active = {} /\ row = post /\ post.status # "PUBLISHED" /\ sent = 0
<1>1. Active \ {None} = {} /\ row = post /\ post.status # "PUBLISHED"
  BY DEF Disturbing
<1>2. Active = {}
  BY <1>1, PublishingAssumption DEF Active
<1> QED BY <1>1, <1>2, NotOnline DEF UndisturbedInv

LEMMA OwnerUndisturbed ==
  ASSUME HistoryInv, UndisturbedInv, NEW q \in Requests, Serve(q), ~disturbed'
  PROVE  UndisturbedInv'
<1>1. /\ request \in [Requests -> Calls] /\ post \in Posts /\ request[q].kind \in Kinds /\ request[q].row \in Posts
      /\ job \in [Jobs -> {"none", "delayed", "waiting", "active", "completed", "failed"}]
      /\ \A p \in Requests : job[p] \in {"none", "delayed", "waiting", "active", "completed", "failed"}
  BY TypesOf DEF HistoryInv, Types, Calls, Jobs
<1>2. CASE (\E kind \in Kinds : Start(q, kind)) \/ EnqueueFails(q) \/ FindPost(q)
  <2>1. /\ ~disturbed /\ OnlineOnce /\ (~post.deleted => Settling)
        /\ UNCHANGED <<post, job, made, work, hook, sent>>
    <3>1. UNCHANGED <<post, job, made, work, hook, sent, disturbed>>
      BY <1>2 DEF Start, EnqueueFails, FindPost, bull
    <3>2. ~disturbed
      BY <3>1
    <3> QED BY <3>1, <3>2 DEF UndisturbedInv
  <2>2. \A p \in Requests \ {q} : request'[p] = request[p]
    BY <1>1, <1>2 DEF Start, EnqueueFails, End, FindPost
  <2>3. request[q].kind = "cancel" /\ request[q].at \in {"find", "save"} =>
          request'[q].kind = "cancel" /\ request'[q].at \in {"find", "save"}
    BY <1>1, <1>2 DEF Start, EnqueueFails, FindPost, Calls
  <2>4. Cancelling => Cancelling'
    BY <2>2, <2>3 DEF Cancelling
  <2>5. OnlineOnce'
    BY <2>1 DEF OnlineOnce, Active
  <2>6. \A j \in Jobs : Pending(j)' = Pending(j)
    BY <2>1 DEF Pending
  <2>7. ~post'.deleted => Settling'
    BY <2>1, <2>4, <2>6 DEF Settling
  <2> QED BY <2>5, <2>7 DEF UndisturbedInv
<1>3. CASE EnqueueNow(q) \/ EnqueueLater(q)
  <2>1. /\ ~disturbed /\ OnlineOnce /\ (~post.deleted => Settling)
        /\ UNCHANGED <<post, made, work, hook, sent>>
        /\ request' = [request EXCEPT ![q].at = "find"] /\ request[q].at = "queue"
    BY <1>3 DEF EnqueueNow, EnqueueLater, ToFind, UndisturbedInv
  <2>2. q \in Jobs /\ Scheduled \in Jobs
    BY DEF Jobs
  <2>3. job[q] = "none" \/ EnqueueLater(q)
    BY <1>3, <2>1 DEF HistoryInv, JobsInOrder
  <2>4. \A j \in Jobs : job'[j] = job[j] \/ (job[j] = "none" /\ job'[j] \in {"waiting", "delayed"})
    BY <1>1, <1>3, <2>2, <2>3 DEF EnqueueNow, EnqueueLater
  <2>5. Cancelling => Cancelling'
    BY <1>1, <2>1 DEF Cancelling, Calls
  <2>6. OnlineOnce'
    BY <2>1, <2>4 DEF OnlineOnce, Active
  <2>7. \A j \in Jobs : Pending(j) => Pending(j)'
    BY <2>1, <2>4 DEF Pending
  <2>8. ~post'.deleted => Settling'
    BY <2>1, <2>2, <2>4, <2>5, <2>7 DEF Settling
  <2> QED BY <2>6, <2>8 DEF UndisturbedInv
<1>4. CASE RemoveJob(q)
  <2>1. /\ ~disturbed /\ OnlineOnce /\ UNCHANGED <<post, work, hook, sent>>
        /\ request' = [request EXCEPT ![q].at = "find"] /\ request[q].kind = "cancel"
    BY <1>4 DEF RemoveJob, UndisturbedInv
  <2>2. Cancelling'
    BY <1>1, <2>1 DEF Cancelling, Calls
  <2>3. \A j \in Jobs : job'[j] = "active" => job[j] = "active"
    BY <1>1, <1>4 DEF RemoveJob
  <2>4. OnlineOnce'
    BY <2>1, <2>3 DEF OnlineOnce, Active
  <2> QED BY <2>2, <2>4 DEF UndisturbedInv, Settling
<1>5. CASE SavePost(q)
  <2>1. /\ ~disturbed /\ ~Disturbing(None, request[q].row) /\ ~Late(q) /\ OnlineOnce
        /\ (~post.deleted => Settling) /\ UNCHANGED <<job, made, work, hook, sent>>
        /\ post' = Changed(request[q].kind, request[q].row)
        /\ request' = [request EXCEPT ![q].at = "done", ![q].row = Draft]
    BY <1>5 DEF SavePost, End, bull, UndisturbedInv
  <2>2. Active = {} /\ request[q].row = post /\ post.status # "PUBLISHED" /\ sent = 0
    BY <2>1, UndisturbedWrite
  <2>3. OnlineOnce'
    BY <2>1, <2>2 DEF OnlineOnce
  <2>4. ASSUME ~post'.deleted PROVE Settling'
    <3>1. CASE request[q].kind = "publishNow"
      <4>1. post'.status = "PUBLISHING"
        BY <1>1, <2>1, <2>2, <3>1, StatusWritten DEF Changed
      <4>2. q \in Jobs /\ job[q] \notin {"none", "completed", "failed"}
        BY <2>1, <3>1 DEF Late, Ended, Jobs
      <4>3. Pending(q)'
        BY <1>1, <2>1, <4>2 DEF Pending
      <4> QED BY <4>1, <4>2, <4>3 DEF Settling
    <3>2. CASE request[q].kind = "schedule"
      <4>1. post'.status = "SCHEDULED"
        BY <1>1, <2>1, <2>2, <3>2, StatusWritten DEF Changed
      <4>2. job'[Scheduled] # "none"
        BY <2>1, <3>2 DEF Late
      <4> QED BY <4>1, <4>2 DEF Settling
    <3>3. CASE request[q].kind = "cancel"
      <4>1. post'.status = "DRAFT"
        BY <1>1, <2>1, <2>2, <3>3, StatusWritten DEF Changed
      <4> QED BY <4>1 DEF Settling
    <3>4. CASE request[q].kind = "delete"
      BY <2>1, <2>4, <3>4 DEF Changed
    <3>5. CASE request[q].kind = "edit"
      <4>1. post' = post
        BY <2>1, <2>2, <3>5 DEF Changed
      <4>2. Cancelling => Cancelling'
        BY <1>1, <2>1, <3>5 DEF Cancelling
      <4>3. \A j \in Jobs : Pending(j)' = Pending(j)
        BY <2>1 DEF Pending
      <4> QED BY <2>1, <2>4, <4>1, <4>2, <4>3 DEF Settling
    <3> QED BY <1>1, <3>1, <3>2, <3>3, <3>4, <3>5 DEF Kinds
  <2> QED BY <2>3, <2>4 DEF UndisturbedInv
<1>6. CASE RequestLost(q)
  BY <1>6 DEF RequestLost
<1> QED BY <1>2, <1>3, <1>4, <1>5, <1>6 DEF Serve

\* The steps of a run that leave the job and the row of the post alone.
LEMMA RunUndisturbed ==
  ASSUME HistoryInv, UndisturbedInv, NEW j \in Jobs, ~disturbed',
         \/ FindRow(j) \/ OpenLog(j) \/ ResolveAccount(j) \/ Record(j) \/ HandleError(j)
         \/ HandlingFails(j) \/ OpenFails(j) \/ \E token \in BOOLEAN : PlatformRefuses(j, token)
  PROVE  UndisturbedInv'
<1>1. work \in [Jobs -> Runs] /\ work[j] \in Runs
  BY TypesOf DEF HistoryInv, Types
<1>2. ~disturbed /\ UNCHANGED <<post, request, job, made, hook, sent>>
  BY DEF FindRow, OpenLog, ResolveAccount, Record, HandleError, HandlingFails, OpenFails, PlatformRefuses,
         owner, bull
<1>3. \A d \in Jobs \ {j} : work'[d] = work[d]
  BY <1>1 DEF FindRow, OpenLog, ResolveAccount, Record, HandleError, HandlingFails, OpenFails, PlatformRefuses, Goto
<1>4. work[j].at \in Published => work'[j].at \in Published
  <2> SUFFICES ASSUME work[j].at \in Published PROVE work'[j].at \in Published
    OBVIOUS
  <2>1. CASE FindRow(j)
    BY <1>1, <2>1 DEF FindRow, Published, Runs
  <2>2. CASE Record(j)
    BY <1>1, <2>2 DEF Record, Published, Runs
  <2> QED BY <2>1, <2>2
       DEF Published, OpenLog, ResolveAccount, HandleError, HandlingFails, OpenFails, PlatformRefuses
<1> QED BY <1>2, <1>3, <1>4, RunStays

\* A run that is the only one marks the post, publishes it or finishes it.
LEMMA OnlyRunUndisturbed ==
  ASSUME HistoryInv, UndisturbedInv, NEW j \in Jobs, ~disturbed', MarkPublishing(j) \/ Publish(j) \/ Finish(j)
  PROVE  UndisturbedInv'
<1>1. /\ work \in [Jobs -> Runs] /\ work[j] \in Runs /\ ~disturbed /\ OnlineOnce /\ work[j].row \in Posts
      /\ job \in [Jobs -> {"none", "delayed", "waiting", "active", "completed", "failed"}]
  BY RunOf, TypesOf DEF HistoryInv, Types, UndisturbedInv, MarkPublishing, Publish, Finish, Disturb
<1>2. job[j] = "active" /\ \A i \in Jobs : job[i] = "active" => i = j
  BY <1>1, ActiveHasRun DEF OnlineOnce, MarkPublishing, Publish, Finish
<1>3. CASE MarkPublishing(j)
  <2>1. post'.status = "PUBLISHING" /\ UNCHANGED <<request, job, made, hook, sent>>
    BY <1>1, <1>3, StatusWritten DEF MarkPublishing, owner, bull
  <2>2. sent = 0
    BY <1>1, <1>3, NotOnline DEF MarkPublishing, Published
  <2>3. OnlineOnce'
    BY <1>1, <2>1, <2>2 DEF OnlineOnce
  <2>4. Pending(j)'
    BY <1>2, <2>1 DEF Pending
  <2> QED BY <2>1, <2>3, <2>4 DEF UndisturbedInv, Settling
<1>4. CASE Publish(j)
  <2>1. UNCHANGED <<post, request, job, made, hook>> /\ sent' = sent + 1
    BY <1>4 DEF Publish, owner, bull
  <2>2. sent = 0
    BY <1>1, <1>4, NotOnline DEF Publish, Published
  <2>3. work'[j].at = "record"
    BY <1>1, <1>4 DEF Publish, Goto, Runs
  <2>4. OnlineOnce'
    BY <1>1, <2>1, <2>2, <2>3 DEF OnlineOnce, Published
  <2>5. Cancelling' = Cancelling /\ \A i \in Jobs : Pending(i)' = Pending(i)
    BY <2>1 DEF Cancelling, Pending
  <2> QED BY <1>1, <2>1, <2>4, <2>5 DEF UndisturbedInv, Settling
<1>5. CASE Finish(j)
  <2>1. post'.status = "PUBLISHED" /\ job' = [job EXCEPT ![j] = "completed"] /\ sent' = sent
    BY <1>1, <1>5, StatusWritten DEF Finish
  <2>2. \A i \in Jobs : job'[i] # "active"
    BY <1>1, <1>2, <2>1
  <2>3. sent > 0
    BY <1>5 DEF Finish, HistoryInv, RowsAreTrue, Online
  <2>4. OnlineOnce'
    BY <1>1, <2>1, <2>2, <2>3 DEF OnlineOnce, Active
  <2> QED BY <2>1, <2>4 DEF UndisturbedInv, Settling
<1> QED BY <1>3, <1>4, <1>5

\* The queue of a job that is not the one that publishes.
LEMMA QueueUndisturbed ==
  ASSUME HistoryInv, UndisturbedInv, NEW j \in Jobs, ~disturbed', Promote(j) \/ Take(j) \/ Fail(j)
  PROVE  UndisturbedInv'
<1>1. /\ ~disturbed /\ OnlineOnce /\ (~post.deleted => Settling)
      /\ UNCHANGED <<post, request, sent>>
      /\ job \in [Jobs -> {"none", "delayed", "waiting", "active", "completed", "failed"}]
      /\ made \in [Jobs -> 0..Attempts] /\ hook \in [Jobs -> Hooks] /\ work \in [Jobs -> Runs]
  BY TypesOf DEF HistoryInv, Types, UndisturbedInv, Promote, Take, Fail, owner
<1>2. Cancelling' = Cancelling
  BY <1>1 DEF Cancelling
<1>3. CASE Promote(j)
  <2>1. job[j] = "delayed" /\ job' = [job EXCEPT ![j] = "waiting"] /\ UNCHANGED <<made, work, hook>>
    BY <1>3 DEF Promote
  <2>2. \A i \in Jobs : (job'[i] = "active" <=> job[i] = "active") /\ (job[i] # "none" => job'[i] # "none")
    BY <1>1, <2>1
  <2>3. OnlineOnce'
    BY <1>1, <2>1, <2>2 DEF OnlineOnce, Active
  <2>4. \A i \in Jobs : Pending(i) => Pending(i)'
    BY <1>1, <2>1 DEF Pending
  <2>5. ~post'.deleted => Settling'
    BY <1>1, <1>2, <2>2, <2>4 DEF Settling, Jobs
  <2> QED BY <2>3, <2>5 DEF UndisturbedInv
<1>4. CASE Take(j)
  <2>1. job[j] = "waiting" /\ UNCHANGED <<made, hook>> /\ Active = {}
    BY <1>4 DEF Take
  <2>2. CASE Skipped
    <3>1. job' = [job EXCEPT ![j] = "completed"] /\ UNCHANGED work
      BY <1>4, <2>2 DEF Take
    <3>2. \A i \in Jobs : job'[i] = "active" => job[i] = "active"
      BY <1>1, <3>1
    <3>3. OnlineOnce'
      BY <1>1, <3>1, <3>2 DEF OnlineOnce, Active
    <3>4. ~post'.deleted => post'.status = "PUBLISHED"
      BY <1>1, <2>2 DEF Skipped
    <3> QED BY <3>3, <3>4 DEF UndisturbedInv, Settling
  <2>3. CASE ~Skipped
    <3>1. job' = [job EXCEPT ![j] = "active"]
      BY <1>4, <2>3 DEF Take
    <3>2. sent = 0
      BY <1>1, <2>1, <2>3, NotOnline DEF Skipped
    <3>3. \A i \in Jobs : job'[i] = "active" => i = j
      BY <1>1, <2>1, <3>1 DEF Active
    <3>4. OnlineOnce'
      BY <1>1, <3>2, <3>3 DEF OnlineOnce
    <3>5. \A i \in Jobs : (Pending(i) => Pending(i)') /\ (job[i] # "none" => job'[i] # "none")
      BY <1>1, <2>1, <3>1 DEF Pending
    <3>6. ~post'.deleted => Settling'
      BY <1>1, <1>2, <3>5 DEF Settling, Jobs
    <3> QED BY <3>4, <3>6 DEF UndisturbedInv
  <2> QED BY <2>2, <2>3
<1>5. CASE Fail(j)
  <2>1. /\ work[j].at = "thrown" /\ made' = [made EXCEPT ![j] = @ + 1]
        /\ job' = [job EXCEPT ![j] = IF WillRetry(j) THEN "delayed" ELSE "failed"]
        /\ hook' = [hook EXCEPT ![j].at = IF made'[j] >= Attempts THEN "find" ELSE "none"]
    BY <1>5 DEF Fail
  <2>2. sent = 0
    BY <1>1, <2>1, NotOnline DEF Published
  <2>3. \A i \in Jobs : (job'[i] = "active" => job[i] = "active") /\ (job[i] # "none" => job'[i] # "none")
    BY <1>1, <2>1
  <2>4. OnlineOnce'
    BY <1>1, <2>2, <2>3 DEF OnlineOnce
  <2>5. Pending(j)'
    <3>1. job'[j] \in {"delayed", "failed"} /\ made'[j] \in Nat
      BY <1>1, <2>1 DEF Attempts
    <3>2. hook'[j].at = IF made'[j] >= Attempts THEN "find" ELSE "none"
      BY <1>1, <2>1 DEF Hooks
    <3> QED BY <3>1, <3>2 DEF Pending, Attempts
  <2>6. \A i \in Jobs \ {j} : Pending(i) => Pending(i)'
    BY <1>1, <2>1 DEF Pending
  <2>7. ~post'.deleted => Settling'
    BY <1>1, <1>2, <2>3, <2>5, <2>6 DEF Settling, Jobs
  <2> QED BY <2>4, <2>7 DEF UndisturbedInv
<1> QED BY <1>3, <1>4, <1>5

LEMMA HookUndisturbed ==
  ASSUME HistoryInv, UndisturbedInv, NEW j \in Jobs, ~disturbed', HookFind(j) \/ HookSave(j)
  PROVE  UndisturbedInv'
<1>1. /\ ~disturbed /\ OnlineOnce /\ (~post.deleted => Settling)
      /\ UNCHANGED <<request, job, made, work, sent>>
      /\ hook \in [Jobs -> Hooks] /\ hook[j].row \in Posts
  BY TypesOf DEF HistoryInv, Types, Hooks, UndisturbedInv, HookFind, HookSave, Disturb, owner, bull
<1>2. CASE HookFind(j)
  <2>1. UNCHANGED post /\ hook' = [hook EXCEPT ![j] = [at |-> "save", row |-> post]]
    BY <1>2 DEF HookFind
  <2>2. OnlineOnce'
    BY <1>1, <2>1 DEF OnlineOnce, Active
  <2>3. Cancelling' = Cancelling /\ \A i \in Jobs : Pending(i) => Pending(i)'
    BY <1>1, <2>1 DEF Cancelling, Pending
  <2>4. ~post'.deleted => Settling'
    BY <1>1, <2>1, <2>3 DEF Settling
  <2> QED BY <2>2, <2>4 DEF UndisturbedInv
<1>3. CASE HookSave(j)
  <2>1. ~Disturbing(None, hook[j].row) /\ post'.status = "FAILED"
    BY <1>1, <1>3, StatusWritten DEF HookSave, Disturb
  <2>2. sent = 0
    BY <1>1, <2>1, UndisturbedWrite
  <2>3. OnlineOnce'
    BY <1>1, <2>2 DEF OnlineOnce
  <2> QED BY <2>1, <2>3 DEF UndisturbedInv, Settling
<1> QED BY <1>2, <1>3

LEMMA UndisturbedNext ==
  ASSUME HistoryInv, UndisturbedInv, [Next]_vars
  PROVE  UndisturbedInv'
<1> SUFFICES ASSUME ~disturbed' PROVE UndisturbedInv'
  BY DEF UndisturbedInv
<1>1. ASSUME NEW q \in Requests, Serve(q) PROVE UndisturbedInv'
  BY <1>1, OwnerUndisturbed
<1>2. ASSUME NEW j \in Jobs, Work(j) PROVE UndisturbedInv'
  BY <1>2, RunUndisturbed, OnlyRunUndisturbed, QueueUndisturbed, HookUndisturbed DEF Work
<1>3. ASSUME NEW j \in Jobs,
             PublishUnanswered(j) \/ RecordFails(j) \/ OpenFails(j) \/ HandlingFails(j) \/ HookFails(j) \/ Crash(j)
      PROVE  UndisturbedInv'
  <2>1. OpenFails(j) \/ HandlingFails(j)
    BY <1>3 DEF PublishUnanswered, RecordFails, HookFails, Crash
  <2> QED BY <2>1, RunUndisturbed
<1>4. CASE Disconnect \/ Reconnect \/ UNCHANGED vars
  <2>1. UNCHANGED <<post, request, job, made, work, hook, sent, disturbed>>
    BY <1>4 DEF Disconnect, Reconnect, bull, vars
  <2>2. ~disturbed /\ Scheduled \in Jobs
    BY <2>1 DEF Jobs
  <2> QED BY <2>1, <2>2, RunStays
<1> QED BY <1>1, <1>2, <1>3, <1>4 DEF Next

LEMMA UndisturbedAlways == Spec => [](HistoryInv /\ UndisturbedInv)
<1>1. Init => HistoryInv /\ UndisturbedInv
  BY HistoryInit, UndisturbedInit
<1>2. HistoryInv /\ UndisturbedInv /\ [Next]_vars => HistoryInv' /\ UndisturbedInv'
  BY HistoryNext, UndisturbedNext
<1> QED BY <1>1, <1>2, PTL DEF Spec

\* A post is online once, whatever is retried, scheduled and published now
\* (the check of the status in process(), and the attempts of BullMQ), unless
\* somebody wrote to it while a worker had it or after.
THEOREM OnlineAtMostOnce == Spec => []PublishedOnce
<1>1. HistoryInv /\ UndisturbedInv => PublishedOnce
  <2> SUFFICES ASSUME HistoryInv, UndisturbedInv, ~disturbed PROVE sent <= 1
    BY Zenon DEF PublishedOnce
  <2> QED BY DEF UndisturbedInv, OnlineOnce
<1> QED BY <1>1, UndisturbedAlways, PTL

\* When nothing is under way any more, an undisturbed post is left publishing or
\* scheduled only by a job that gave up early, or that is still kept (onFailed,
\* and the job id of enqueueScheduled).
THEOREM QuietPostsAreSettled == Spec => []QuietIsSettled
<1>1. HistoryInv /\ UndisturbedInv => QuietIsSettled
  <2> SUFFICES ASSUME HistoryInv, UndisturbedInv, Quiet, ~disturbed
               PROVE  /\ post.status = "PUBLISHING" => \E j \in Jobs : job[j] = "failed" /\ made[j] < Attempts
                      /\ post.status = "SCHEDULED" => job[Scheduled] # "none"
    BY DEF QuietIsSettled
  <2>1. Settling /\ ~Cancelling
    BY DEF UndisturbedInv, Quiet, Cancelling
  <2>2. \A j \in Jobs : Pending(j) => job[j] = "failed" /\ made[j] < Attempts
    BY DEF Quiet, Pending, Ended
  <2> QED BY <2>1, <2>2 DEF Settling
<1> QED BY <1>1, UndisturbedAlways, PTL
====
