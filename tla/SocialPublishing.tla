-------------------------- MODULE SocialPublishing --------------------------
(* One social post: the requests of its owner (publish now, schedule,        *)
(* cancel, delete, edit), the BullMQ jobs they queue, and the workers that   *)
(* publish it.  Every update of the post reads the row and saves it again    *)
(* (socialPost.update), so what was written in between is written back.      *)
EXTENDS Naturals, FiniteSets

CONSTANTS
  Requests,   \* requests of the owner; publish now queues a job of its own
  Scheduled,  \* the job `scheduled_<post>` of every schedule request
  Workers,    \* number of API instances: each runs one job at a time
  MaxFaults,  \* bound: crashes, failing writes, lost answers of the platform
  None

Jobs == Requests \cup {Scheduled}
Kinds == {"publishNow", "schedule", "cancel", "delete", "edit"}
Attempts == 2     \* attempts of a job
MaxStalled == 1   \* BullMQ: how often the job of a dead worker is put back
ASSUME PublishingAssumption ==
  /\ IsFiniteSet(Requests) /\ Scheduled \notin Requests /\ None \notin Jobs
  /\ Workers \in Nat \ {0} /\ MaxFaults \in Nat

VARIABLES
  post,       \* row of SocialPost: status and deletedAt
  account,    \* the SocialAccount it is to be published with
  request,    \* request[q]: its kind, where it is, and the row it has read
  job,        \* job[j]: state of the BullMQ job
  made,       \* made[j]: attemptsMade
  stalls,     \* stalls[j]: how often it was put back
  work,       \* work[j]: where its worker is, the row it has read, its log, and
              \* whether its error is final and about the token
  hook,       \* hook[j]: where onFailed is for the failed job j, and its row
  logs,       \* logs[s]: number of PublishingLog rows with status s
  sent,       \* how often the platform has put the post online
  disturbed,  \* somebody wrote to the post while it was being published, or after
  faults      \* faults so far
vars == <<post, account, request, job, made, stalls, work, hook, logs, sent, disturbed,
          faults>>
bull == <<job, made, stalls>>

LogStatuses == {"PENDING", "SUCCESS", "RETRYING", "FAILED"}
Draft == [status |-> "DRAFT", deleted |-> FALSE]
Idle == [at |-> "none", row |-> Draft, log |-> "none", final |-> FALSE, token |-> FALSE]
NoHook == [at |-> "none", row |-> Draft]

Init ==
  /\ post = Draft
  /\ account \in {"CONNECTED", "EXPIRED"}
  /\ request = [q \in Requests |-> [kind |-> "edit", at |-> "idle", row |-> Draft]]
  /\ job = [j \in Jobs |-> "none"]
  /\ made = [j \in Jobs |-> 0]
  /\ stalls = [j \in Jobs |-> 0]
  /\ work = [j \in Jobs |-> Idle]
  /\ hook = [j \in Jobs |-> NoHook]
  /\ logs = [s \in LogStatuses |-> 0]
  /\ sent = 0
  /\ disturbed = FALSE
  /\ faults = 0

Fault == faults < MaxFaults /\ faults' = faults + 1
Ended == {"none", "completed", "failed"}
Active == {j \in Jobs : job[j] = "active"}
\* A write behind the back of a worker, of a row that has changed since it was
\* read, or by somebody else than a worker when the post is published.
Disturbing(j, row) ==
  Active \ {j} # {} \/ row # post \/ (j = None /\ post.status = "PUBLISHED")
Disturb(j, row) == disturbed' = (disturbed \/ Disturbing(j, row))
\* A request that writes its status when the job it has queued is over.
Late(q) ==
  \/ request[q].kind = "publishNow" /\ job[q] \in Ended
  \/ request[q].kind = "schedule" /\ job[Scheduled] = "none"
-----------------------------------------------------------------------------
(* Requests of the owner *)

\* What the service finds in the row when it starts.
Allowed(kind) ==
  CASE kind = "publishNow" -> post.status \notin {"PUBLISHED", "PUBLISHING"}
    [] kind \in {"schedule", "edit"} -> post.status # "PUBLISHED"
    [] kind = "cancel" -> post.status = "SCHEDULED"
    [] kind = "delete" -> post.status # "PUBLISHING"

Start(q, kind) ==
  /\ request[q].at = "idle" /\ Allowed(kind)
  /\ request' = [request EXCEPT ![q].kind = kind, ![q].at =
       IF kind \in {"delete", "edit"} THEN "find" ELSE "queue"]
  /\ UNCHANGED <<post, account, bull, work, hook, logs, sent, disturbed, faults>>

\* What it has read is forgotten.
End(q) == request' = [request EXCEPT ![q].at = "done", ![q].row = Draft]

ToFind(q) ==
  /\ request' = [request EXCEPT ![q].at = "find"]
  /\ UNCHANGED <<post, account, made, stalls, work, hook, logs, sent, disturbed, faults>>

EnqueueNow(q) ==
  /\ request[q].at = "queue" /\ request[q].kind = "publishNow"
  /\ job' = [job EXCEPT ![q] = "waiting"]
  /\ ToFind(q)

\* BullMQ ignores a job whose id it still has, in whatever state.
EnqueueLater(q) ==
  /\ request[q].at = "queue" /\ request[q].kind = "schedule"
  /\ job' = IF job[Scheduled] = "none" THEN [job EXCEPT ![Scheduled] = "delayed"] ELSE job
  /\ ToFind(q)

\* An active job cannot be removed; the failure is logged.
RemoveJob(q) ==
  /\ request[q].at = "queue" /\ request[q].kind = "cancel"
  /\ IF job[Scheduled] \in {"none", "active"} THEN UNCHANGED <<job, made, stalls>>
     ELSE /\ job' = [job EXCEPT ![Scheduled] = "none"]
          /\ made' = [made EXCEPT ![Scheduled] = 0]
          /\ stalls' = [stalls EXCEPT ![Scheduled] = 0]
  /\ request' = [request EXCEPT ![q].at = "find"]
  /\ UNCHANGED <<post, account, work, hook, logs, sent, disturbed, faults>>

\* Redis is unreachable: the caller gets a 503.
EnqueueFails(q) ==
  /\ request[q].at = "queue" /\ request[q].kind # "cancel"
  /\ End(q)
  /\ UNCHANGED <<post, account, bull, work, hook, logs, sent, disturbed, faults>>

FindPost(q) ==
  /\ request[q].at = "find"
  /\ request' = [request EXCEPT ![q].at = "save", ![q].row = post]
  /\ UNCHANGED <<post, account, bull, work, hook, logs, sent, disturbed, faults>>

\* What a request makes of the row it has read.
Changed(kind, row) ==
  CASE kind = "publishNow" -> [row EXCEPT !.status = "PUBLISHING"]
    [] kind = "schedule" -> [row EXCEPT !.status = "SCHEDULED"]
    [] kind = "cancel" -> [row EXCEPT !.status = "DRAFT"]
    [] kind = "delete" -> [status |-> "CANCELLED", deleted |-> TRUE]
    [] kind = "edit" -> row

SavePost(q) ==
  /\ request[q].at = "save"
  /\ post' = Changed(request[q].kind, request[q].row)
  /\ disturbed' = (disturbed \/ Disturbing(None, request[q].row) \/ Late(q))
  /\ End(q)
  /\ UNCHANGED <<account, bull, work, hook, logs, sent, faults>>

\* A write of the request fails, or its instance dies.
RequestLost(q) ==
  /\ request[q].at \notin {"idle", "done"} /\ Fault
  /\ End(q)
  /\ disturbed' = TRUE
  /\ UNCHANGED <<post, account, bull, work, hook, logs, sent>>

\* disconnect deletes the account for good.
Disconnect ==
  /\ account # "DELETED" /\ account' = "DELETED"
  /\ UNCHANGED <<post, request, bull, work, hook, logs, sent, disturbed, faults>>
\* handleOAuthCallback connects it again, unless it was deleted.
Reconnect ==
  /\ account = "EXPIRED" /\ account' = "CONNECTED"
  /\ UNCHANGED <<post, request, bull, work, hook, logs, sent, disturbed, faults>>
-----------------------------------------------------------------------------
(* SocialPublishingProcessor *)

Goto(j, label) == work' = [work EXCEPT ![j].at = label]
owner == <<account, request>>

\* The delay of a scheduled post, or the pause before a retry, is over.
Promote(j) ==
  /\ job[j] = "delayed"
  /\ job' = [job EXCEPT ![j] = "waiting"]
  /\ UNCHANGED <<post, owner, made, stalls, work, hook, logs, sent, disturbed, faults>>

\* The worker reads the post: there is nothing to do if it is deleted or published.
Skipped == post.deleted \/ post.status = "PUBLISHED"
\* (mistake) only the deletion is checked
TakePublished(j) ==
  /\ job[j] = "waiting" /\ Cardinality(Active) < Workers /\ ~post.deleted
  /\ job' = [job EXCEPT ![j] = "active"]
  /\ work' = [work EXCEPT ![j] =
       [Idle EXCEPT !.at = IF post.status = "PUBLISHING" THEN "open" ELSE "mark"]]
  /\ disturbed' = (disturbed \/ Active # {})
  /\ UNCHANGED <<post, owner, made, stalls, hook, logs, sent, faults>>
Take(j) ==
  /\ job[j] = "waiting" /\ Cardinality(Active) < Workers
  /\ IF Skipped THEN job' = [job EXCEPT ![j] = "completed"] /\ UNCHANGED work
     ELSE /\ job' = [job EXCEPT ![j] = "active"]
          /\ work' = [work EXCEPT ![j] =
               [Idle EXCEPT !.at = IF post.status = "PUBLISHING" THEN "open" ELSE "mark"]]
  /\ disturbed' = (disturbed \/ Active # {})
  /\ UNCHANGED <<post, owner, made, stalls, hook, logs, sent, faults>>

\* An update first reads the row: to mark the post, and to finish it.
FindRow(j) ==
  /\ work[j].at \in {"mark", "finish"}
  /\ work' = [work EXCEPT ![j].row = post,
                          ![j].at = IF @ = "mark" THEN "marking" ELSE "finishing"]
  /\ UNCHANGED <<post, owner, bull, hook, logs, sent, disturbed, faults>>

MarkPublishing(j) ==
  /\ work[j].at = "marking"
  /\ post' = [work[j].row EXCEPT !.status = "PUBLISHING"]
  /\ Disturb(j, work[j].row)
  /\ work' = [work EXCEPT ![j].at = "open", ![j].row = Draft]
  /\ UNCHANGED <<owner, bull, hook, logs, sent, faults>>

\* The log row of this run changes its status.
Log(j, from, to) ==
  logs' = [s \in LogStatuses |->
    logs[s] + (IF s = to THEN 1 ELSE 0) - (IF s = from THEN 1 ELSE 0)]

\* (mistake) no log row is opened
OpenNoLog(j) ==
  /\ work[j].at = "open"
  /\ Goto(j, "account")
  /\ UNCHANGED <<post, owner, bull, hook, logs, sent, disturbed, faults>>
OpenLog(j) ==
  /\ work[j].at = "open"
  /\ Log(j, "none", "PENDING")
  /\ work' = [work EXCEPT ![j].at = "account", ![j].log = "PENDING"]
  /\ UNCHANGED <<post, owner, bull, hook, sent, disturbed, faults>>

\* getAccountForPublishing: an account that is gone or expired is a final error.
ResolveAccount(j) ==
  /\ work[j].at = "account"
  /\ IF account = "CONNECTED" THEN Goto(j, "publish")
     ELSE work' = [work EXCEPT ![j].at = "error", ![j].final = TRUE,
                               ![j].token = (account = "EXPIRED")]
  /\ UNCHANGED <<post, owner, bull, hook, logs, sent, disturbed, faults>>

Publish(j) ==
  /\ work[j].at = "publish"
  /\ sent' = sent + 1
  /\ Goto(j, "record")
  /\ UNCHANGED <<post, owner, bull, hook, logs, disturbed, faults>>

PlatformRefuses(j, token) ==
  /\ work[j].at = "publish"
  /\ work' = [work EXCEPT ![j].at = "error", ![j].token = token]
  /\ UNCHANGED <<post, owner, bull, hook, logs, sent, disturbed, faults>>

\* The post is online, but the answer is lost or cannot be written down.
PublishUnanswered(j) ==
  /\ work[j].at = "publish" /\ Fault
  /\ sent' = sent + 1
  /\ disturbed' = TRUE
  /\ Goto(j, "error")
  /\ UNCHANGED <<post, owner, bull, hook, logs>>

RecordFails(j) ==
  /\ work[j].at \in {"account", "record", "finish", "finishing"} /\ Fault
  /\ disturbed' = TRUE
  /\ work' = [work EXCEPT ![j].at = "error", ![j].row = Draft]
  /\ UNCHANGED <<post, owner, bull, hook, logs, sent>>

Record(j) ==
  /\ work[j].at = "record"
  /\ Log(j, "PENDING", "SUCCESS")
  /\ work' = [work EXCEPT ![j].at = "finish", ![j].log = "SUCCESS"]
  /\ UNCHANGED <<post, owner, bull, hook, sent, disturbed, faults>>

Finish(j) ==
  /\ work[j].at = "finishing"
  /\ post' = [work[j].row EXCEPT !.status = "PUBLISHED"]
  /\ Disturb(j, work[j].row)
  /\ job' = [job EXCEPT ![j] = "completed"]
  /\ work' = [work EXCEPT ![j] = Idle]
  /\ UNCHANGED <<owner, made, stalls, hook, logs, sent, faults>>
-----------------------------------------------------------------------------
(* Failures *)

WillRetry(j) == ~work[j].final /\ made[j] + 1 < Attempts

\* An error about the token expires the account (a deletion that crosses this
\* update is kept or undone).
ExpireAccount(j) ==
  IF work[j].token
  THEN account' = "EXPIRED" \/ (account = "DELETED" /\ UNCHANGED account)
  ELSE UNCHANGED account

HandleError(j) ==
  /\ work[j].at = "error"
  /\ Log(j, work[j].log, IF WillRetry(j) THEN "RETRYING" ELSE "FAILED")
  /\ ExpireAccount(j)
  /\ Goto(j, "thrown")
  /\ UNCHANGED <<post, request, bull, hook, sent, disturbed, faults>>

\* The error cannot be recorded: the failing write replaces it, and is retried.
HandlingFails(j) ==
  /\ work[j].at = "error" /\ Fault
  /\ work' = [work EXCEPT ![j].at = "thrown", ![j].final = FALSE]
  /\ UNCHANGED <<post, owner, bull, hook, logs, sent, disturbed>>

\* The log cannot be opened: the error leaves process() without being handled.
OpenFails(j) ==
  /\ work[j].at \in {"mark", "marking", "open"} /\ Fault
  /\ Goto(j, "thrown")
  /\ UNCHANGED <<post, owner, bull, hook, logs, sent, disturbed>>

\* (mistake) the last attempt is not seen as the last
FailOffByOne(j) ==
  /\ work[j].at = "thrown"
  /\ made' = [made EXCEPT ![j] = @ + 1]
  /\ job' = [job EXCEPT ![j] = IF WillRetry(j) THEN "delayed" ELSE "failed"]
  /\ hook' = [hook EXCEPT ![j].at = IF made'[j] > Attempts THEN "find" ELSE "none"]
  /\ work' = [work EXCEPT ![j] = Idle]
  /\ UNCHANGED <<post, owner, stalls, logs, sent, disturbed, faults>>
\* BullMQ counts the attempt; onFailed acts when there are none left.
Fail(j) ==
  /\ work[j].at = "thrown"
  /\ made' = [made EXCEPT ![j] = @ + 1]
  /\ job' = [job EXCEPT ![j] = IF WillRetry(j) THEN "delayed" ELSE "failed"]
  /\ hook' = [hook EXCEPT ![j].at = IF made'[j] >= Attempts THEN "find" ELSE "none"]
  /\ work' = [work EXCEPT ![j] = Idle]
  /\ UNCHANGED <<post, owner, stalls, logs, sent, disturbed, faults>>

HookFind(j) ==
  /\ hook[j].at = "find"
  /\ hook' = [hook EXCEPT ![j] = [at |-> "save", row |-> post]]
  /\ UNCHANGED <<post, owner, bull, work, logs, sent, disturbed, faults>>

HookSave(j) ==
  /\ hook[j].at = "save"
  /\ post' = [hook[j].row EXCEPT !.status = "FAILED"]
  /\ Disturb(None, hook[j].row)
  /\ hook' = [hook EXCEPT ![j] = NoHook]
  /\ UNCHANGED <<owner, bull, work, logs, sent, faults>>

\* The update of onFailed fails, which is logged, or its instance dies.
HookFails(j) ==
  /\ hook[j].at # "none" /\ Fault
  /\ hook' = [hook EXCEPT ![j] = NoHook]
  /\ disturbed' = TRUE
  /\ UNCHANGED <<post, owner, bull, work, logs, sent>>

\* The instance dies: its stalled job is put back, the last time it has failed.
Crash(j) ==
  /\ job[j] = "active" /\ Fault
  /\ IF stalls[j] < MaxStalled
     THEN job' = [job EXCEPT ![j] = "waiting"] /\ stalls' = [stalls EXCEPT ![j] = @ + 1]
     ELSE job' = [job EXCEPT ![j] = "failed"] /\ UNCHANGED stalls
  /\ work' = [work EXCEPT ![j] = Idle]
  /\ disturbed' = TRUE
  /\ UNCHANGED <<post, owner, made, hook, logs, sent>>
-----------------------------------------------------------------------------
Serve(q) ==
  \/ \E kind \in Kinds : Start(q, kind)
  \/ EnqueueNow(q) \/ EnqueueLater(q) \/ RemoveJob(q) \/ EnqueueFails(q)
  \/ FindPost(q) \/ SavePost(q) \/ RequestLost(q)
Work(j) ==
  \/ Promote(j) \/ Take(j) \/ FindRow(j) \/ MarkPublishing(j) \/ OpenLog(j)
  \/ ResolveAccount(j) \/ Publish(j) \/ \E token \in BOOLEAN : PlatformRefuses(j, token)
  \/ Record(j) \/ Finish(j) \/ HandleError(j) \/ Fail(j) \/ HookFind(j) \/ HookSave(j)

Next ==
  \/ \E q \in Requests : Serve(q)
  \/ \E j \in Jobs : \/ Work(j) \/ PublishUnanswered(j) \/ RecordFails(j) \/ OpenFails(j)
                     \/ HandlingFails(j) \/ HookFails(j) \/ Crash(j)
  \/ Disconnect \/ Reconnect

Spec == Init /\ [][Next]_vars
-----------------------------------------------------------------------------
Posts == [status : {"DRAFT", "SCHEDULED", "PUBLISHING", "PUBLISHED", "FAILED", "CANCELLED"},
          deleted : BOOLEAN]
TypeOK ==
  /\ post \in Posts
  /\ account \in {"CONNECTED", "EXPIRED", "DELETED"}
  /\ request \in [Requests -> [kind : Kinds, at : {"idle", "queue", "find", "save", "done"},
                               row : Posts]]
  /\ job \in [Jobs -> {"none", "delayed", "waiting", "active", "completed", "failed"}]
  /\ made \in [Jobs -> 0..Attempts] /\ stalls \in [Jobs -> 0..MaxStalled]
  /\ work \in [Jobs -> [row : Posts, log : {"none"} \cup LogStatuses, final : BOOLEAN,
                        at : {"none", "mark", "marking", "open", "account", "publish",
                              "record", "finish", "finishing", "error", "thrown"},
                        token : BOOLEAN]]
  /\ hook \in [Jobs -> [at : {"none", "find", "save"}, row : Posts]]
  /\ logs \in [LogStatuses -> Nat] /\ sent \in Nat
  /\ disturbed \in BOOLEAN /\ faults \in 0..MaxFaults

WorkersInOrder ==
  /\ Cardinality(Active) <= Workers
  /\ \A j \in Jobs : job[j] = "active" <=> work[j].at # "none"

\* The history tells the truth: a post is shown as published only if it is
\* online, every publication has its log row, and unless something failed on
\* the way the successful rows are the publications, recorded or just about to.
Recording == {j \in Jobs : work[j].at = "record"}
LogsMatchPlatform ==
  /\ post.status = "PUBLISHED" => sent > 0
  /\ sent <= logs["PENDING"] + logs["SUCCESS"] + logs["RETRYING"] + logs["FAILED"]
  /\ faults = 0 => sent = logs["SUCCESS"] + Cardinality(Recording)

PublishingInv == TypeOK /\ WorkersInOrder /\ LogsMatchPlatform

\* A post is online once, whatever is retried, scheduled and published now,
\* unless a request wrote over its status while a worker had it or after.
PublishedOnce == disturbed \/ sent <= 1

\* When nothing is under way any more, an undisturbed post is not left in
\* between: it is publishing only if a job gave up before its last attempt,
\* and scheduled only if an old job of its id is still kept.
Quiet ==
  /\ ~post.deleted
  /\ \A q \in Requests : request[q].at \in {"idle", "done"}
  /\ \A j \in Jobs : job[j] \in Ended /\ hook[j].at = "none"
QuietIsSettled == Quiet /\ ~disturbed =>
  /\ post.status = "PUBLISHING" => \E j \in Jobs : job[j] = "failed" /\ made[j] < Attempts
  /\ post.status = "SCHEDULED" => job[Scheduled] # "none"

-----------------------------------------------------------------------------
(* What the documentation says *)

\* The request q is the only one under way.
Alone(q) == \A p \in Requests \ {q} : request[p].at \in {"idle", "done"}

\* "every post goes through DRAFT, (PUBLISHING or SCHEDULED), PUBLISHED|FAILED":
\* what its owner has made a draft again, and left alone, is not published.
DraftsStayPrivate == [][\A q \in Requests :
  /\ request[q].kind = "cancel" /\ request[q].at = "done" /\ Alone(q)
  /\ post.status = "DRAFT"
  => post'.status # "PUBLISHED"]_vars
=============================================================================
