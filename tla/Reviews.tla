------------------------------ MODULE Reviews ------------------------------
(* The Google reviews of one business.  A synchronization lists them, queues *)
(* an AI task for each that waits for a reply, and later posts what the task *)
(* has written, or asks the owner to approve it.  Nothing keeps two requests *)
(* from handling the same review.                                            *)
EXTENDS Naturals, Sequences, FiniteSets

CONSTANTS
  ReviewIds,      \* reviews of the selected location
  ReviewCalls,    \* requests in progress at once
  MaxReviewTasks  \* bound: AI tasks

ASSUME ReviewsAssumption == IsFiniteSet(ReviewIds) /\ MaxReviewTasks \in Nat

VARIABLES
  highRated,  \* reviews with 4 stars or more, which are answered automatically
  remembers,  \* the provider lists the replies it was given; the mock does not
  connection, \* GoogleBusinessConnection: "none", "connected", "located"
  review,     \* review[r]: status, whether aiReply and googleReply are set, agentTaskId
  rtask,      \* the tasks: the review, and the state
  reply,      \* reply[r]: who wrote the reply that Google shows
  rcall,      \* rcall[c]: a request: what it has still to do, and what it has read
  approved,   \* history: reviews the owner has answered
  posted,     \* history: posted[t]: the text of task t was posted never, once, or again
  loose       \* history: reviews handled by two requests at once, or given up midway
reviewVars == <<highRated, remembers, connection, review, rtask, reply, rcall, approved, posted, loose>>
world == <<highRated, remembers, connection, approved, posted, reply>>

NoReview == [status |-> "none", ai |-> FALSE, shown |-> FALSE, task |-> 0]
NoReviewCall == [kind |-> "none", at |-> "idle", todo |-> {}, on |-> CHOOSE r \in ReviewIds : TRUE,
                 seen |-> [r \in ReviewIds |-> 0], read |-> NoReview, status |-> "none", task |-> 0]
ReviewsInit ==
  /\ highRated \in SUBSET ReviewIds
  /\ remembers \in BOOLEAN
  /\ connection = "none"
  /\ review = [r \in ReviewIds |-> NoReview]
  /\ rtask = << >>
  /\ reply = [r \in ReviewIds |-> "nobody"]
  /\ rcall = [c \in ReviewCalls |-> NoReviewCall]
  /\ approved = {}
  /\ posted = << >>
  /\ loose = {}

\* Requests that act on r, or have it in the list they are reconciling.
Handling(r) ==
  {c \in ReviewCalls :
     \/ rcall[c].on = r /\ rcall[c].at \notin {"idle", "pending", "reconcile", "listing"}
     \/ r \in rcall[c].todo /\ rcall[c].at \in {"reconcile", "post", "find", "save"}}
\* A request goes on with r, on what it has read of it.
Go(c, r, at, fields) ==
  /\ rcall' = [rcall EXCEPT ![c] =
       [f \in DOMAIN @ |-> IF f \in DOMAIN fields THEN fields[f]
                           ELSE IF f = "at" THEN at ELSE IF f = "on" THEN r ELSE @[f]]]
  /\ loose' = IF Handling(r) \ {c} # {} THEN loose \cup {r} ELSE loose
Leave(c) == rcall' = [rcall EXCEPT ![c] = NoReviewCall]
\* The next review of the loop.
Continue(c) ==
  LET k == rcall[c]
      next == [NoReviewCall EXCEPT !.kind = k.kind, !.todo = k.todo \ {k.on}]
  IN  IF k.kind = "approve" THEN Leave(c)
      ELSE rcall' = [rcall EXCEPT ![c] =
             IF k.at \in {"upsert", "queued"} THEN [next EXCEPT !.at = "listing"]
             ELSE [next EXCEPT !.at = "reconcile", !.seen = k.seen]]
-----------------------------------------------------------------------------
\* connectMock, selectLocation: the location that was chosen is kept.
ConnectMock ==
  /\ connection' = IF connection = "none" THEN "connected" ELSE connection
  /\ UNCHANGED <<highRated, remembers, review, rtask, reply, rcall, approved, posted, loose>>
SelectLocation ==
  /\ connection' = "located"
  /\ UNCHANGED <<highRated, remembers, review, rtask, reply, rcall, approved, posted, loose>>

\* syncReviews, of a location, and listReviews begin with reconcileReviewTasks.
StartReconcile(c, kind) ==
  /\ rcall[c].at = "idle" /\ (kind = "sync" => connection = "located")
  /\ rcall' = [rcall EXCEPT ![c].kind = kind, ![c].at = "pending"]
  /\ UNCHANGED <<world, review, rtask, loose>>
FindPending(c) ==
  /\ rcall[c].at = "pending"
  /\ rcall' = [rcall EXCEPT ![c].at = "reconcile",
                            ![c].todo = {r \in ReviewIds : review[r].status = "AI_PENDING"},
                            ![c].seen = [r \in ReviewIds |-> review[r].task]]
  /\ UNCHANGED <<world, review, rtask, loose>>
\* The task of the next review: not over, failed, or completed with a text.
LookAtTask(c, r) ==
  LET t == rcall[c].seen[r]
      state == rtask[t].state
  IN
  /\ rcall[c].at = "reconcile" /\ r \in rcall[c].todo
  /\ \/ (t = 0 \/ state = "QUEUED")
        /\ rcall' = [rcall EXCEPT ![c].todo = @ \ {r}]
        /\ UNCHANGED loose
     \/ t # 0 /\ state = "FAILED"
        /\ Go(c, r, "find", [status |-> "FAILED", task |-> t])
     \/ t # 0 /\ state = "COMPLETED" /\ r \in highRated
        /\ Go(c, r, "post", [status |-> "REPLIED", task |-> t])
     \/ t # 0 /\ state = "COMPLETED" /\ r \notin highRated
        /\ Go(c, r, "find", [status |-> "PENDING_APPROVAL", task |-> t])
  /\ UNCHANGED <<world, review, rtask>>
\* replyToReview
PostReply(c) ==
  LET k == rcall[c] IN
  /\ k.at = "post"
  /\ reply' = [reply EXCEPT ![k.on] = IF k.kind = "approve" THEN "owner" ELSE "auto"]
  /\ approved' = IF k.kind = "approve" THEN approved \cup {k.on} ELSE approved
  /\ posted' = IF k.kind = "approve" THEN posted ELSE [posted EXCEPT ![k.task] = IF @ < 2 THEN @ + 1 ELSE @]
  /\ Go(c, k.on, "find", << >>)
  /\ UNCHANGED <<highRated, remembers, connection, review, rtask>>
\* googleBusinessReview.update: the row is found, and saved.
FindReview(c) ==
  /\ rcall[c].at = "find"
  /\ Go(c, rcall[c].on, "save", [read |-> review[rcall[c].on]])
  /\ UNCHANGED <<world, review, rtask>>
SaveReview(c) ==
  LET k == rcall[c] IN
  /\ k.at \in {"save", "queued"}
  /\ review' = [review EXCEPT ![k.on] =
       [k.read EXCEPT !.status = k.status,
                      !.task = IF k.at = "queued" THEN k.task ELSE @,
                      !.ai = @ \/ k.status \in {"REPLIED", "PENDING_APPROVAL"},
                      !.shown = @ \/ k.status = "REPLIED"]]
  /\ Continue(c)
  /\ loose' = IF Handling(k.on) # {c} \/ review[k.on] # k.read THEN loose \cup {k.on} ELSE loose
  /\ UNCHANGED <<world, rtask>>

\* The loop of syncReviews; and the end of either loop.
ListReviews(c) ==
  /\ rcall[c].at = "reconcile" /\ rcall[c].todo = {}
  /\ IF rcall[c].kind = "sync"
     THEN rcall' = [rcall EXCEPT ![c] =
            [NoReviewCall EXCEPT !.kind = "sync", !.at = "listing", !.todo = ReviewIds]]
     ELSE Leave(c)
  /\ UNCHANGED <<world, review, rtask, loose>>
SyncEnds(c) ==
  /\ rcall[c].at = "listing" /\ rcall[c].todo = {}
  /\ Leave(c)
  /\ UNCHANGED <<world, review, rtask, loose>>
FindExisting(c, r) ==
  /\ rcall[c].at = "listing" /\ r \in rcall[c].todo
  /\ Go(c, r, "upsert", [read |-> review[r]])
  /\ UNCHANGED <<world, review, rtask>>
\* Mutant: the status is the one of the provider, whatever was there.
KeptStatusAsListed(existing, mapped) == mapped
KeptStatus(existing, mapped) ==
  IF existing \notin {"none", "SYNCED"} THEN existing ELSE mapped
\* upsertByReviewName: all the columns are written, so its own read only tells
\* whether there is a row; of two insertions one fails, and its request with it.
UpsertReview(c) ==
  LET r == rcall[c].on
      existing == rcall[c].read
      shown == remembers /\ reply[r] # "nobody"
      saved == [existing EXCEPT !.shown = shown,
                  !.status = KeptStatus(@, IF shown THEN "REPLIED" ELSE "SYNCED")]
  IN
  /\ rcall[c].at = "upsert"
  /\ \/ /\ review' = [review EXCEPT ![r] = saved]
        /\ IF ~shown /\ saved.status \in {"SYNCED", "FAILED"}
           THEN Go(c, r, "queue", [read |-> saved])
           ELSE Continue(c) /\ loose' = IF Handling(r) # {c} THEN loose \cup {r} ELSE loose
     \/ /\ existing = NoReview /\ review[r] # NoReview
        /\ Leave(c) /\ loose' = loose \cup {r} /\ UNCHANGED review
  /\ UNCHANGED <<world, rtask>>
\* queueTask, and the update with the new task, on the row as it is then.
QueueTask(c) ==
  /\ rcall[c].at = "queue" /\ Len(rtask) < MaxReviewTasks
  /\ rtask' = Append(rtask, [of |-> rcall[c].on, state |-> "QUEUED"])
  /\ posted' = Append(posted, 0)
  /\ Go(c, rcall[c].on, "marking", [status |-> "AI_PENDING", task |-> Len(rtask) + 1])
  /\ UNCHANGED <<highRated, remembers, connection, review, reply, approved>>
FindQueued(c) ==
  /\ rcall[c].at = "marking"
  /\ Go(c, rcall[c].on, "queued", [read |-> review[rcall[c].on]])
  /\ UNCHANGED <<world, review, rtask>>

\* approveReply: of a text of the owner, which is always possible, or of the AI.
ApproveReply(c, r) ==
  /\ rcall[c].at = "idle" /\ review[r] # NoReview
  /\ Go(c, r, "post", [kind |-> "approve", status |-> "REPLIED"])
  /\ UNCHANGED <<world, review, rtask>>
\* The provider, the quota or the database refuses, or the process dies.
GiveUp(c) ==
  /\ rcall[c].at # "idle"
  /\ Leave(c)
  /\ loose' = IF c \in Handling(rcall[c].on) THEN loose \cup {rcall[c].on} ELSE loose
  /\ UNCHANGED <<world, review, rtask>>
\* run_google_review_reply_agent: always a text, if only the fallback, or an error.
Run(t, state) ==
  /\ rtask[t].state = "QUEUED"
  /\ rtask' = [rtask EXCEPT ![t].state = state]
  /\ UNCHANGED <<world, review, rcall, loose>>

ReviewsNext ==
  \/ ConnectMock \/ SelectLocation
  \/ \E c \in ReviewCalls :
       \/ \E kind \in {"sync", "list"} : StartReconcile(c, kind)
       \/ FindPending(c) \/ PostReply(c) \/ FindReview(c) \/ SaveReview(c) \/ ListReviews(c)
       \/ SyncEnds(c) \/ UpsertReview(c) \/ QueueTask(c) \/ FindQueued(c) \/ GiveUp(c)
       \/ \E r \in ReviewIds : LookAtTask(c, r) \/ FindExisting(c, r) \/ ApproveReply(c, r)
  \/ \E t \in DOMAIN rtask, state \in {"COMPLETED", "FAILED"} : Run(t, state)
ReviewsSpec == ReviewsInit /\ [][ReviewsNext]_reviewVars
-----------------------------------------------------------------------------
ReviewsTypeOK ==
  /\ \A r \in ReviewIds :
       /\ review[r].status \in {"none", "SYNCED", "AI_PENDING", "PENDING_APPROVAL", "REPLIED", "FAILED"}
       /\ review[r].task \in 0..Len(rtask) /\ reply[r] \in {"nobody", "auto", "owner"}
  /\ approved \subseteq ReviewIds /\ loose \subseteq ReviewIds /\ Len(rtask) <= MaxReviewTasks

\* What the owner has answered himself is not answered again by an AI reply, and
\* no AI reply is posted twice, whatever is synchronized, listed and approved in
\* between; excepted are reviews that two requests handled at once, or that one
\* gave up between its steps.
RepliesStand ==
  /\ \A r \in approved \ loose : reply[r] = "owner"
  /\ \A t \in DOMAIN rtask : posted[t] <= 1 \/ rtask[t].of \in loose
=============================================================================
