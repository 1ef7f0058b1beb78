------------------------------- MODULE Sites -------------------------------
(* The website of one business: its row in the application database, and the *)
(* WebsiteConfig of the tenant that the storefront shows, which the API and  *)
(* the administration change by calls of Commerce that may be late or lost.  *)
(* Of a configuration only isPublished is kept.                              *)
EXTENDS Naturals, Sequences, FiniteSets

CONSTANTS
  HttpCalls,  \* calls of Commerce in progress at once
  MaxHttp     \* bound: calls of Commerce

ASSUME SitesAssumption == MaxHttp \in Nat

VARIABLES
  site,    \* status of the Website, "none" without a row
  output,  \* the kinds of tasks there are whose output can be decided on
  config,  \* isPublished of the rows of WebsiteConfig, of which there should be one
  http,    \* http[h]: a call: who sent it, what it sets, what Commerce has read,
           \* and the status its sender writes after the answer
  lost,    \* history: a call was lost
  crossed, \* history: two changes of the configuration have crossed
  opened,  \* history: after the last withdrawal, a call of another than an
           \* administrator has switched the site on
  called   \* number of calls
siteVars == <<site, output, config, http, lost, crossed, opened, called>>

WebsiteStatuses ==
  {"DRAFT", "GENERATING", "PENDING_APPROVAL", "PUBLISHED", "UNPUBLISHED", "FAILED", "SUSPENDED"}
\* The columns of a new WebsiteConfig: it is published.
NewConfig == TRUE
NoHttp == [at |-> "idle", by |-> "nobody", sets |-> "keep", row |-> 0, read |-> NewConfig, after |-> "none"]
SitesInit ==
  /\ site = "none"
  /\ output = {}
  /\ config = << >>
  /\ http = [h \in HttpCalls |-> NoHttp]
  /\ lost = FALSE
  /\ crossed = FALSE
  /\ opened = FALSE
  /\ called = 0

\* Two administrators at once can write the row in the other order.
Call(h, by, sets, after) ==
  /\ http[h].at = "idle" /\ called < MaxHttp
  /\ called' = called + 1
  /\ http' = [http EXCEPT ![h] = [NoHttp EXCEPT !.at = "sent", !.by = by, !.sets = sets, !.after = after]]
  /\ crossed' = (crossed \/ (by = "admin" /\ \E g \in HttpCalls : http[g].by = "admin"))
-----------------------------------------------------------------------------
(* Commerce *)

\* WebsiteConfigService: the first row, in no stated order; isPublished is true
\* by default.
FindConfig(h) ==
  /\ http[h].at = "sent"
  /\ \/ config = << >> /\ http' = [http EXCEPT ![h].at = "found"]
     \/ \E i \in DOMAIN config :
          http' = [http EXCEPT ![h].at = IF http[h].by = "visitor" THEN "answered" ELSE "found",
                               ![h].row = i, ![h].read = config[i]]
  /\ UNCHANGED <<site, output, config, lost, crossed, opened, called>>
\* What the save of Commerce does: a new row, or the value in the row that was
\* found.  (TypeORM reads the row again and leaves out a column that it finds with
\* the value wanted, which is to write it at the time of that reading.)
WriteConfig(h, value) ==
  LET i == http[h].row
      sets == http[h].sets
  IN
  /\ http[h].at = "found"
  /\ config' = IF i = 0 THEN Append(config, value) ELSE [config EXCEPT ![i] = value]
  /\ crossed' = (crossed \/ IF i = 0 THEN config # << >> ELSE config[i] # http[h].read)
  /\ opened' = IF http[h].by = "admin" THEN opened /\ sets # "off" ELSE opened \/ sets = "on"
  /\ http' = [http EXCEPT ![h].at = "answered"]
  /\ UNCHANGED <<site, output, lost, called>>
\* Mutant: a call that does not say isPublished says TRUE.
SaveConfigPublished(h) == WriteConfig(h, http[h].sets # "off")
\* get and update: isPublished as read unless the call says it.
SaveConfig(h) ==
  WriteConfig(h, IF http[h].sets = "keep" THEN http[h].read ELSE http[h].sets = "on")
\* syncCommerce swallows a failing call; patchCommerceWebsiteConfig throws.
CallLost(h) ==
  /\ http[h].at \in {"sent", "found"}
  /\ http' = [http EXCEPT ![h] = IF http[h].by = "admin" THEN [http[h] EXCEPT !.at = "answered"] ELSE NoHttp]
  /\ lost' = TRUE
  /\ UNCHANGED <<site, output, config, crossed, opened, called>>
\* The sender goes on: the status of the row, which may be deleted by now.
Answered(h) ==
  /\ http[h].at = "answered"
  /\ site' = IF http[h].after = "none" THEN site
             ELSE IF http[h].after = "edited" THEN (IF site = "none" THEN "DRAFT" ELSE site)
             ELSE IF site = "none" THEN site ELSE http[h].after
  /\ http' = [http EXCEPT ![h] = NoHttp]
  /\ UNCHANGED <<output, config, lost, crossed, opened, called>>
\* The storefront reads the configuration, and makes it on its first visit.
Visit(h) == Call(h, "visitor", "keep", "none") /\ UNCHANGED <<site, output, config, lost, opened>>
\* createBusiness, in the background: the name of the store.
Provision(h) == Call(h, "owner", "keep", "none") /\ UNCHANGED <<site, output, config, lost, opened>>
\* The administrator of the store changes the configuration himself.
PatchConfig(h, sets) == Call(h, "store", sets, "none") /\ UNCHANGED <<site, output, config, lost, opened>>
-----------------------------------------------------------------------------
(* The owner *)

\* saveWebsiteConfig
SaveWebsite ==
  /\ site' = "DRAFT"
  /\ UNCHANGED <<output, config, http, lost, crossed, opened, called>>
\* The owner's body goes to Commerce as it is, which takes an isPublished in it:
\* sets says whether one is.
\* patchWebsiteConfigForBusiness: Commerce first, then the row's content.
PatchWebsite(h, sets) == Call(h, "owner", sets, "edited") /\ UNCHANGED <<site, output, config, lost, opened>>
\* deployWebsite and redeploy: the task is queued, and in the end it is done.
DeployWebsite ==
  /\ site # "none"
  /\ site' = "GENERATING"
  /\ output' = output \cup {"WEBSITE"}
  /\ UNCHANGED <<config, http, lost, crossed, opened, called>>
\* deployMobileApp: a task whose output is not for the website.
DeployApp ==
  /\ output' = output \cup {"APP"}
  /\ UNCHANGED <<site, config, http, lost, crossed, opened, called>>

\* approveTask, which asks for no status of the task, so that it can be decided
\* again: the row, then the content, without waiting for the answer.
ApproveWebsite(h, sets) ==
  /\ "WEBSITE" \in output
  /\ site' = IF site = "none" THEN site ELSE "PUBLISHED"
  /\ Call(h, "owner", sets, "none")
  /\ UNCHANGED <<output, config, lost, opened>>
\* rejectTask; and that of the administration, which takes every task for one of
\* the website.
Reject(kind, by) ==
  /\ kind \in output
  /\ site' = IF (kind = "WEBSITE" \/ by = "admin") /\ site # "none" THEN "FAILED" ELSE site
  /\ UNCHANGED <<output, config, http, lost, crossed, opened, called>>
-----------------------------------------------------------------------------
(* The administration *)

\* publish, unpublish, suspend: Commerce first, then the row.
SetPublished(h, sets, status) ==
  /\ site # "none"
  /\ Call(h, "admin", sets, status)
  /\ UNCHANGED <<site, output, config, lost, opened>>
\* approve of a task, whatever its kind and whatever became of the website:
\* Commerce first, then the row.
AdminApprove(h, kind) ==
  /\ kind \in output
  /\ Call(h, "admin", "on", "PUBLISHED")
  /\ UNCHANGED <<site, output, config, lost, opened>>
\* (Commerce does not hear of a website that is created as withdrawn.)
CreateWebsite(status) ==
  /\ site = "none" /\ site' = status
  /\ UNCHANGED <<output, config, http, lost, crossed, opened, called>>
DeleteWebsite ==
  /\ site # "none" /\ site' = "none"
  /\ UNCHANGED <<output, config, http, lost, crossed, opened, called>>

Kinds == {"WEBSITE", "APP"}
SitesNext ==
  \/ \E h \in HttpCalls :
       \/ FindConfig(h) \/ SaveConfig(h) \/ CallLost(h) \/ Answered(h)
       \/ Visit(h) \/ Provision(h)
       \/ \E sets \in {"keep", "on", "off"} :
            PatchWebsite(h, sets) \/ PatchConfig(h, sets) \/ ApproveWebsite(h, sets)
       \/ \E kind \in Kinds : AdminApprove(h, kind)
       \/ SetPublished(h, "on", "PUBLISHED")
       \/ \E status \in {"UNPUBLISHED", "SUSPENDED"} : SetPublished(h, "off", status)
  \/ SaveWebsite \/ DeployWebsite \/ DeployApp \/ DeleteWebsite
  \/ \E status \in WebsiteStatuses \ {"UNPUBLISHED", "SUSPENDED"} : CreateWebsite(status)
  \/ \E kind \in Kinds, by \in {"owner", "admin"} : Reject(kind, by)
SitesSpec == SitesInit /\ [][SitesNext]_siteVars
-----------------------------------------------------------------------------
SitesTypeOK ==
  /\ site \in WebsiteStatuses \cup {"none"} /\ output \subseteq Kinds
  /\ config \in Seq(BOOLEAN) /\ called <= MaxHttp

\* A website that an administrator has withdrawn is not shown unless a call says
\* so in as many words: no content, visit or provisioning of the store lights it,
\* however late they are answered, nor an owner's call that was saved before the
\* withdrawal.  Excused are lost calls and changes that have crossed.
WithdrawnStaysDark ==
  /\ site \in {"UNPUBLISHED", "SUSPENDED"} /\ ~lost /\ ~crossed /\ ~opened
  /\ \A h \in HttpCalls : http[h].by # "admin"
  =>
    config # << >> /\ \A i \in DOMAIN config : ~config[i]
=============================================================================
