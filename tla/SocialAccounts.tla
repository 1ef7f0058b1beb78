--------------------------- MODULE SocialAccounts ---------------------------
(* The account of one business on one platform: the OAuth callbacks that     *)
(* connect it, its disconnection, and the calls by which a worker publishes  *)
(* a post with its token.  Each of them goes on for several requests to the  *)
(* platform, and every write of the row saves the whole row it has read.     *)
EXTENDS Naturals, Sequences, FiniteSets

CONSTANTS
  Flows,        \* callbacks and disconnections in progress at once
  Publishers,   \* posts being published at once
  MaxConsents,  \* bound: consents the owner gives
  MaxAttempts   \* bound: attempts to publish

ASSUME SocialAccountsAssumption == MaxConsents \in Nat /\ MaxAttempts \in Nat

VARIABLES
  platform,
  consent,   \* consents: whether the code is used, and what was granted
  token,     \* token[n]: of consent n: "none", "alive", "expired", "dead"
  acct,      \* rows of SocialAccount, all of one external account
  flow,      \* flow[f]: a callback or disconnection, and the row it has read
  pub,       \* pub[p]: a post: the calls still to make, token, row read
  attempts,
  latest     \* history: latest[i]: the token last saved by a callback
connectVars == <<platform, consent, token, acct, flow, pub, attempts, latest>>

Platforms == {"FACEBOOK", "INSTAGRAM", "TIKTOK"}
NoAccount == [token |-> 0, status |-> "none", deleted |-> FALSE]
NoFlow == [at |-> "idle", todo |-> << >>, consent |-> 0, row |-> 0, read |-> NoAccount]
NoPost == [at |-> "idle", todo |-> << >>, token |-> 0, row |-> 0, read |-> NoAccount,
           online |-> 0, unanswered |-> FALSE]
ConnectInit ==
  /\ platform \in Platforms
  /\ consent = << >>
  /\ token = << >>
  /\ acct = << >>
  /\ flow = [f \in Flows |-> NoFlow]
  /\ pub = [p \in Publishers |-> NoPost]
  /\ attempts = 0
  /\ latest = << >>

\* At the platform: it grants everything, or not the right to publish.  (Without
\* what connecting needs, the callback fails; TikTok is not asked at all.)
Grants == {"all", "limited"}
Consent(granted) ==
  /\ Len(consent) < MaxConsents
  /\ consent' = Append(consent, [code |-> "fresh", granted |-> granted])
  /\ token' = Append(token, "none")
  /\ UNCHANGED <<platform, acct, flow, pub, attempts, latest>>
\* The token runs out, which Facebook's do not, or is withdrawn at the platform.
TokenDies(n, how) ==
  /\ token[n] = "alive" /\ (how = "expired" => platform # "FACEBOOK")
  /\ token' = [token EXCEPT ![n] = how]
  /\ UNCHANGED <<platform, consent, acct, flow, pub, attempts, latest>>
-----------------------------------------------------------------------------
(* Connecting *)

\* exchangeCode of each client: the requests for the token or tokens, and then
\* those for permissions, user and pages, which change nothing.
Exchange == IF platform = "TIKTOK" THEN <<"code", "look">> ELSE <<"code", "long", "look">>

\* handleOAuthCallback, not later than ten minutes after buildAuthorizationUrl:
\* the state can be used again, the code can not.
Callback(f, n) ==
  /\ flow[f].at = "idle"
  /\ flow' = [flow EXCEPT ![f] = [NoFlow EXCEPT !.at = "exchange", !.todo = Exchange, !.consent = n]]
  /\ UNCHANGED <<platform, consent, token, acct, pub, attempts, latest>>
ExchangeStep(f) ==
  LET n == flow[f].consent
      step == Head(flow[f].todo)
  IN
  /\ flow[f].at = "exchange"
  /\ step = "code" => consent[n].code = "fresh"
  /\ consent' = IF step = "code" THEN [consent EXCEPT ![n].code = "used"] ELSE consent
  /\ token' = IF step \in {"long", "code"} THEN [token EXCEPT ![n] = "alive"] ELSE token
  /\ flow' = [flow EXCEPT ![f].todo = Tail(@), ![f].at = IF Len(flow[f].todo) = 1 THEN "find" ELSE @]
  /\ UNCHANGED <<platform, acct, pub, attempts, latest>>
\* The platform refuses, a required scope was not granted, no page or no
\* professional account is found, a write fails, or the instance dies.
FlowFails(f) ==
  /\ flow[f].at # "idle"
  /\ flow' = [flow EXCEPT ![f] = NoFlow]
  /\ UNCHANGED <<platform, consent, token, acct, pub, attempts, latest>>

Active == {i \in DOMAIN acct : ~acct[i].deleted}
\* The partial unique index over rows that are not deleted.
Refused(i, row) == ~row.deleted /\ Active \ {i} # {}
\* saveOrUpdateAccount: the account that is not deleted, or a new row.
FindAccount(f) ==
  /\ flow[f].at = "find"
  /\ \/ Active = {} /\ flow' = [flow EXCEPT ![f].at = "save"]
     \/ \E i \in Active : flow' = [flow EXCEPT ![f].at = "save", ![f].row = i, ![f].read = acct[i]]
  /\ UNCHANGED <<platform, consent, token, acct, pub, attempts, latest>>
\* Mutant: an account that is still connected keeps its token.
ConnectedKeeping(row, n) ==
  [row EXCEPT !.token = IF row.status = "CONNECTED" THEN @ ELSE n, !.status = "CONNECTED"]
\* Mutant: the new token is not saved.
ConnectedOnly(row, n) == [row EXCEPT !.status = "CONNECTED"]
Connected(row, n) == [row EXCEPT !.token = n, !.status = "CONNECTED"]
SaveAccount(f) ==
  LET i == flow[f].row
      after == Connected(flow[f].read, flow[f].consent)
  IN
  /\ flow[f].at = "save"
  /\ IF Refused(i, after) THEN UNCHANGED <<acct, latest>>
     ELSE IF i = 0
     THEN acct' = Append(acct, after) /\ latest' = Append(latest, flow[f].consent)
     ELSE acct' = [acct EXCEPT ![i] = after] /\ latest' = [latest EXCEPT ![i] = flow[f].consent]
  /\ flow' = [flow EXCEPT ![f] = NoFlow]
  /\ UNCHANGED <<platform, consent, token, pub, attempts>>
-----------------------------------------------------------------------------
(* Disconnecting *)

\* disconnect: also of a row that is deleted already.
Disconnect(f, i) ==
  /\ flow[f].at = "idle"
  /\ flow' = [flow EXCEPT ![f] = [NoFlow EXCEPT !.at = "revoke", !.row = i, !.read = acct[i]]]
  /\ UNCHANGED <<platform, consent, token, acct, pub, attempts, latest>>
\* Facebook takes back the whole grant, TikTok the token, Instagram nothing; a
\* failure is only logged.
Revoke(f, granted) ==
  /\ flow[f].at = "revoke"
  /\ token' = [n \in DOMAIN token |->
       IF granted /\ token[n] = "alive"
          /\ (platform = "FACEBOOK" \/ (platform = "TIKTOK" /\ n = flow[f].read.token))
       THEN "dead" ELSE token[n]]
  /\ flow' = [flow EXCEPT ![f].at = "reread"]
  /\ UNCHANGED <<platform, consent, acct, pub, attempts, latest>>
FindDisconnected(f) ==
  /\ flow[f].at = "reread"
  /\ flow' = [flow EXCEPT ![f].at = "delete", ![f].read = acct[flow[f].row]]
  /\ UNCHANGED <<platform, consent, token, acct, pub, attempts, latest>>
SoftDelete(f) ==
  /\ flow[f].at = "delete"
  /\ acct' = [acct EXCEPT ![flow[f].row] =
       [flow[f].read EXCEPT !.status = "DISCONNECTED", !.deleted = TRUE]]
  /\ flow' = [flow EXCEPT ![f] = NoFlow]
  /\ UNCHANGED <<platform, consent, token, pub, attempts, latest>>
-----------------------------------------------------------------------------
(* Publishing *)

\* Mutant: the photos of a post with several are published when they are uploaded.
UploadsShown(media) ==
  IF platform = "FACEBOOK" /\ media = "images" THEN <<"photo", "photo", "feed">>
  ELSE IF platform = "FACEBOOK" THEN <<"photo">> ELSE <<"container", "wait", "publish", "permalink">>
\* publish of each client: the requests to the platform; TikTok's is not
\* implemented, and Instagram needs an image or a video.
Uploads(media) ==
  CASE platform = "FACEBOOK" ->
         IF media = "images" THEN <<"upload", "upload", "feed">>
         ELSE IF media = "text" THEN <<"feed">> ELSE IF media = "image" THEN <<"photo">> ELSE <<"video">>
    [] platform = "INSTAGRAM" /\ media # "text" ->
         (IF media = "images" THEN <<"child", "child">> ELSE << >>)
           \o <<"container", "wait", "publish", "permalink">>
    [] OTHER -> <<"refuse">>
Media == {"text", "image", "images", "video"}
\* The requests that put the post online.
Shows == {"feed", "photo", "video", "publish"}

\* It returns or throws: only an error about the token still needs the row.
Ended(p, at, online, unanswered) ==
  pub' = [pub EXCEPT ![p] = [NoPost EXCEPT !.at = at, !.online = online, !.unanswered = unanswered,
                               !.row = IF at = "expire" THEN pub[p].row ELSE 0]]

\* getAccountForPublishing; the tokenExpiresAt that is stored is not looked at.
Resolve(p, i, media) ==
  /\ pub[p].at \in {"idle", "failed", "online"} /\ attempts < MaxAttempts
  /\ attempts' = attempts + 1
  /\ IF acct[i].deleted THEN pub' = [pub EXCEPT ![p] = [NoPost EXCEPT !.at = "failed"]]
     ELSE IF acct[i].status = "EXPIRED"
     THEN pub' = [pub EXCEPT ![p] = [NoPost EXCEPT !.at = "expire", !.row = i]]
     ELSE pub' = [pub EXCEPT ![p] = [NoPost EXCEPT !.at = "calls",
                    !.todo = Uploads(media), !.token = acct[i].token, !.row = i]]
  /\ UNCHANGED <<platform, consent, token, acct, flow, latest>>
\* graphPost, igPost, uploadMedia, waitContainer: a request that is answered.
CallAnswered(p) ==
  LET step == Head(pub[p].todo) IN
  /\ pub[p].at = "calls" /\ step # "refuse"
  /\ token[pub[p].token] = "alive"
  /\ step \in Shows => consent[pub[p].token].granted # "limited"
  /\ LET online == pub[p].online + (IF step \in Shows THEN 1 ELSE 0) IN
     IF Len(pub[p].todo) = 1 THEN Ended(p, "online", online, pub[p].unanswered)
     ELSE pub' = [pub EXCEPT ![p].todo = Tail(@), ![p].online = online]
  /\ UNCHANGED <<platform, consent, token, acct, flow, attempts, latest>>
\* It fails: the error names the token, a permission, or a container that has
\* expired, or it does not.  A permalink is done without.
CallFails(p, aboutToken) ==
  LET step == Head(pub[p].todo) IN
  /\ pub[p].at = "calls" /\ (aboutToken => step # "refuse")
  /\ Ended(p, IF step = "permalink" THEN "online" ELSE IF aboutToken THEN "expire" ELSE "failed",
             pub[p].online, pub[p].unanswered)
  /\ UNCHANGED <<platform, consent, token, acct, flow, attempts, latest>>
\* It is carried out, and the answer is lost, or cannot be parsed: the message of
\* that error ("Unexpected token") reads like one about the account's token.
CallUnanswered(p, unparsable) ==
  LET step == Head(pub[p].todo) IN
  /\ pub[p].at = "calls" /\ step \in Shows /\ token[pub[p].token] = "alive"
  /\ Ended(p, IF unparsable THEN "expire" ELSE "failed", pub[p].online + 1, TRUE)
  /\ UNCHANGED <<platform, consent, token, acct, flow, attempts, latest>>
\* The processor marks the account EXPIRED: the row is found, and saved.
FindExpired(p) ==
  /\ pub[p].at = "expire"
  /\ pub' = [pub EXCEPT ![p].at = "expiring", ![p].read = acct[pub[p].row]]
  /\ UNCHANGED <<platform, consent, token, acct, flow, attempts, latest>>
SaveExpired(p) ==
  LET after == [pub[p].read EXCEPT !.status = "EXPIRED"] IN
  /\ pub[p].at = "expiring"
  /\ acct' = IF Refused(pub[p].row, after) THEN acct ELSE [acct EXCEPT ![pub[p].row] = after]
  /\ Ended(p, "failed", pub[p].online, pub[p].unanswered)
  /\ UNCHANGED <<platform, consent, token, flow, attempts, latest>>

ConnectNext ==
  \/ \E granted \in Grants : Consent(granted)
  \/ \E n \in DOMAIN consent, how \in {"expired", "dead"} : TokenDies(n, how)
  \/ \E f \in Flows :
       \/ \E n \in DOMAIN consent : Callback(f, n)
       \/ \E i \in DOMAIN acct : Disconnect(f, i)
       \/ \E granted \in BOOLEAN : Revoke(f, granted)
       \/ ExchangeStep(f) \/ FlowFails(f) \/ FindAccount(f) \/ SaveAccount(f)
       \/ FindDisconnected(f) \/ SoftDelete(f)
  \/ \E p \in Publishers :
       \/ \E i \in DOMAIN acct, media \in Media : Resolve(p, i, media)
       \/ CallAnswered(p) \/ \E aboutToken \in BOOLEAN : CallFails(p, aboutToken)
       \/ \E unparsable \in BOOLEAN : CallUnanswered(p, unparsable)
       \/ FindExpired(p) \/ SaveExpired(p)
ConnectSpec == ConnectInit /\ [][ConnectNext]_connectVars
-----------------------------------------------------------------------------
ConnectTypeOK ==
  /\ \A i \in DOMAIN acct : acct[i].token \in DOMAIN token
                            /\ acct[i].status \in {"CONNECTED", "EXPIRED", "DISCONNECTED"}
  /\ Len(latest) = Len(acct) /\ Len(token) = Len(consent) /\ attempts <= MaxAttempts

\* A publication is one step to those who wait for it, however many requests it
\* takes: it is online once when it returns and not at all when it fails, unless
\* the platform has put it online and the answer was lost.
PublishIsWhole ==
  \A p \in Publishers : pub[p].at \in {"online", "failed", "expire", "expiring"} =>
    pub[p].online = IF pub[p].at = "online" \/ pub[p].unanswered THEN 1 ELSE 0

\* An account that is shown as connected has the token of the callback that saved
\* it last, also when disconnections and late token errors write their rows back.
ConnectedHasLatestToken ==
  \A i \in DOMAIN acct : acct[i].status = "CONNECTED" => acct[i].token = latest[i]
=============================================================================
