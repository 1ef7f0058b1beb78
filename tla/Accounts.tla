------------------------------ MODULE Accounts ------------------------------
(* Users, their businesses and the MCP keys of these.  A plan limits both    *)
(* numbers, but the limit is only a read and a compare before the insertion. *)
EXTENDS Naturals, FiniteSets

CONSTANTS
  Users, Businesses, McpKeys, \* emails, and the ids there are to be given
  AccountCalls,               \* requests in progress at once
  BusinessLimit, KeyLimit,    \* quotas.businesses and quotas.mcpKeys of the plan
  NoOne                       \* no owner, no business

ASSUME AccountsAssumption ==
  /\ IsFiniteSet(AccountCalls) /\ AccountCalls # {}
  /\ BusinessLimit \in Nat /\ KeyLimit \in Nat
  /\ NoOne \notin Users \cup Businesses

VARIABLES
  user,    \* user[u]: "none" yet, its row is "active" or "disabled", or "deleted"
  session, \* users that hold a token; a token outlives its user's row
  exists,  \* the rows of Business
  owner,   \* owner[b]: the user with role OWNER in BusinessUser
  key,     \* key[k]: its business, and whether it is not revoked
  acall    \* acall[c]: what a request is going to do, with what it has read
accountVars == <<user, session, exists, owner, key, acall>>

NoAccountCall == [at |-> "idle", user |-> NoOne, on |-> NoOne, mine |-> {}]
AccountsInit ==
  /\ user = [u \in Users |-> "none"]
  /\ session = {}
  /\ exists = {}
  /\ owner = [b \in Businesses |-> NoOne]
  /\ key = [k \in McpKeys |-> [of |-> NoOne, live |-> FALSE]]
  /\ acall = [c \in AccountCalls |-> NoAccountCall]

OwnedBy(u) == {b \in exists : owner[b] = u}
LiveKeys(bs) == {k \in McpKeys : key[k].live /\ key[k].of \in bs}
Idle(c) == acall[c].at = "idle"
Next1(c, at, u, b, mine) ==
  acall' = [acall EXCEPT ![c] = [at |-> at, user |-> u, on |-> b, mine |-> mine]]
Return(c) == acall' = [acall EXCEPT ![c] = NoAccountCall]
-----------------------------------------------------------------------------
(* Sessions *)

\* register: nobody has the email; then the row, which its unique index may refuse.
Register(c, u) ==
  /\ Idle(c) /\ user[u] = "none"
  /\ Next1(c, "register", u, NoOne, {})
  /\ UNCHANGED <<user, session, exists, owner, key>>
InsertUser(c) ==
  /\ acall[c].at = "register"
  /\ IF user[acall[c].user] = "none"
     THEN /\ user' = [user EXCEPT ![acall[c].user] = "active"]
          /\ session' = session \cup {acall[c].user}
     ELSE UNCHANGED <<user, session>>
  /\ Return(c)
  /\ UNCHANGED <<exists, owner, key>>
Login(u) ==
  /\ user[u] = "active"
  /\ session' = session \cup {u}
  /\ UNCHANGED <<user, exists, owner, key, acall>>
\* Administration: create, activate or suspend, and delete a user; his rows of
\* BusinessUser go with him, his businesses stay.  (With the email registered
\* again he would be another user.)
AdminUser(u, status) ==
  /\ user[u] # "deleted" /\ (status = "active" \/ user[u] # "none")
  /\ user' = [user EXCEPT ![u] = status]
  /\ owner' = [b \in Businesses |-> IF owner[b] = u /\ status = "deleted" THEN NoOne ELSE owner[b]]
  /\ UNCHANGED <<session, exists, key, acall>>
-----------------------------------------------------------------------------
(* Businesses and their keys *)

\* Mutant: the business that is to be created is not counted.
MayCreateOneMore(used, limit) == used <= limit
\* assertCanCreateBusiness, assertCanCreateMcpKey.
MayCreate(used, limit) == used + 1 <= limit

CreateBusiness(c, u) ==
  /\ Idle(c) /\ u \in session
  /\ MayCreate(Cardinality(OwnedBy(u)), BusinessLimit)
  /\ Next1(c, "business", u, NoOne, {})
  /\ UNCHANGED <<user, session, exists, owner, key>>
\* One transaction: the business and its owner, who may be deleted by now.
InsertBusiness(c, b) ==
  /\ acall[c].at = "business" /\ b \notin exists
  /\ IF user[acall[c].user] = "deleted" THEN UNCHANGED <<exists, owner>>
     ELSE exists' = exists \cup {b} /\ owner' = [owner EXCEPT ![b] = acall[c].user]
  /\ Return(c)
  /\ UNCHANGED <<user, session, key>>
\* Administration: a business without users.
AdminCreateBusiness(b) ==
  /\ b \notin exists
  /\ exists' = exists \cup {b}
  /\ UNCHANGED <<user, session, owner, key, acall>>

\* generateKey: the business is the user's; then his businesses, their live keys
\* with the limit, and the insertion are statements of their own.
GenerateKey(c, u, b) ==
  /\ Idle(c) /\ u \in session /\ b \in OwnedBy(u)
  /\ Next1(c, "businesses", u, b, {})
  /\ UNCHANGED <<user, session, exists, owner, key>>
ListBusinesses(c) ==
  /\ acall[c].at = "businesses"
  /\ Next1(c, "count", acall[c].user, acall[c].on, OwnedBy(acall[c].user))
  /\ UNCHANGED <<user, session, exists, owner, key>>
CountKeys(c) ==
  /\ acall[c].at = "count"
  /\ IF MayCreate(Cardinality(LiveKeys(acall[c].mine)), KeyLimit)
     THEN Next1(c, "key", acall[c].user, acall[c].on, {})
     ELSE Return(c)
  /\ UNCHANGED <<user, session, exists, owner, key>>
InsertKey(c, k) ==
  /\ acall[c].at = "key" /\ key[k].of = NoOne
  /\ key' = [key EXCEPT ![k] = [of |-> acall[c].on, live |-> TRUE]]
  /\ Return(c)
  /\ UNCHANGED <<user, session, exists, owner>>
RevokeKey(u, k) ==
  /\ u \in session /\ key[k].of \in OwnedBy(u)
  /\ key' = [key EXCEPT ![k].live = FALSE]
  /\ UNCHANGED <<user, session, exists, owner, acall>>
\* The process dies between two statements.
AccountCrash(c) ==
  /\ ~Idle(c) /\ Return(c)
  /\ UNCHANGED <<user, session, exists, owner, key>>

AccountsNext ==
  \/ \E c \in AccountCalls :
       \/ \E u \in Users : Register(c, u) \/ CreateBusiness(c, u)
       \/ \E u \in Users, b \in Businesses : GenerateKey(c, u, b)
       \/ InsertUser(c) \/ ListBusinesses(c) \/ CountKeys(c) \/ AccountCrash(c)
       \/ \E b \in Businesses : InsertBusiness(c, b)
       \/ \E k \in McpKeys : InsertKey(c, k)
  \/ \E u \in Users : \/ Login(u)
                     \/ \E status \in {"active", "disabled", "deleted"} : AdminUser(u, status)
                     \/ \E k \in McpKeys : RevokeKey(u, k)
  \/ \E b \in Businesses : AdminCreateBusiness(b)
AccountsSpec == AccountsInit /\ [][AccountsNext]_accountVars

-----------------------------------------------------------------------------
AccountsTypeOK ==
  /\ user \in [Users -> {"none", "active", "disabled", "deleted"}] /\ session \subseteq Users
  /\ exists \subseteq Businesses /\ owner \in [Businesses -> Users \cup {NoOne}]
  /\ key \in [McpKeys -> [of : Businesses \cup {NoOne}, live : BOOLEAN]]
  /\ \A c \in AccountCalls : acall[c].mine \subseteq Businesses

\* A plan's limits can be overrun by requests that overlap, but by no more than
\* there are such requests: what is above the limit never grows by itself, also
\* when keys are revoked and businesses added while others are being counted.
OverrunIsBounded ==
  \A u \in Users :
    LET overrun == Cardinality(AccountCalls) - 1 IN
    /\ Cardinality(OwnedBy(u)) <= BusinessLimit + overrun
    /\ Cardinality(LiveKeys(OwnedBy(u))) <= KeyLimit + overrun
=============================================================================
