--------------------------- MODULE Channels_proofs ----------------------------
(* However many stores, requests, posts, callbacks and reviews there are: a   *)
(* store has one pool at a time (tenant-datasource.factory.ts), a line of a   *)
(* cart a price that was listed, a connected account its latest token, a post *)
(* is online once, and the answers of a business stand.                       *)
EXTENDS MCChannels, FiniteSetTheorems, SequenceTheorems, TLAPS

(* The data sources of stores *)

Promises == [of : Stores, state : {"pending", "resolved", "rejected"}]
Places == {"idle", "own", "join", "answered", "failed"}
SourcesTypes ==
  /\ sources \in [Stores -> Nat]
  /\ initPromises \in [Stores -> Nat]
  /\ promise \in Seq(Promises)
  /\ pool \in Seq(BOOLEAN) /\ Len(pool) = Len(promise)
  /\ gcall \in [StoreCalls -> [at : Places, for : Nat]]
  /\ \A t \in Stores : sources[t] <= Len(promise) /\ initPromises[t] <= Len(promise)
  /\ \A c \in StoreCalls :
       /\ gcall[c].for <= Len(promise)
       /\ gcall[c].at = "own" => gcall[c].for # 0

\* The request that begins an initialization is its only owner until it has
\* taken the promise away again.
PromisesHaveOwners ==
  /\ \A c \in StoreCalls : gcall[c].at = "own" =>
       /\ initPromises[promise[gcall[c].for].of] = gcall[c].for
       /\ \A d \in StoreCalls : gcall[d] = gcall[c] => d = c
  /\ \A t \in Stores : initPromises[t] # 0 =>
       /\ promise[initPromises[t]].of = t
       /\ \E c \in StoreCalls : gcall[c] = [at |-> "own", for |-> initPromises[t]]
  /\ \A i \in DOMAIN promise :
       promise[i].state = "pending" => initPromises[promise[i].of] = i

\* Until the shutdown: an initialization that succeeded has its pool open, and
\* the store keeps it or still awaits it, never both.
PoolsAreKept ==
  destroying = "no" =>
    /\ \A i \in DOMAIN promise :
         /\ pool[i] <=> promise[i].state = "resolved"
         /\ pool[i] => i \in {sources[promise[i].of], initPromises[promise[i].of]}
    /\ \A t \in Stores : sources[t] # 0 =>
         pool[sources[t]] /\ promise[sources[t]].of = t /\ initPromises[t] = 0

SourcesInv == SourcesTypes /\ PromisesHaveOwners /\ PoolsAreKept

\* What the types say of the initializations that are referred to.
LEMMA SourcesRead ==
  ASSUME SourcesTypes
  PROVE  /\ DOMAIN promise = 1..Len(promise) /\ DOMAIN pool = DOMAIN promise /\ Len(promise) \in Nat
         /\ \A i \in DOMAIN promise : promise[i].of \in Stores /\ i # 0
         /\ \A c \in StoreCalls : gcall[c].at = "own" => gcall[c].for \in DOMAIN promise
         /\ \A t \in Stores : initPromises[t] # 0 => initPromises[t] \in DOMAIN promise
         /\ \A t \in Stores : sources[t] # 0 => sources[t] \in DOMAIN promise
<1>1. DOMAIN promise = 1..Len(promise) /\ DOMAIN pool = DOMAIN promise /\ Len(promise) \in Nat
  BY DEF SourcesTypes
<1>2. ASSUME NEW i \in DOMAIN promise PROVE promise[i].of \in Stores /\ i # 0
  <2>1. promise[i] \in Promises
    BY <1>2 DEF SourcesTypes
  <2> QED BY <2>1, <1>1 DEF Promises
<1> QED BY <1>1, <1>2 DEF SourcesTypes

LEMMA SourcesInvInit == SourcesInit => SourcesInv
BY DEF SourcesInit, SourcesInv, SourcesTypes, PromisesHaveOwners, PoolsAreKept, NoSourceCall,
       Places, Promises

\* A step that moves one call only, to a place where it owns nothing.
LEMMA CallMoves ==
  ASSUME SourcesInv, NEW c \in StoreCalls, NEW at \in Places \ {"own"},
         NEW i \in 0..Len(promise), gcall[c].at # "own", Awaits(c, at, i),
         UNCHANGED <<sources, initPromises, promise, pool, destroying>>
  PROVE  SourcesInv'
<1>1. SourcesTypes'
  BY DEF SourcesInv, SourcesTypes, Awaits, Places
<1>2. PromisesHaveOwners'
  BY DEF SourcesInv, SourcesTypes, PromisesHaveOwners, Awaits, Places
<1>3. PoolsAreKept'
  BY DEF SourcesInv, PoolsAreKept
<1> QED BY <1>1, <1>2, <1>3 DEF SourcesInv

LEMMA InitializationBegins ==
  ASSUME SourcesInv, NEW c \in StoreCalls, NEW t \in Stores, GetDataSource(c, t),
         ~Pooled(t), initPromises[t] = 0
  PROVE  SourcesInv'
<1> DEFINE n == Len(promise) + 1
<1>1. /\ gcall[c].at = "idle"
      /\ promise' = Append(promise, [of |-> t, state |-> "pending"])
      /\ pool' = Append(pool, FALSE)
      /\ initPromises' = [initPromises EXCEPT ![t] = n]
      /\ gcall' = [gcall EXCEPT ![c] = [at |-> "own", for |-> n]]
      /\ UNCHANGED <<sources, destroying>>
  BY DEF GetDataSource, Awaits
<1>2. /\ Len(promise') = n /\ Len(pool') = n /\ n \in Nat \ {0}
      /\ \A i \in DOMAIN promise : promise'[i] = promise[i] /\ pool'[i] = pool[i]
      /\ promise'[n] = [of |-> t, state |-> "pending"] /\ pool'[n] = FALSE
      /\ DOMAIN promise = 1..Len(promise) /\ DOMAIN promise' = DOMAIN promise \cup {n}
      /\ n \notin DOMAIN promise
      /\ promise' \in Seq(Promises) /\ pool' \in Seq(BOOLEAN)
  BY <1>1 DEF SourcesInv, SourcesTypes, Promises
<1>3. SourcesTypes'
  BY <1>1, <1>2 DEF SourcesInv, SourcesTypes, Places
<1>4. \A d \in StoreCalls : gcall[d].at = "own" =>
        /\ d # c /\ gcall[d].for \in DOMAIN promise /\ promise[gcall[d].for].of # t
  BY <1>1, <1>2 DEF SourcesInv, SourcesTypes, PromisesHaveOwners
<1>5. \A u \in Stores : u # t /\ initPromises[u] # 0 => initPromises[u] \in DOMAIN promise
  BY <1>2 DEF SourcesInv, SourcesTypes
<1>6. PromisesHaveOwners'
  <2>1. \A d \in StoreCalls : gcall'[d].at = "own" =>
          /\ initPromises'[promise'[gcall'[d].for].of] = gcall'[d].for
          /\ \A e \in StoreCalls : gcall'[e] = gcall'[d] => e = d
    <3> SUFFICES ASSUME NEW d \in StoreCalls, gcall'[d].at = "own"
                 PROVE  /\ initPromises'[promise'[gcall'[d].for].of] = gcall'[d].for
                        /\ \A e \in StoreCalls : gcall'[e] = gcall'[d] => e = d
      OBVIOUS
    <3>1. CASE d = c
      BY <3>1, <1>1, <1>2, <1>4 DEF SourcesInv, SourcesTypes
    <3>2. CASE d # c
      <4>1. gcall'[d] = gcall[d] /\ gcall[d].for \in DOMAIN promise
        BY <3>2, <1>1, <1>4 DEF SourcesInv, SourcesTypes
      <4>2. promise'[gcall[d].for].of # t /\ promise[gcall[d].for].of \in Stores
        BY <4>1, <1>2, <1>4, SourcesRead DEF SourcesInv
      <4> QED BY <4>1, <4>2, <1>1, <1>2 DEF SourcesInv, SourcesTypes, PromisesHaveOwners
    <3> QED BY <3>1, <3>2
  <2>2. \A u \in Stores : initPromises'[u] # 0 =>
          /\ promise'[initPromises'[u]].of = u
          /\ \E d \in StoreCalls : gcall'[d] = [at |-> "own", for |-> initPromises'[u]]
    <3> SUFFICES ASSUME NEW u \in Stores, initPromises'[u] # 0
                 PROVE  /\ promise'[initPromises'[u]].of = u
                        /\ \E d \in StoreCalls : gcall'[d] = [at |-> "own", for |-> initPromises'[u]]
      OBVIOUS
    <3>1. CASE u = t
      BY <3>1, <1>1, <1>2 DEF SourcesInv, SourcesTypes
    <3>2. CASE u # t
      <4>1. initPromises'[u] = initPromises[u]
        BY <3>2, <1>1 DEF SourcesInv, SourcesTypes
      <4>2. PICK d \in StoreCalls : gcall[d] = [at |-> "own", for |-> initPromises[u]]
        BY <4>1 DEF SourcesInv, PromisesHaveOwners
      <4>3. gcall'[d] = gcall[d]
        BY <4>2, <1>1 DEF SourcesInv, SourcesTypes
      <4>4. promise'[initPromises[u]] = promise[initPromises[u]]
        BY <4>1, <3>2, <1>2, <1>5
      <4>5. promise[initPromises[u]].of = u
        BY <4>1 DEF SourcesInv, PromisesHaveOwners
      <4> QED BY <4>1, <4>2, <4>3, <4>4, <4>5
    <3> QED BY <3>1, <3>2
  <2>3. \A i \in DOMAIN promise' :
          promise'[i].state = "pending" => initPromises'[promise'[i].of] = i
    BY <1>1, <1>2 DEF SourcesInv, SourcesTypes, PromisesHaveOwners, Promises
  <2> QED BY <2>1, <2>2, <2>3 DEF PromisesHaveOwners
<1>7. PoolsAreKept'
  <2> SUFFICES ASSUME destroying = "no"
               PROVE  /\ \A i \in DOMAIN promise' :
                           /\ pool'[i] <=> promise'[i].state = "resolved"
                           /\ pool'[i] => i \in {sources[promise'[i].of], initPromises'[promise'[i].of]}
                      /\ \A u \in Stores : sources[u] # 0 =>
                           /\ pool'[sources[u]] /\ promise'[sources[u]].of = u
                           /\ initPromises'[u] = 0
    BY <1>1 DEF PoolsAreKept
  <2>1. \A u \in Stores : sources[u] # 0 => sources[u] \in DOMAIN promise
    BY <1>2 DEF SourcesInv, SourcesTypes
  <2>2. sources[t] = 0
    BY DEF Pooled, SourcesInv, PoolsAreKept
  <2>3. \A u \in Stores : sources[u] # 0 =>
          pool'[sources[u]] /\ promise'[sources[u]].of = u /\ initPromises'[u] = 0
    BY <2>1, <2>2, <1>1, <1>2 DEF SourcesInv, SourcesTypes, PoolsAreKept
  <2>4. \A i \in DOMAIN promise' :
          /\ pool'[i] <=> promise'[i].state = "resolved"
          /\ pool'[i] => i \in {sources[promise'[i].of], initPromises'[promise'[i].of]}
    <3> SUFFICES ASSUME NEW i \in DOMAIN promise'
                 PROVE  /\ pool'[i] <=> promise'[i].state = "resolved"
                        /\ pool'[i] => i \in {sources[promise'[i].of], initPromises'[promise'[i].of]}
      OBVIOUS
    <3>1. CASE i = n
      BY <3>1, <1>2
    <3>2. CASE i \in DOMAIN promise
      <4>1. /\ pool'[i] = pool[i] /\ promise'[i] = promise[i] /\ promise[i].of \in Stores
            /\ pool[i] <=> promise[i].state = "resolved"
            /\ pool[i] => i \in {sources[promise[i].of], initPromises[promise[i].of]}
        BY <3>2, <1>2, SourcesRead DEF SourcesInv, PoolsAreKept
      <4>2. i # 0
        BY <3>2, <1>2 DEF SourcesInv, SourcesTypes
      <4>3. pool[i] => promise[i].of # t
        BY <4>1, <4>2, <2>2
      <4> QED BY <4>1, <4>3, <1>1 DEF SourcesInv, SourcesTypes
    <3> QED BY <3>1, <3>2, <1>2
  <2> QED BY <2>3, <2>4
<1> QED BY <1>3, <1>6, <1>7 DEF SourcesInv

LEMMA InitializationEnds ==
  ASSUME SourcesInv, NEW i \in DOMAIN promise, NEW state \in {"resolved", "rejected"},
         InitForTenant(i, state)
  PROVE  SourcesInv'
<1>1. /\ promise[i].state = "pending" /\ initPromises[promise[i].of] = i
      /\ promise' = [promise EXCEPT ![i].state = state]
      /\ pool' = [pool EXCEPT ![i] = (state = "resolved")]
      /\ UNCHANGED <<sources, initPromises, gcall, destroying>>
  BY DEF InitForTenant, SourcesInv, PromisesHaveOwners
<1>2. /\ DOMAIN promise' = DOMAIN promise /\ DOMAIN pool = DOMAIN promise
      /\ DOMAIN promise = 1..Len(promise) /\ Len(promise') = Len(promise)
      /\ \A j \in DOMAIN promise :
           /\ promise'[j].of = promise[j].of /\ promise[j].of \in Stores
           /\ j # i => promise'[j] = promise[j] /\ pool'[j] = pool[j]
      /\ promise'[i].state = state /\ pool'[i] = (state = "resolved")
      /\ promise' \in Seq(Promises) /\ pool' \in Seq(BOOLEAN) /\ Len(pool') = Len(promise)
  <2>1. promise \in Seq(Promises) /\ pool \in Seq(BOOLEAN) /\ Len(pool) = Len(promise)
    BY DEF SourcesInv, SourcesTypes
  <2>2. promise[i] \in Promises
    BY <2>1
  <2>3. /\ [promise[i] EXCEPT !.state = state] \in Promises
        /\ [promise[i] EXCEPT !.state = state].of = promise[i].of
        /\ [promise[i] EXCEPT !.state = state].state = state
    BY <2>2 DEF Promises
  <2>4. promise' = [promise EXCEPT ![i] = [promise[i] EXCEPT !.state = state]]
    BY <1>1
  <2>5. DOMAIN promise' = DOMAIN promise /\ Len(promise') = Len(promise) /\ promise' \in Seq(Promises)
    BY <2>1, <2>3, <2>4
  <2>6. pool' \in Seq(BOOLEAN) /\ Len(pool') = Len(promise)
    BY <2>1, <1>1
  <2> QED BY <2>1, <2>3, <2>4, <2>5, <2>6, <1>1, SourcesRead DEF SourcesInv
<1>3. SourcesTypes'
  BY <1>1, <1>2 DEF SourcesInv, SourcesTypes
<1>4. /\ \A c \in StoreCalls : gcall[c].at = "own" => gcall[c].for \in DOMAIN promise
      /\ \A t \in Stores : initPromises[t] # 0 => initPromises[t] \in DOMAIN promise
      /\ \A t \in Stores : sources[t] # 0 => sources[t] \in DOMAIN promise
  BY <1>2 DEF SourcesInv, SourcesTypes
<1>5. PromisesHaveOwners'
  BY <1>1, <1>2, <1>4 DEF SourcesInv, PromisesHaveOwners
<1>6. PoolsAreKept'
  <2>1. ASSUME destroying = "no", NEW t \in Stores, sources[t] # 0
        PROVE  sources[t] # i
    BY <2>1, <1>1 DEF SourcesInv, PoolsAreKept
  <2> QED BY <2>1, <1>1, <1>2, <1>4 DEF SourcesInv, PoolsAreKept
<1> QED BY <1>3, <1>5, <1>6 DEF SourcesInv

LEMMA OwnerGoesOn ==
  ASSUME SourcesInv, NEW c \in StoreCalls, Settled(c)
  PROVE  SourcesInv'
<1> DEFINE i == gcall[c].for
           t == promise[i].of
           kept == promise[i].state = "resolved"
<1>1. /\ gcall[c].at = "own" /\ promise[i].state # "pending"
      /\ sources' = IF kept THEN [sources EXCEPT ![t] = i] ELSE sources
      /\ initPromises' = [initPromises EXCEPT ![t] = 0]
      /\ gcall' = [gcall EXCEPT ![c] = [at |-> IF kept THEN "answered" ELSE "failed", for |-> i]]
      /\ UNCHANGED <<promise, pool, destroying>>
  BY DEF Settled, Awaits
<1>2. /\ i \in DOMAIN promise /\ i \in Nat \ {0} /\ i <= Len(promise) /\ t \in Stores
      /\ initPromises[t] = i /\ DOMAIN promise = 1..Len(promise)
  BY <1>1, SourcesRead DEF SourcesInv, PromisesHaveOwners
<1>3. SourcesTypes'
  BY <1>1, <1>2 DEF SourcesInv, SourcesTypes, Places
<1>4. \A d \in StoreCalls : d # c /\ gcall[d].at = "own" => promise[gcall[d].for].of # t
  <2> SUFFICES ASSUME NEW d \in StoreCalls, d # c, gcall[d].at = "own", promise[gcall[d].for].of = t
               PROVE  FALSE
    OBVIOUS
  <2>1. gcall[d].for = i
    BY <1>2 DEF SourcesInv, PromisesHaveOwners
  <2>2. gcall[d] = gcall[c]
    BY <2>1, <1>1 DEF SourcesInv, SourcesTypes
  <2> QED BY <2>2, <1>1 DEF SourcesInv, PromisesHaveOwners
<1>5. PromisesHaveOwners'
  <2>1. \A d \in StoreCalls : gcall'[d].at = "own" => d # c /\ gcall'[d] = gcall[d]
    BY <1>1 DEF SourcesInv, SourcesTypes
  <2>2. \A d \in StoreCalls : gcall'[d].at = "own" =>
          /\ initPromises'[promise[gcall[d].for].of] = gcall[d].for
          /\ \A e \in StoreCalls : gcall'[e] = gcall'[d] => e = d
    <3> SUFFICES ASSUME NEW d \in StoreCalls, gcall'[d].at = "own"
                 PROVE  /\ initPromises'[promise[gcall[d].for].of] = gcall[d].for
                        /\ \A e \in StoreCalls : gcall'[e] = gcall'[d] => e = d
      OBVIOUS
    <3>1. gcall[d].at = "own" /\ promise[gcall[d].for].of \in Stores \ {t}
      BY <2>1, <1>2, <1>4, SourcesRead DEF SourcesInv
    <3>2. \A e \in StoreCalls : gcall'[e] = gcall'[d] => gcall[e] = gcall[d]
      BY <2>1
    <3> QED BY <3>1, <3>2, <1>1 DEF SourcesInv, SourcesTypes, PromisesHaveOwners
  <2>3. \A u \in Stores : initPromises'[u] # 0 =>
          /\ promise[initPromises'[u]].of = u
          /\ \E d \in StoreCalls : gcall'[d] = [at |-> "own", for |-> initPromises'[u]]
    <3> SUFFICES ASSUME NEW u \in Stores, initPromises'[u] # 0
                 PROVE  /\ promise[initPromises'[u]].of = u
                        /\ \E d \in StoreCalls : gcall'[d] = [at |-> "own", for |-> initPromises'[u]]
      OBVIOUS
    <3>1. u # t /\ initPromises'[u] = initPromises[u]
      BY <1>1, <1>2 DEF SourcesInv, SourcesTypes
    <3>2. PICK d \in StoreCalls : gcall[d] = [at |-> "own", for |-> initPromises[u]]
      BY <3>1 DEF SourcesInv, PromisesHaveOwners
    <3>3. promise[initPromises[u]].of = u
      BY <3>1 DEF SourcesInv, PromisesHaveOwners
    <3>4. d # c
      BY <3>1, <3>2, <3>3
    <3> QED BY <3>1, <3>2, <3>3, <3>4, <1>1 DEF SourcesInv, SourcesTypes
  <2>4. \A j \in DOMAIN promise :
          promise[j].state = "pending" => initPromises'[promise[j].of] = j
    <3> SUFFICES ASSUME NEW j \in DOMAIN promise, promise[j].state = "pending"
                 PROVE  initPromises'[promise[j].of] = j
      OBVIOUS
    <3>1. initPromises[promise[j].of] = j /\ promise[j].of \in Stores /\ j # i
      BY <1>1, SourcesRead DEF SourcesInv, PromisesHaveOwners
    <3>2. promise[j].of # t
      BY <3>1, <1>2
    <3> QED BY <3>1, <3>2, <1>1 DEF SourcesInv, SourcesTypes
  <2> QED BY <2>1, <2>2, <2>3, <2>4, <1>1 DEF PromisesHaveOwners
<1>6. PoolsAreKept'
  <2> SUFFICES ASSUME destroying = "no"
               PROVE  /\ \A j \in DOMAIN promise :
                           /\ pool[j] <=> promise[j].state = "resolved"
                           /\ pool[j] => j \in {sources'[promise[j].of], initPromises'[promise[j].of]}
                      /\ \A u \in Stores : sources'[u] # 0 =>
                           pool[sources'[u]] /\ promise[sources'[u]].of = u /\ initPromises'[u] = 0
    BY <1>1 DEF PoolsAreKept
  <2>1. sources[t] = 0 /\ (pool[i] <=> kept)
    BY <1>2 DEF SourcesInv, PoolsAreKept
  <2>2. \A u \in Stores \ {t} : sources'[u] = sources[u] /\ initPromises'[u] = initPromises[u]
    BY <1>1 DEF SourcesInv, SourcesTypes
  <2>3. /\ sources'[t] = (IF kept THEN i ELSE 0) /\ initPromises'[t] = 0
    BY <1>1, <1>2, <2>1 DEF SourcesInv, SourcesTypes
  <2>4. \A u \in Stores : sources'[u] # 0 =>
          pool[sources'[u]] /\ promise[sources'[u]].of = u /\ initPromises'[u] = 0
    BY <2>1, <2>2, <2>3 DEF SourcesInv, PoolsAreKept
  <2>5. \A j \in DOMAIN promise : pool[j] => j \in {sources'[promise[j].of], initPromises'[promise[j].of]}
    <3> SUFFICES ASSUME NEW j \in DOMAIN promise, pool[j]
                 PROVE  j \in {sources'[promise[j].of], initPromises'[promise[j].of]}
      OBVIOUS
    <3>1. /\ j \in {sources[promise[j].of], initPromises[promise[j].of]} /\ j # 0
          /\ promise[j].of \in Stores
      BY SourcesRead DEF SourcesInv, PoolsAreKept
    <3> QED BY <3>1, <2>1, <2>2, <2>3, <1>2
  <2> QED BY <2>4, <2>5 DEF SourcesInv, PoolsAreKept
<1> QED BY <1>3, <1>5, <1>6 DEF SourcesInv

LEMMA SourcesInvNext == SourcesInv /\ [SourcesNext]_sourceVars => SourcesInv'
<1> SUFFICES ASSUME SourcesInv, [SourcesNext]_sourceVars
             PROVE  SourcesInv'
  OBVIOUS
<1>1. ASSUME NEW c \in StoreCalls, NEW t \in Stores, GetDataSource(c, t)
      PROVE  SourcesInv'
  <2>1. CASE Pooled(t)
    <3>1. sources[t] \in 0..Len(promise)
      BY DEF SourcesInv, SourcesTypes
    <3> QED BY <1>1, <2>1, <3>1, CallMoves DEF GetDataSource, Places
  <2>2. CASE ~Pooled(t) /\ initPromises[t] # 0
    <3>1. initPromises[t] \in 0..Len(promise)
      BY DEF SourcesInv, SourcesTypes
    <3> QED BY <1>1, <2>2, <3>1, CallMoves DEF GetDataSource, Places
  <2>3. CASE ~Pooled(t) /\ initPromises[t] = 0
    BY <1>1, <2>3, InitializationBegins
  <2> QED BY <2>1, <2>2, <2>3
<1>2. ASSUME NEW c \in StoreCalls, Settled(c) PROVE SourcesInv'
  BY <1>2, OwnerGoesOn
<1>3. ASSUME NEW c \in StoreCalls, Joined(c) \/ Finish(c) PROVE SourcesInv'
  <2>1. gcall[c].for \in 0..Len(promise) /\ 0 \in 0..Len(promise)
    BY DEF SourcesInv, SourcesTypes
  <2> QED BY <1>3, <2>1, CallMoves DEF Joined, Finish, Places
<1>4. ASSUME NEW i \in DOMAIN promise, NEW state \in {"resolved", "rejected"}, InitForTenant(i, state)
      PROVE  SourcesInv'
  BY <1>4, InitializationEnds
<1>5. ASSUME (\E t \in Stores : DestroySource(t)) \/ ClearSources
      PROVE  SourcesInv'
  <2>1. destroying' # "no" /\ UNCHANGED <<initPromises, promise, gcall>>
    BY <1>5 DEF DestroySource, ClearSources
  <2>2. SourcesTypes'
    <3>1. ASSUME NEW t \in Stores, DestroySource(t)
          PROVE  SourcesTypes'
      <4>1. pool' = [pool EXCEPT ![sources[t]] = FALSE] /\ UNCHANGED sources
        BY <3>1 DEF DestroySource
      <4>2. sources[t] \in DOMAIN pool
        BY <3>1, SourcesRead DEF DestroySource, Pooled, SourcesInv
      <4>3. pool \in Seq(BOOLEAN) /\ Len(pool) = Len(promise)
        BY DEF SourcesInv, SourcesTypes
      <4>4. pool' \in Seq(BOOLEAN) /\ Len(pool') = Len(promise)
        BY <4>1, <4>2, <4>3
      <4> QED BY <4>1, <4>4, <2>1 DEF SourcesInv, SourcesTypes
    <3>2. CASE ClearSources
      BY <3>2 DEF SourcesInv, SourcesTypes, ClearSources
    <3> QED BY <1>5, <3>1, <3>2
  <2> QED BY <2>1, <2>2 DEF SourcesInv, PromisesHaveOwners, PoolsAreKept
<1>6. CASE UNCHANGED sourceVars
  BY <1>6 DEF sourceVars, SourcesInv, SourcesTypes, PromisesHaveOwners, PoolsAreKept
<1> QED BY <1>1, <1>2, <1>3, <1>4, <1>5, <1>6 DEF SourcesNext

\* Requests, initializations and pools always stand in the order above: the
\* types of the factory's maps, and who owns a promise.
THEOREM SourcesInOrder == SourcesSpec => []SourcesInv
BY SourcesInvInit, SourcesInvNext, PTL DEF SourcesSpec

LEMMA SourcesInvShares == SourcesInv => SourcesAreShared
<1> SUFFICES ASSUME SourcesInv, destroying = "no", NEW t \in Stores
             PROVE  LET open == {i \in DOMAIN pool : pool[i] /\ promise[i].of = t} IN
                    /\ Cardinality(open) <= 1
                    /\ open \subseteq {sources[t], initPromises[t]}
                    /\ sources[t] # 0 => promise[sources[t]].of = t
                    /\ initPromises[t] # 0 =>
                         \E c \in StoreCalls : gcall[c] = [at |-> "own", for |-> initPromises[t]]
  BY DEF SourcesAreShared
<1> DEFINE open == {i \in DOMAIN pool : pool[i] /\ promise[i].of = t}
           kept == IF sources[t] # 0 THEN sources[t] ELSE initPromises[t]
<1>1. DOMAIN pool = DOMAIN promise /\ DOMAIN pool = 1..Len(pool)
  BY DEF SourcesInv, SourcesTypes
<1>2. open \subseteq {sources[t], initPromises[t]}
  BY <1>1 DEF SourcesInv, PoolsAreKept
<1>3. 0 \notin open
  BY <1>1
<1>4. open \subseteq {kept}
  BY <1>2, <1>3 DEF SourcesInv, PoolsAreKept
<1>5. Cardinality(open) <= 1
  <2>1. open = {} \/ open = {kept}
    BY <1>4
  <2>2. Cardinality({}) = 0 /\ Cardinality({kept}) = 1
    BY FS_Singleton, FS_EmptySet
  <2> HIDE DEF open, kept
  <2> QED BY <2>1, <2>2
<1> QED BY <1>2, <1>5 DEF SourcesInv, PoolsAreKept, PromisesHaveOwners

\* For every number of stores, concurrent requests and failing initializations a
\* store has one pool, which its next request finds, and every initialization
\* that is awaited has the request that will forget or keep it.
THEOREM StoresShareTheirSource == SourcesSpec => []SourcesAreShared
BY SourcesInOrder, SourcesInvShares, PTL

(* The account on a platform *)

PostPlaces == {"idle", "calls", "online", "failed", "expire", "expiring"}
\* What is still to ask of the platform before the post is online.
Unshown ==
  {<<"upload", "upload", "feed">>, <<"upload", "feed">>, <<"feed">>, <<"photo">>, <<"video">>, <<"refuse">>,
   <<"child", "child", "container", "wait", "publish", "permalink">>,
   <<"child", "container", "wait", "publish", "permalink">>,
   <<"container", "wait", "publish", "permalink">>, <<"wait", "publish", "permalink">>,
   <<"publish", "permalink">>}
PostFields == {"at", "todo", "token", "row", "read", "online", "unanswered"}
PostIsWhole(post) ==
  /\ post.at \in {"online", "failed", "expire", "expiring"} =>
       post.online = IF post.at = "online" \/ post.unanswered THEN 1 ELSE 0
  /\ post.at = "calls" =>
       /\ ~post.unanswered
       /\ \/ post.todo \in Unshown /\ post.online = 0
          \/ post.todo = <<"permalink">> /\ post.online = 1
PublishInv ==
  /\ platform \in Platforms
  /\ DOMAIN pub = Publishers
  /\ \A p \in Publishers : DOMAIN pub[p] = PostFields /\ pub[p].at \in PostPlaces /\ PostIsWhole(pub[p])

LEMMA NoPostIsWhole ==
  DOMAIN NoPost = PostFields /\ NoPost.at = "idle" /\ NoPost.online = 0 /\ ~NoPost.unanswered
BY DEF NoPost, PostFields

\* The requests that publish a post show nothing until the one that puts it online.
LEMMA UploadsAreUnshown ==
  ASSUME NEW media \in Media PROVE Uploads(media) \in Unshown
<1> DEFINE posting == <<"container", "wait", "publish", "permalink">>
<1>1. << >> \o posting = posting
  <2>1. posting \in Seq({"container", "wait", "publish", "permalink"})
    OBVIOUS
  <2> QED BY <2>1, ConcatEmptySeq
<1>2. <<"child", "child">> \o posting = <<"child", "child", "container", "wait", "publish", "permalink">>
  <2> DEFINE Words == {"child", "container", "wait", "publish", "permalink"}
             both == <<"child", "child">>
             all == <<"child", "child", "container", "wait", "publish", "permalink">>
  <2>1. both \in Seq(Words) /\ posting \in Seq(Words) /\ all \in Seq(Words)
    OBVIOUS
  <2>2. Len(both) = 2 /\ Len(posting) = 4 /\ Len(all) = 6
    OBVIOUS
  <2>3. /\ both \o posting \in Seq(Words) /\ Len(both \o posting) = 6
        /\ \A i \in 1..6 : (both \o posting)[i] = IF i <= 2 THEN both[i] ELSE posting[i - 2]
    BY <2>1, <2>2, ConcatProperties
  <2>4. \A i \in 1..6 : (IF i <= 2 THEN both[i] ELSE posting[i - 2]) = all[i]
    OBVIOUS
  <2> HIDE DEF Words, both, all, posting
  <2>5. both \o posting = all
    BY <2>1, <2>2, <2>3, <2>4, SeqEqual
  <2> QED BY <2>5 DEF both, all
<1>3. CASE platform = "FACEBOOK"
  BY <1>3 DEF Uploads, Unshown
<1>4. CASE platform = "INSTAGRAM" /\ media # "text"
  <2>1. Uploads(media) = (IF media = "images" THEN <<"child", "child">> ELSE << >>) \o posting
    BY <1>4 DEF Uploads
  <2> QED BY <2>1, <1>1, <1>2 DEF Unshown
<1>5. CASE ~(platform = "FACEBOOK" \/ (platform = "INSTAGRAM" /\ media # "text"))
  BY <1>5 DEF Uploads, Unshown
<1> QED BY <1>3, <1>4, <1>5

\* The answer to one request leaves those after it.
LEMMA UnshownAdvance ==
  ASSUME NEW todo \in Unshown
  PROVE  /\ Head(todo) # "permalink"
         /\ Head(todo) \in Shows => todo \in {<<"feed">>, <<"photo">>, <<"video">>, <<"publish", "permalink">>}
         /\ Head(todo) \notin Shows => todo = <<"refuse">> \/ (Tail(todo) \in Unshown /\ Len(todo) > 1)
<1>1. /\ Tail(<<"upload", "upload", "feed">>) = <<"upload", "feed">>
      /\ Tail(<<"upload", "feed">>) = <<"feed">>
  OBVIOUS
<1>2. Tail(<<"child", "child", "container", "wait", "publish", "permalink">>) = <<"child", "container", "wait", "publish", "permalink">>
  OBVIOUS
<1>3. Tail(<<"child", "container", "wait", "publish", "permalink">>) = <<"container", "wait", "publish", "permalink">>
  OBVIOUS
<1>4. /\ Tail(<<"container", "wait", "publish", "permalink">>) = <<"wait", "publish", "permalink">>
      /\ Tail(<<"wait", "publish", "permalink">>) = <<"publish", "permalink">>
  OBVIOUS
<1>5. CASE todo \in {<<"feed">>, <<"photo">>, <<"video">>, <<"refuse">>, <<"publish", "permalink">>}
  BY <1>5 DEF Shows
<1>6. CASE todo = <<"upload", "upload", "feed">>
  BY <1>1, <1>6 DEF Unshown, Shows
<1>7. CASE todo = <<"upload", "feed">>
  BY <1>1, <1>7 DEF Unshown, Shows
<1>8. CASE todo = <<"child", "child", "container", "wait", "publish", "permalink">>
  BY <1>2, <1>8 DEF Unshown, Shows
<1>9. CASE todo = <<"child", "container", "wait", "publish", "permalink">>
  BY <1>3, <1>9 DEF Unshown, Shows
<1>10. CASE todo = <<"container", "wait", "publish", "permalink">>
  BY <1>4, <1>10 DEF Unshown, Shows
<1>11. CASE todo = <<"wait", "publish", "permalink">>
  BY <1>4, <1>11 DEF Unshown, Shows
<1> QED BY <1>5, <1>6, <1>7, <1>8, <1>9, <1>10, <1>11 DEF Unshown

\* A post is over: it is online, it failed, or the account is to expire.
LEMMA PostIsOver ==
  ASSUME PublishInv, NEW p \in Publishers, NEW at, NEW online, NEW unanswered, Ended(p, at, online, unanswered)
  PROVE  /\ DOMAIN pub' = Publishers /\ DOMAIN pub'[p] = PostFields
         /\ pub'[p].at = at /\ pub'[p].online = online /\ pub'[p].unanswered = unanswered
         /\ \A q \in Publishers : q # p => pub'[q] = pub[q]
<1> DEFINE post(r) == [NoPost EXCEPT !.at = at, !.online = online, !.unanswered = unanswered, !.row = r]
<1>1. ASSUME NEW r
      PROVE  /\ DOMAIN post(r) = PostFields /\ post(r).at = at /\ post(r).online = online
             /\ post(r).unanswered = unanswered
  BY NoPostIsWhole DEF PostFields
<1>2. \E r : pub' = [pub EXCEPT ![p] = post(r)]
  BY DEF Ended
<1> HIDE DEF post
<1>3. PICK r : pub' = [pub EXCEPT ![p] = post(r)]
  BY <1>2
<1>4. DOMAIN pub' = Publishers /\ pub'[p] = post(r) /\ \A q \in Publishers : q # p => pub'[q] = pub[q]
  BY <1>3 DEF PublishInv
<1> QED BY <1>1, <1>4

\* The invariant of what is published: it holds at first,
LEMMA PublishInvInit == ConnectInit => PublishInv
BY NoPostIsWhole DEF ConnectInit, PublishInv, PostIsWhole, PostPlaces

\* One post changes, the others stay.
LEMMA OnePostChanges ==
  ASSUME PublishInv, UNCHANGED platform, NEW p \in Publishers, DOMAIN pub' = Publishers,
         \A q \in Publishers : q # p => pub'[q] = pub[q],
         DOMAIN pub'[p] = PostFields, pub'[p].at \in PostPlaces, PostIsWhole(pub'[p])
  PROVE  PublishInv'
BY DEF PublishInv

\* A request of a post to its platform.
LEMMA PostResolves ==
  ASSUME PublishInv, NEW p \in Publishers, NEW i \in DOMAIN acct, NEW media \in Media, Resolve(p, i, media)
  PROVE  PublishInv'
<1>1. UNCHANGED platform /\ DOMAIN pub = Publishers
  BY DEF Resolve, PublishInv
<1>2. ASSUME NEW post, pub' = [pub EXCEPT ![p] = post], DOMAIN post = PostFields, post.at \in PostPlaces,
             PostIsWhole(post)
      PROVE  PublishInv'
  <2>1. DOMAIN pub' = Publishers /\ pub'[p] = post /\ \A q \in Publishers : q # p => pub'[q] = pub[q]
    BY <1>1, <1>2
  <2> QED BY <2>1, <1>1, <1>2, OnePostChanges
<1>3. CASE pub' = [pub EXCEPT ![p] = [NoPost EXCEPT !.at = "failed"]]
  <2> DEFINE post == [NoPost EXCEPT !.at = "failed"]
  <2>1. DOMAIN post = PostFields /\ post.at = "failed" /\ post.online = 0 /\ ~post.unanswered
    BY NoPostIsWhole DEF PostFields
  <2> HIDE DEF post
  <2>2. PostIsWhole(post) /\ post.at \in PostPlaces
    BY <2>1 DEF PostIsWhole, PostPlaces
  <2> QED BY <2>1, <2>2, <1>2, <1>3 DEF post
<1>4. CASE pub' = [pub EXCEPT ![p] = [NoPost EXCEPT !.at = "expire", !.row = i]]
  <2> DEFINE post == [NoPost EXCEPT !.at = "expire", !.row = i]
  <2>1. DOMAIN post = PostFields /\ post.at = "expire" /\ post.online = 0 /\ ~post.unanswered
    BY NoPostIsWhole DEF PostFields
  <2> HIDE DEF post
  <2>2. PostIsWhole(post) /\ post.at \in PostPlaces
    BY <2>1 DEF PostIsWhole, PostPlaces
  <2> QED BY <2>1, <2>2, <1>2, <1>4 DEF post
<1>5. CASE pub' = [pub EXCEPT ![p] = [NoPost EXCEPT !.at = "calls", !.todo = Uploads(media),
                                                   !.token = acct[i].token, !.row = i]]
  <2> DEFINE post == [NoPost EXCEPT !.at = "calls", !.todo = Uploads(media), !.token = acct[i].token, !.row = i]
  <2>1. /\ DOMAIN post = PostFields /\ post.at = "calls" /\ post.online = 0 /\ ~post.unanswered
        /\ post.todo = Uploads(media)
    BY NoPostIsWhole DEF PostFields
  <2> HIDE DEF post
  <2>2. PostIsWhole(post) /\ post.at \in PostPlaces
    BY <2>1, UploadsAreUnshown DEF PostIsWhole, PostPlaces
  <2> QED BY <2>1, <2>2, <1>2, <1>5 DEF post
<1> QED BY <1>3, <1>4, <1>5 DEF Resolve

LEMMA RequestIsAnswered ==
  ASSUME PublishInv, NEW p \in Publishers, CallAnswered(p),
         NEW todo, pub[p].todo = todo, NEW shown, pub[p].online = shown
  PROVE  PublishInv'
<1> DEFINE step == Head(todo)
           online == shown + (IF step \in Shows THEN 1 ELSE 0)
<1>1. /\ UNCHANGED platform /\ pub[p].at = "calls" /\ step # "refuse"
      /\ IF Len(todo) = 1 THEN Ended(p, "online", online, pub[p].unanswered)
         ELSE pub' = [pub EXCEPT ![p].todo = Tail(todo), ![p].online = online]
  BY DEF CallAnswered
<1>2. ~pub[p].unanswered /\ ((todo \in Unshown /\ shown = 0) \/ (todo = <<"permalink">> /\ shown = 1))
  BY <1>1 DEF PublishInv, PostIsWhole
<1> HIDE DEF online
<1>3. CASE Len(todo) = 1
  <2>3. /\ DOMAIN pub' = Publishers /\ DOMAIN pub'[p] = PostFields /\ pub'[p].at = "online"
        /\ pub'[p].online = online
        /\ \A q \in Publishers : q # p => pub'[q] = pub[q]
    BY <1>1, <1>3, PostIsOver
  <2>4. online = 1
    <3>1. CASE todo = <<"permalink">> /\ shown = 1
      BY <3>1 DEF online, Shows
    <3>2. CASE todo \in Unshown /\ shown = 0
      <4>1. step \in Shows
        <5>1. todo # <<"refuse">>
          BY <1>1
        <5>2. Head(todo) \notin Shows => todo = <<"refuse">> \/ Len(todo) > 1
          BY <3>2, UnshownAdvance
        <5> QED BY <5>1, <5>2, <1>3
      <4> QED BY <3>2, <4>1 DEF online
    <3> QED BY <3>1, <3>2, <1>2
  <2>5. PostIsWhole(pub'[p]) /\ pub'[p].at \in PostPlaces
    BY <2>3, <2>4 DEF PostIsWhole, PostPlaces
  <2> QED BY <1>1, <2>3, <2>5, OnePostChanges
<1>4. CASE Len(todo) # 1
  <2>3. /\ DOMAIN pub' = Publishers /\ DOMAIN pub'[p] = PostFields /\ pub'[p].at = "calls"
        /\ pub'[p].online = online /\ pub'[p].todo = Tail(todo) /\ pub'[p].unanswered = pub[p].unanswered
        /\ \A q \in Publishers : q # p => pub'[q] = pub[q]
    BY <1>1, <1>4 DEF PublishInv, PostFields
  <2>4. todo \in Unshown /\ shown = 0
    BY <1>2, <1>4
  <2>5. \/ Tail(todo) \in Unshown /\ online = 0
        \/ Tail(todo) = <<"permalink">> /\ online = 1
    <3>1. CASE step \in Shows
      <4>1. todo = <<"publish", "permalink">>
        BY <3>1, <2>4, <1>4, UnshownAdvance
      <4> QED BY <3>1, <4>1, <2>4 DEF online
    <3>2. CASE step \notin Shows
      <4>1. todo # <<"refuse">>
        BY <1>1
      <4> QED BY <3>2, <4>1, <2>4, UnshownAdvance DEF online
    <3> QED BY <3>1, <3>2
  <2>6. PostIsWhole(pub'[p]) /\ pub'[p].at \in PostPlaces
    BY <1>2, <2>3, <2>5 DEF PostIsWhole, PostPlaces
  <2> QED BY <1>1, <2>3, <2>6, OnePostChanges
<1> QED BY <1>3, <1>4

LEMMA PostGivesUp ==
  ASSUME PublishInv, NEW p \in Publishers,
         \/ \E aboutToken \in BOOLEAN : CallFails(p, aboutToken)
         \/ \E unparsable \in BOOLEAN : CallUnanswered(p, unparsable)
         \/ SaveExpired(p)
  PROVE  PublishInv'
<1>1. ASSUME NEW at \in PostPlaces \ {"idle", "calls"}, UNCHANGED platform,
             Ended(p, at, pub[p].online, pub[p].unanswered),
             pub[p].online = IF at = "online" \/ pub[p].unanswered THEN 1 ELSE 0
      PROVE  PublishInv'
  <2>2. /\ DOMAIN pub' = Publishers /\ DOMAIN pub'[p] = PostFields /\ pub'[p].at = at
        /\ pub'[p].online = pub[p].online /\ pub'[p].unanswered = pub[p].unanswered
        /\ \A q \in Publishers : q # p => pub'[q] = pub[q]
    BY <1>1, PostIsOver
  <2>3. PostIsWhole(pub'[p])
    BY <1>1, <2>2 DEF PostIsWhole
  <2> QED BY <1>1, <2>2, <2>3, OnePostChanges
<1>2. ASSUME NEW aboutToken \in BOOLEAN, CallFails(p, aboutToken) PROVE PublishInv'
  <2> DEFINE step == Head(pub[p].todo)
             at == IF step = "permalink" THEN "online" ELSE IF aboutToken THEN "expire" ELSE "failed"
  <2>1. Ended(p, at, pub[p].online, pub[p].unanswered) /\ UNCHANGED platform /\ pub[p].at = "calls"
    BY <1>2 DEF CallFails
  <2>2. /\ ~pub[p].unanswered
        /\ (pub[p].todo \in Unshown /\ pub[p].online = 0) \/ (pub[p].todo = <<"permalink">> /\ pub[p].online = 1)
    BY <2>1 DEF PublishInv, PostIsWhole
  <2>3. pub[p].online = IF step = "permalink" THEN 1 ELSE 0
    BY <2>2, UnshownAdvance
  <2>4. at \in PostPlaces \ {"idle", "calls"} /\ (at = "online" <=> step = "permalink")
    BY DEF PostPlaces
  <2> HIDE DEF at, step
  <2> QED BY <2>1, <2>2, <2>3, <2>4, <1>1
<1>3. ASSUME NEW unparsable \in BOOLEAN, CallUnanswered(p, unparsable) PROVE PublishInv'
  <2> DEFINE at == IF unparsable THEN "expire" ELSE "failed"
  <2>1. /\ Ended(p, at, pub[p].online + 1, TRUE) /\ UNCHANGED platform /\ pub[p].at = "calls"
        /\ Head(pub[p].todo) \in Shows
    BY <1>3 DEF CallUnanswered
  <2>6. at \in {"failed", "expire"}
    OBVIOUS
  <2> HIDE DEF at
  <2>2. pub[p].online = 0
    <3>1. pub[p].todo # <<"permalink">>
      BY <2>1 DEF Shows
    <3> QED BY <3>1, <2>1 DEF PublishInv, PostIsWhole
  <2>3. pub[p].online + 1 = 1
    BY <2>2
  <2>4. /\ DOMAIN pub' = Publishers /\ DOMAIN pub'[p] = PostFields /\ pub'[p].at = at
        /\ pub'[p].online = 1 /\ pub'[p].unanswered = TRUE
        /\ \A q \in Publishers : q # p => pub'[q] = pub[q]
    BY <2>1, <2>3, PostIsOver
  <2>5. PostIsWhole(pub'[p]) /\ pub'[p].at \in PostPlaces
    BY <2>4, <2>6 DEF PostIsWhole, PostPlaces
  <2> QED BY <2>1, <2>4, <2>5, OnePostChanges
<1>4. ASSUME SaveExpired(p) PROVE PublishInv'
  <2>1. Ended(p, "failed", pub[p].online, pub[p].unanswered) /\ UNCHANGED platform /\ pub[p].at = "expiring"
    BY <1>4 DEF SaveExpired
  <2>2. pub[p].online = IF pub[p].unanswered THEN 1 ELSE 0
    BY <2>1 DEF PublishInv, PostIsWhole
  <2> QED BY <2>1, <2>2, <1>1 DEF PostPlaces
<1> QED BY <1>2, <1>3, <1>4

LEMMA ExpiredIsFound ==
  ASSUME PublishInv, NEW p \in Publishers, FindExpired(p)
  PROVE  PublishInv'
<1>1. pub' = [pub EXCEPT ![p].at = "expiring", ![p].read = acct[pub[p].row]] /\ UNCHANGED platform
      /\ pub[p].at = "expire"
  BY DEF FindExpired
<1>3. /\ DOMAIN pub' = Publishers /\ DOMAIN pub'[p] = PostFields /\ pub'[p].at = "expiring"
      /\ pub'[p].online = pub[p].online /\ pub'[p].unanswered = pub[p].unanswered
      /\ \A q \in Publishers : q # p => pub'[q] = pub[q]
  BY <1>1 DEF PublishInv, PostFields
<1>4. PostIsWhole(pub'[p]) /\ pub'[p].at \in PostPlaces
  BY <1>1, <1>3 DEF PublishInv, PostIsWhole, PostPlaces
<1> QED BY <1>1, <1>3, <1>4, OnePostChanges

\* and every step keeps it.
LEMMA PublishInvNext == PublishInv /\ [ConnectNext]_connectVars => PublishInv'
<1> SUFFICES ASSUME PublishInv, [ConnectNext]_connectVars PROVE PublishInv'
  OBVIOUS
<1>1. ASSUME UNCHANGED <<platform, pub>> PROVE PublishInv'
  BY <1>1 DEF PublishInv
<1>2. CASE UNCHANGED connectVars
  BY <1>1, <1>2 DEF connectVars
<1>3. ASSUME NEW granted \in Grants, Consent(granted) PROVE PublishInv'
  BY <1>1, <1>3 DEF Consent
<1>4. ASSUME NEW n \in DOMAIN consent, NEW how \in {"expired", "dead"}, TokenDies(n, how) PROVE PublishInv'
  BY <1>1, <1>4 DEF TokenDies
<1>5. ASSUME NEW f \in Flows,
             \/ \E n \in DOMAIN consent : Callback(f, n)
             \/ \E i \in DOMAIN acct : Disconnect(f, i)
             \/ \E granted \in BOOLEAN : Revoke(f, granted)
             \/ ExchangeStep(f) \/ FlowFails(f) \/ FindAccount(f) \/ SaveAccount(f)
             \/ FindDisconnected(f) \/ SoftDelete(f)
      PROVE  PublishInv'
  BY <1>1, <1>5 DEF Callback, Disconnect, Revoke, ExchangeStep, FlowFails, FindAccount, SaveAccount,
                    FindDisconnected, SoftDelete
<1> QED
  BY <1>2, <1>3, <1>4, <1>5, PostResolves, RequestIsAnswered, PostGivesUp, ExpiredIsFound DEF ConnectNext

\* (PublishIsWhole) publish of each client makes several requests of the platform, each
\* of which may fail or go unanswered: the post is online once when it returns, and not
\* at all when it throws, unless the answer that it is online was lost.
THEOREM PublicationsAreWhole == ConnectSpec => []PublishIsWhole
<1>1. PublishInv => PublishIsWhole
  BY DEF PublishInv, PostIsWhole, PublishIsWhole
<1> QED BY <1>1, PublishInvInit, PublishInvNext, PTL DEF ConnectSpec

(* The row of an account *)

Consents == [code : {"fresh", "used"}, granted : Grants]
AccountRows == [token : Nat, status : {"none", "CONNECTED", "EXPIRED", "DISCONNECTED"}, deleted : BOOLEAN]
FlowFields == {"at", "todo", "consent", "row", "read"}
RowsHoldLatest ==
  /\ Len(token) = Len(consent) /\ Len(latest) = Len(acct)
  /\ \A i \in 1..Len(acct) :
       /\ acct[i].token \in 1..Len(token) /\ acct[i].status # "none"
       /\ acct[i].status = "CONNECTED" => acct[i].token = latest[i]
ConnectTypes ==
  /\ consent \in Seq(Consents)
  /\ token \in Seq({"none", "alive", "expired", "dead"})
  /\ acct \in Seq(AccountRows) /\ latest \in Seq(Nat)
  /\ attempts \in Nat /\ attempts <= MaxAttempts
  /\ DOMAIN flow = Flows /\ DOMAIN pub = Publishers
\* What the callbacks and disconnections in progress, and the posts, refer to exists:
\* n consents and m rows.
FlowStands(k, n, m) ==
  /\ DOMAIN k = FlowFields /\ k.read \in AccountRows /\ k.row \in 0..m
  /\ k.at \in {"exchange", "find", "save"} => k.consent \in 1..n
  /\ k.at \in {"revoke", "reread", "delete"} => k.row # 0
  /\ k.at = "delete" => k.read.token \in 1..n
PostStands(k, n, m) ==
  /\ DOMAIN k = PostFields /\ k.row \in 0..m
  /\ k.at \in {"calls", "expire", "expiring"} => k.row # 0
  /\ k.at = "expiring" => k.read \in AccountRows /\ k.read.token \in 1..n
ConnectInv ==
  /\ ConnectTypes /\ RowsHoldLatest
  /\ \A f \in Flows : FlowStands(flow[f], Len(consent), Len(acct))
  /\ \A p \in Publishers : PostStands(pub[p], Len(consent), Len(acct))

\* What is there stays there while rows and consents are added.
LEMMA FlowLaterStands ==
  ASSUME NEW k, NEW n \in Nat, NEW m \in Nat, NEW n2 \in Nat, NEW m2 \in Nat, n <= n2, m <= m2,
         FlowStands(k, n, m)
  PROVE  FlowStands(k, n2, m2)
BY DEF FlowStands

LEMMA PostLaterStands ==
  ASSUME NEW k, NEW n \in Nat, NEW m \in Nat, NEW n2 \in Nat, NEW m2 \in Nat, n <= n2, m <= m2,
         PostStands(k, n, m)
  PROVE  PostStands(k, n2, m2)
BY DEF PostStands

LEMMA NothingStands ==
  ASSUME NEW n \in Nat, NEW m \in Nat
  PROVE  FlowStands(NoFlow, n, m) /\ PostStands(NoPost, n, m) /\ NoAccount \in AccountRows
<1>1. NoAccount \in AccountRows
  BY DEF NoAccount, AccountRows
<1>2. DOMAIN NoFlow = FlowFields /\ NoFlow.read = NoAccount /\ NoFlow.row = 0 /\ NoFlow.at = "idle"
  BY DEF NoFlow, FlowFields
<1>3. DOMAIN NoPost = PostFields /\ NoPost.row = 0 /\ NoPost.at = "idle"
  BY DEF NoPost, PostFields
<1> QED BY <1>1, <1>2, <1>3 DEF FlowStands, PostStands

\* Every consent has one token, and every row one latest token.
LEMMA ConnectLengths ==
  ASSUME ConnectTypes
  PROVE  /\ Len(consent) \in Nat /\ Len(acct) \in Nat /\ Len(token) \in Nat
         /\ DOMAIN consent = 1..Len(consent) /\ DOMAIN acct = 1..Len(acct) /\ DOMAIN token = 1..Len(token)
         /\ \A i \in 1..Len(acct) : acct[i] \in AccountRows
BY LenProperties, ElementOfSeq DEF ConnectTypes

\* The invariant of rows and tokens: it holds at first,
LEMMA ConnectInvInit == ConnectInit => ConnectInv
<1> SUFFICES ASSUME ConnectInit PROVE ConnectInv
  OBVIOUS
<1>1. Len(consent) = 0 /\ Len(acct) = 0 /\ Len(token) = 0 /\ Len(latest) = 0
  BY EmptySeq DEF ConnectInit
<1>2. ConnectTypes
  BY SocialAccountsAssumption, EmptySeq DEF ConnectInit, ConnectTypes
<1>3. RowsHoldLatest
  BY <1>1 DEF RowsHoldLatest
<1> QED BY <1>1, <1>2, <1>3, NothingStands DEF ConnectInit, ConnectInv

\* A step that leaves the rows alone and, of the callbacks and posts, changes those
\* it says.
LEMMA RowsAreLeft ==
  ASSUME ConnectInv, ConnectTypes', UNCHANGED <<acct, latest>>,
         Len(token)' = Len(consent)', Len(consent)' >= Len(consent),
         \A f \in Flows : flow'[f] = flow[f] \/ FlowStands(flow'[f], Len(consent)', Len(acct)),
         \A p \in Publishers : pub'[p] = pub[p] \/ PostStands(pub'[p], Len(consent)', Len(acct))
  PROVE  ConnectInv'
<1>1. /\ Len(consent) \in Nat /\ Len(consent)' \in Nat /\ Len(acct) \in Nat /\ Len(acct)' = Len(acct)
  BY ConnectLengths DEF ConnectInv
<1>2. RowsHoldLatest'
  BY <1>1 DEF ConnectInv, RowsHoldLatest
<1>3. Len(consent) <= Len(consent)' /\ Len(acct) <= Len(acct)
  BY <1>1
<1>4. \A f \in Flows : FlowStands(flow'[f], Len(consent)', Len(acct))
  BY <1>1, <1>3, FlowLaterStands DEF ConnectInv
<1>5. ASSUME NEW p \in Publishers PROVE PostStands(pub'[p], Len(consent)', Len(acct))
  <2>1. PostStands(pub[p], Len(consent), Len(acct))
    BY DEF ConnectInv
  <2>2. PostStands(pub[p], Len(consent)', Len(acct))
    BY <1>1, <1>3, <2>1, PostLaterStands
  <2> QED BY <2>2
<1> QED BY <1>1, <1>2, <1>4, <1>5 DEF ConnectInv

LEMMA ConsentsAndTokens ==
  ASSUME ConnectInv,
         \/ \E granted \in Grants : Consent(granted)
         \/ \E n \in DOMAIN consent, how \in {"expired", "dead"} : TokenDies(n, how)
  PROVE  ConnectInv'
<1> Len(consent) \in Nat /\ Len(token) = Len(consent)
  BY ConnectLengths DEF ConnectInv, RowsHoldLatest
<1>1. ASSUME NEW granted \in Grants, Consent(granted) PROVE ConnectInv'
  <2>1. /\ consent' = Append(consent, [code |-> "fresh", granted |-> granted]) /\ token' = Append(token, "none")
        /\ UNCHANGED <<platform, acct, flow, pub, attempts, latest>>
    BY <1>1 DEF Consent
  <2>2. /\ consent' \in Seq(Consents) /\ Len(consent') = Len(consent) + 1
        /\ token' \in Seq({"none", "alive", "expired", "dead"}) /\ Len(token') = Len(token) + 1
    <3>1. [code |-> "fresh", granted |-> granted] \in Consents
      BY DEF Consents
    <3> QED BY <2>1, <3>1, AppendProperties DEF ConnectInv, ConnectTypes
  <2>3. ConnectTypes'
    BY <2>1, <2>2 DEF ConnectInv, ConnectTypes
  <2> QED BY <2>1, <2>2, <2>3, RowsAreLeft
<1>2. ASSUME NEW n \in DOMAIN consent, NEW how \in {"expired", "dead"}, TokenDies(n, how) PROVE ConnectInv'
  <2>1. token' = [token EXCEPT ![n] = how] /\ UNCHANGED <<platform, consent, acct, flow, pub, attempts, latest>>
    BY <1>2 DEF TokenDies
  <2>2. token' \in Seq({"none", "alive", "expired", "dead"}) /\ Len(token') = Len(token)
    <3>1. n \in 1..Len(token)
      BY ConnectLengths DEF ConnectInv
    <3> QED BY <2>1, <3>1, ExceptSeq DEF ConnectInv, ConnectTypes
  <2>3. ConnectTypes'
    BY <2>1, <2>2 DEF ConnectInv, ConnectTypes
  <2> QED BY <2>1, <2>2, <2>3, RowsAreLeft
<1> QED BY <1>1, <1>2

\* A callback or a disconnection goes on.
LEMMA FlowGoesOn ==
  ASSUME ConnectInv, ConnectTypes', UNCHANGED <<acct, latest, pub>>, NEW f \in Flows,
         Len(consent)' = Len(consent), Len(token)' = Len(token), NEW k, flow' = [flow EXCEPT ![f] = k],
         FlowStands(k, Len(consent), Len(acct))
  PROVE  ConnectInv'
<1>1. \A g \in Flows : flow'[g] = flow[g] \/ FlowStands(flow'[g], Len(consent)', Len(acct))
  BY DEF ConnectInv, ConnectTypes
<1> QED BY <1>1, RowsAreLeft, ConnectLengths DEF ConnectInv, RowsHoldLatest

LEMMA FlowsAdvance ==
  ASSUME ConnectInv, NEW f \in Flows,
         \/ \E n \in DOMAIN consent : Callback(f, n)
         \/ \E i \in DOMAIN acct : Disconnect(f, i)
         \/ ExchangeStep(f)
         \/ FlowFails(f)
         \/ FindAccount(f)
         \/ \E granted \in BOOLEAN : Revoke(f, granted)
         \/ FindDisconnected(f)
  PROVE  ConnectInv'
<1> DEFINE k == flow[f]
           n == Len(consent)
           m == Len(acct)
<1>1. /\ n \in Nat /\ m \in Nat /\ Len(token) = n /\ DOMAIN consent = 1..n /\ DOMAIN acct = 1..m
      /\ DOMAIN token = 1..n /\ \A i \in 1..m : acct[i] \in AccountRows /\ acct[i].token \in 1..n
      /\ ConnectTypes /\ FlowStands(k, n, m)
  BY ConnectLengths DEF ConnectInv, RowsHoldLatest
<1>2. ASSUME UNCHANGED <<consent, token, acct, pub, attempts, latest>>, NEW next, FlowStands(next, n, m),
             flow' = [flow EXCEPT ![f] = next]
      PROVE  ConnectInv'
  <2>1. ConnectTypes'
    BY <1>1, <1>2 DEF ConnectTypes
  <2> QED BY <1>2, <2>1, FlowGoesOn
<1>3. ASSUME NEW c \in DOMAIN consent, Callback(f, c) PROVE ConnectInv'
  <2> DEFINE next == [NoFlow EXCEPT !.at = "exchange", !.todo = Exchange, !.consent = c]
  <2>1. FlowStands(next, n, m)
    BY <1>1, NothingStands DEF FlowStands, FlowFields, NoFlow
  <2> QED BY <1>2, <1>3, <2>1 DEF Callback
<1>4. ASSUME NEW i \in DOMAIN acct, Disconnect(f, i) PROVE ConnectInv'
  <2> DEFINE next == [NoFlow EXCEPT !.at = "revoke", !.row = i, !.read = acct[i]]
  <2>1. FlowStands(next, n, m)
    BY <1>1, NothingStands DEF FlowStands, FlowFields, NoFlow
  <2> QED BY <1>2, <1>4, <2>1 DEF Disconnect
<1>5. ASSUME FlowFails(f) PROVE ConnectInv'
  BY <1>1, <1>2, <1>5, NothingStands DEF FlowFails
<1>6. ASSUME FindAccount(f) PROVE ConnectInv'
  <2>1. k.at = "find" /\ UNCHANGED <<consent, token, acct, pub, attempts, latest>>
    BY <1>6 DEF FindAccount
  <2>2. CASE flow' = [flow EXCEPT ![f].at = "save"]
    <3> DEFINE next == [k EXCEPT !.at = "save"]
    <3>1. FlowStands(next, n, m) /\ flow' = [flow EXCEPT ![f] = next]
      BY <1>1, <2>1, <2>2 DEF FlowStands, FlowFields, ConnectTypes
    <3> QED BY <1>2, <2>1, <3>1
  <2>3. ASSUME NEW i \in Active, flow' = [flow EXCEPT ![f].at = "save", ![f].row = i, ![f].read = acct[i]]
        PROVE  ConnectInv'
    <3> DEFINE next == [k EXCEPT !.at = "save", !.row = i, !.read = acct[i]]
    <3>1. i \in 1..m /\ acct[i] \in AccountRows
      BY <1>1 DEF Active
    <3>2. FlowStands(next, n, m)
      BY <1>1, <2>1, <3>1 DEF FlowStands, FlowFields
    <3>3. flow' = [flow EXCEPT ![f] = next]
      BY <1>1, <2>3 DEF FlowStands, FlowFields, ConnectTypes
    <3> QED BY <1>2, <2>1, <3>2, <3>3
  <2> QED BY <1>6, <2>2, <2>3 DEF FindAccount
<1>7. ASSUME FindDisconnected(f) PROVE ConnectInv'
  <2> DEFINE next == [k EXCEPT !.at = "delete", !.read = acct[k.row]]
  <2>1. /\ k.at = "reread" /\ UNCHANGED <<consent, token, acct, pub, attempts, latest>>
        /\ flow' = [flow EXCEPT ![f].at = "delete", ![f].read = acct[k.row]]
    BY <1>7 DEF FindDisconnected
  <2>2. k.row \in 1..m
    BY <1>1, <2>1 DEF FlowStands
  <2>3. FlowStands(next, n, m) /\ flow' = [flow EXCEPT ![f] = next]
    BY <1>1, <2>1, <2>2 DEF FlowStands, FlowFields, ConnectTypes
  <2> QED BY <1>2, <2>1, <2>3
<1>8. ASSUME NEW granted \in BOOLEAN, Revoke(f, granted) PROVE ConnectInv'
  <2> DEFINE next == [k EXCEPT !.at = "reread"]
             dies(c) == granted /\ token[c] = "alive"
                        /\ (platform = "FACEBOOK" \/ (platform = "TIKTOK" /\ c = k.read.token))
  <2>1. /\ k.at = "revoke" /\ UNCHANGED <<consent, acct, pub, attempts, latest>>
        /\ flow' = [flow EXCEPT ![f].at = "reread"]
        /\ token' = [c \in DOMAIN token |-> IF dies(c) THEN "dead" ELSE token[c]]
    BY <1>8 DEF Revoke
  <2> HIDE DEF dies
  <2>2. token' \in Seq({"none", "alive", "expired", "dead"}) /\ Len(token') = n
    <3>1. \A c \in 1..n : token[c] \in {"none", "alive", "expired", "dead"}
      BY <1>1, ElementOfSeq DEF ConnectTypes
    <3>2. token' \in [1..n -> {"none", "alive", "expired", "dead"}]
      BY <1>1, <2>1, <3>1
    <3> QED BY <1>1, <3>2
  <2>3. FlowStands(next, n, m) /\ flow' = [flow EXCEPT ![f] = next]
    BY <1>1, <2>1 DEF FlowStands, FlowFields, ConnectTypes
  <2>4. ConnectTypes'
    BY <1>1, <2>1, <2>2 DEF ConnectTypes
  <2> QED BY <1>1, <2>1, <2>2, <2>3, <2>4, FlowGoesOn
<1>9. ASSUME ExchangeStep(f) PROVE ConnectInv'
  <2> DEFINE next == [k EXCEPT !.todo = Tail(k.todo), !.at = IF Len(k.todo) = 1 THEN "find" ELSE k.at]
             step == Head(k.todo)
  <2>1. /\ k.at = "exchange" /\ UNCHANGED <<acct, pub, attempts, latest>>
        /\ consent' = IF step = "code" THEN [consent EXCEPT ![k.consent].code = "used"] ELSE consent
        /\ token' = IF step \in {"long", "code"} THEN [token EXCEPT ![k.consent] = "alive"] ELSE token
        /\ flow' = [flow EXCEPT ![f].todo = Tail(@), ![f].at = IF Len(k.todo) = 1 THEN "find" ELSE @]
    BY <1>9 DEF ExchangeStep
  <2>2. k.consent \in 1..n
    BY <1>1, <2>1 DEF FlowStands
  <2>3. token' \in Seq({"none", "alive", "expired", "dead"}) /\ Len(token') = n
    <3>1. CASE token' = token
      BY <1>1, <3>1 DEF ConnectTypes
    <3>2. CASE token' = [token EXCEPT ![k.consent] = "alive"]
      BY <1>1, <2>2, <3>2, ExceptSeq DEF ConnectTypes
    <3> QED BY <2>1, <3>1, <3>2
  <2>4. consent' \in Seq(Consents) /\ Len(consent') = n
    <3> DEFINE old == consent[k.consent]
               used == [old EXCEPT !.code = "used"]
    <3>1. consent \in Seq(Consents)
      BY <1>1 DEF ConnectTypes
    <3>2. old \in Consents
      BY <1>1, <2>2, <3>1, ElementOfSeq
    <3>3. used \in Consents
      BY <3>2 DEF Consents
    <3>4. CASE consent' = consent
      BY <3>1, <3>4
    <3>5. CASE consent' = [consent EXCEPT ![k.consent].code = "used"]
      <4>1. consent' = [consent EXCEPT ![k.consent] = used]
        BY <3>5
      <4> HIDE DEF used
      <4>2. \A i \in 1..n, e \in Consents : [consent EXCEPT ![i] = e] \in Seq(Consents) /\ Len([consent EXCEPT ![i] = e]) = n
        BY <3>1, ExceptSeq
      <4> QED BY <2>2, <3>3, <4>1, <4>2
    <3> QED BY <2>1, <3>4, <3>5
  <2>5. FlowStands(next, n, m) /\ flow' = [flow EXCEPT ![f] = next]
    BY <1>1, <2>1 DEF FlowStands, FlowFields, ConnectTypes
  <2>6. ConnectTypes'
    BY <1>1, <2>1, <2>3, <2>4 DEF ConnectTypes
  <2> HIDE DEF next
  <2> QED BY <1>1, <2>1, <2>3, <2>4, <2>5, <2>6, FlowGoesOn
<1> QED BY <1>3, <1>4, <1>5, <1>6, <1>7, <1>8, <1>9

\* A row is inserted or saved, and what the rest refers to is there still.
LEMMA RowsAreSaved ==
  ASSUME ConnectInv, UNCHANGED <<consent, token, attempts>>,
         acct' \in Seq(AccountRows), latest' \in Seq(Nat), DOMAIN flow' = Flows, DOMAIN pub' = Publishers,
         Len(acct)' >= Len(acct), RowsHoldLatest',
         \A f \in Flows : flow'[f] = flow[f] \/ FlowStands(flow'[f], Len(consent), Len(acct)'),
         \A p \in Publishers : pub'[p] = pub[p] \/ PostStands(pub'[p], Len(consent), Len(acct)')
  PROVE  ConnectInv'
<1>1. /\ Len(consent) \in Nat /\ Len(consent)' = Len(consent) /\ Len(acct) \in Nat /\ Len(acct)' \in Nat
      /\ Len(consent) <= Len(consent) /\ Len(acct) <= Len(acct)'
  BY ConnectLengths, LenProperties DEF ConnectInv
<1>2. ConnectTypes'
  BY DEF ConnectInv, ConnectTypes
<1>3. ASSUME NEW f \in Flows PROVE FlowStands(flow'[f], Len(consent), Len(acct)')
  <2>1. FlowStands(flow[f], Len(consent), Len(acct))
    BY DEF ConnectInv
  <2>2. FlowStands(flow[f], Len(consent), Len(acct)')
    BY <1>1, <2>1, FlowLaterStands
  <2> QED BY <2>2
<1>4. ASSUME NEW p \in Publishers PROVE PostStands(pub'[p], Len(consent), Len(acct)')
  <2>1. PostStands(pub[p], Len(consent), Len(acct))
    BY DEF ConnectInv
  <2>2. PostStands(pub[p], Len(consent), Len(acct)')
    BY <1>1, <2>1, PostLaterStands
  <2> QED BY <2>2
<1> QED BY <1>1, <1>2, <1>3, <1>4 DEF ConnectInv

\* One of the rows is written over: the token of a row that is connected is the latest.
LEMMA RowIsWrittenOver ==
  ASSUME ConnectTypes, RowsHoldLatest, NEW i \in 1..Len(acct), NEW after \in AccountRows, UNCHANGED <<consent, token>>,
         acct' = [acct EXCEPT ![i] = after], after.token \in 1..Len(token), after.status # "none",
         \/ latest' = latest /\ after.status # "CONNECTED"
         \/ latest' = [latest EXCEPT ![i] = after.token]
  PROVE  acct' \in Seq(AccountRows) /\ latest' \in Seq(Nat) /\ Len(acct') = Len(acct) /\ RowsHoldLatest'
<1>1. /\ acct' \in Seq(AccountRows) /\ Len(acct') = Len(acct)
      /\ \A j \in 1..Len(acct) : acct'[j] = IF j = i THEN after ELSE acct[j]
  BY ExceptSeq DEF ConnectTypes
<1>2. after.token \in Nat /\ i \in 1..Len(latest)
  BY DEF AccountRows, RowsHoldLatest
<1>3. /\ latest' \in Seq(Nat) /\ Len(latest') = Len(latest)
      /\ \A j \in 1..Len(acct) : j # i => latest'[j] = latest[j]
      /\ latest'[i] = after.token \/ after.status # "CONNECTED"
  <2>1. CASE latest' = latest /\ after.status # "CONNECTED"
    BY <2>1 DEF ConnectTypes
  <2>2. CASE latest' = [latest EXCEPT ![i] = after.token]
    BY <1>2, <2>2, ExceptSeq DEF ConnectTypes, RowsHoldLatest
  <2> QED BY <2>1, <2>2
<1> QED BY <1>1, <1>3 DEF RowsHoldLatest

LEMMA AccountIsSaved ==
  ASSUME ConnectInv, NEW f \in Flows, SaveAccount(f), NEW k, k = flow[f]
  PROVE  ConnectInv'
<1> DEFINE after == Connected(k.read, k.consent)
           n == Len(consent)
           m == Len(acct)
<1>1. /\ n \in Nat /\ m \in Nat /\ Len(token) = n
      /\ ConnectTypes /\ RowsHoldLatest /\ FlowStands(k, n, m)
  BY ConnectLengths DEF ConnectInv, RowsHoldLatest
<1>2. /\ k.at = "save" /\ UNCHANGED <<platform, consent, token, pub, attempts>>
      /\ flow' = [flow EXCEPT ![f] = NoFlow]
      /\ IF Refused(k.row, after) THEN UNCHANGED <<acct, latest>>
         ELSE IF k.row = 0 THEN acct' = Append(acct, after) /\ latest' = Append(latest, k.consent)
         ELSE acct' = [acct EXCEPT ![k.row] = after] /\ latest' = [latest EXCEPT ![k.row] = k.consent]
  BY DEF SaveAccount
<1>3. k.consent \in 1..n /\ k.row \in 0..m /\ k.consent \in Nat
  BY <1>1, <1>2 DEF FlowStands
<1>4. after \in AccountRows /\ after.token = k.consent /\ after.status = "CONNECTED"
  BY <1>1, <1>3 DEF FlowStands, Connected, AccountRows
<1> HIDE DEF after
<1>5. /\ DOMAIN flow' = Flows /\ DOMAIN pub' = Publishers
      /\ \A g \in Flows : flow'[g] = flow[g] \/ \A l \in Nat : FlowStands(flow'[g], n, l)
  BY <1>1, <1>2, NothingStands DEF ConnectTypes
<1>6. acct' \in Seq(AccountRows) /\ latest' \in Seq(Nat) /\ Len(acct') >= m /\ Len(acct') \in Nat /\ RowsHoldLatest'
  <2>1. CASE UNCHANGED <<acct, latest>>
    BY <1>1, <1>2, <2>1 DEF ConnectTypes, RowsHoldLatest
  <2>2. CASE k.row = 0 /\ acct' = Append(acct, after) /\ latest' = Append(latest, k.consent)
    <3>1. /\ acct' \in Seq(AccountRows) /\ Len(acct') = m + 1 /\ acct'[m + 1] = after
          /\ \A j \in 1..m : acct'[j] = acct[j]
      BY <1>1, <1>4, <2>2, AppendProperties DEF ConnectTypes
    <3>2. /\ latest' \in Seq(Nat) /\ Len(latest') = m + 1 /\ latest'[m + 1] = k.consent
          /\ \A j \in 1..m : latest'[j] = latest[j]
      BY <1>1, <1>3, <2>2, AppendProperties DEF ConnectTypes, RowsHoldLatest
    <3>3. ASSUME NEW j \in 1..Len(acct')
          PROVE  /\ acct'[j].token \in 1..Len(token) /\ acct'[j].status # "none"
                 /\ acct'[j].status = "CONNECTED" => acct'[j].token = latest'[j]
      <4>1. CASE j = m + 1
        BY <1>1, <1>3, <1>4, <3>1, <3>2, <4>1
      <4>2. CASE j \in 1..m
        BY <1>1, <3>1, <3>2, <4>2 DEF RowsHoldLatest
      <4> QED BY <1>1, <3>1, <4>1, <4>2
    <3>4. Len(token') = Len(token) /\ Len(consent') = Len(consent)
      BY <1>2
    <3> QED BY <1>1, <3>1, <3>2, <3>3, <3>4 DEF RowsHoldLatest
  <2>3. CASE k.row # 0 /\ acct' = [acct EXCEPT ![k.row] = after] /\ latest' = [latest EXCEPT ![k.row] = k.consent]
    <3>1. k.row \in 1..m
      BY <1>3, <2>3
    <3>2. after.token \in 1..Len(token) /\ after.status # "none" /\ latest' = [latest EXCEPT ![k.row] = after.token]
      BY <1>1, <1>3, <1>4, <2>3
    <3>3. UNCHANGED <<consent, token>>
      BY <1>2
    <3>4. acct' \in Seq(AccountRows) /\ latest' \in Seq(Nat) /\ Len(acct') = m /\ RowsHoldLatest'
      BY <1>1, <1>4, <2>3, <3>1, <3>2, <3>3, RowIsWrittenOver
    <3> QED BY <1>1, <3>4
  <2> QED BY <1>2, <2>1, <2>2, <2>3
<1> QED BY <1>2, <1>5, <1>6, RowsAreSaved

LEMMA AccountIsDeleted ==
  ASSUME ConnectInv, NEW f \in Flows, SoftDelete(f), NEW k, k = flow[f]
  PROVE  ConnectInv'
<1> DEFINE after == [k.read EXCEPT !.status = "DISCONNECTED", !.deleted = TRUE]
           n == Len(consent)
           m == Len(acct)
<1>1. /\ n \in Nat /\ m \in Nat /\ Len(token) = n
      /\ ConnectTypes /\ RowsHoldLatest /\ FlowStands(k, n, m)
  BY ConnectLengths DEF ConnectInv, RowsHoldLatest
<1>2. /\ k.at = "delete" /\ UNCHANGED <<platform, consent, token, pub, attempts, latest>>
      /\ flow' = [flow EXCEPT ![f] = NoFlow] /\ acct' = [acct EXCEPT ![k.row] = after]
  BY DEF SoftDelete, ConnectInv
<1>3. k.row \in 1..m
  BY <1>1, <1>2 DEF FlowStands
<1>4. after \in AccountRows /\ after.token \in 1..n /\ after.status = "DISCONNECTED"
  BY <1>1, <1>2 DEF FlowStands, AccountRows
<1> HIDE DEF after
<1>5. /\ DOMAIN flow' = Flows /\ DOMAIN pub' = Publishers
      /\ \A g \in Flows : flow'[g] = flow[g] \/ \A l \in Nat : FlowStands(flow'[g], n, l)
  BY <1>1, <1>2, NothingStands DEF ConnectTypes
<1>6. acct' \in Seq(AccountRows) /\ latest' \in Seq(Nat) /\ Len(acct') = m /\ RowsHoldLatest'
  BY <1>1, <1>2, <1>3, <1>4, RowIsWrittenOver
<1> QED BY <1>1, <1>2, <1>5, <1>6, RowsAreSaved

\* A worker goes on with a post.
LEMMA PostGoesOn ==
  ASSUME ConnectInv, UNCHANGED <<consent, token, acct, flow, latest>>, NEW p \in Publishers,
         attempts' \in Nat, attempts' <= MaxAttempts,
         NEW next, pub' = [pub EXCEPT ![p] = next], PostStands(next, Len(consent), Len(acct))
  PROVE  ConnectInv'
<1>1. ConnectTypes'
  BY DEF ConnectInv, ConnectTypes
<1>2. \A q \in Publishers : pub'[q] = pub[q] \/ PostStands(pub'[q], Len(consent)', Len(acct))
  BY DEF ConnectInv, ConnectTypes
<1>3. Len(token)' = Len(consent)' /\ Len(consent)' >= Len(consent)
  BY ConnectLengths DEF ConnectInv, RowsHoldLatest
<1> QED BY <1>1, <1>2, <1>3, RowsAreLeft

LEMMA PostEnds ==
  ASSUME NEW p \in Publishers, NEW at, NEW online, NEW unanswered, Ended(p, at, online, unanswered),
         NEW n \in Nat, NEW m \in Nat, NEW k, k = pub[p], PostStands(k, n, m),
         at \in {"online", "failed", "expire"}, at = "expire" => k.row # 0
  PROVE  \E next : pub' = [pub EXCEPT ![p] = next] /\ PostStands(next, n, m)
<1> DEFINE next == [NoPost EXCEPT !.at = at, !.online = online, !.unanswered = unanswered,
                                  !.row = IF at = "expire" THEN k.row ELSE 0]
<1>1. pub' = [pub EXCEPT ![p] = next]
  BY DEF Ended
<1>2. PostStands(next, n, m)
  <2>1. DOMAIN NoPost = PostFields
    BY DEF NoPost, PostFields
  <2>2. DOMAIN next = PostFields /\ next.at = at /\ next.row = IF at = "expire" THEN k.row ELSE 0
    BY <2>1 DEF PostFields
  <2> HIDE DEF next
  <2> QED BY <2>2 DEF PostStands
<1> QED BY <1>1, <1>2

LEMMA PostsAdvance ==
  ASSUME ConnectInv, NEW p \in Publishers,
         \/ \E i \in DOMAIN acct, media \in Media : Resolve(p, i, media)
         \/ CallAnswered(p)
         \/ \E aboutToken \in BOOLEAN : CallFails(p, aboutToken)
         \/ \E unparsable \in BOOLEAN : CallUnanswered(p, unparsable)
         \/ FindExpired(p)
  PROVE  ConnectInv'
<1> DEFINE k == pub[p]
           n == Len(consent)
           m == Len(acct)
<1>1. /\ n \in Nat /\ m \in Nat /\ DOMAIN acct = 1..m
      /\ \A i \in 1..m : acct[i] \in AccountRows /\ acct[i].token \in 1..n
      /\ ConnectTypes /\ PostStands(k, n, m)
      /\ attempts \in Nat /\ attempts <= MaxAttempts
  BY ConnectLengths DEF ConnectInv, RowsHoldLatest, ConnectTypes
<1>2. ASSUME UNCHANGED <<consent, token, acct, flow, attempts, latest>>,
             NEW next, pub' = [pub EXCEPT ![p] = next], PostStands(next, n, m)
      PROVE  ConnectInv'
  BY <1>1, <1>2, PostGoesOn
<1>3. ASSUME UNCHANGED <<consent, token, acct, flow, attempts, latest>>, NEW at, NEW online, NEW unanswered,
             Ended(p, at, online, unanswered), at \in {"online", "failed", "expire"}, at = "expire" => k.row # 0
      PROVE  ConnectInv'
  BY <1>1, <1>2, <1>3, PostEnds
<1>4. ASSUME NEW i \in DOMAIN acct, NEW media \in Media, Resolve(p, i, media) PROVE ConnectInv'
  <2>1. /\ UNCHANGED <<consent, token, acct, flow, latest>> /\ attempts' = attempts + 1 /\ attempts < MaxAttempts
        /\ \/ pub' = [pub EXCEPT ![p] = [NoPost EXCEPT !.at = "failed"]]
           \/ pub' = [pub EXCEPT ![p] = [NoPost EXCEPT !.at = "expire", !.row = i]]
           \/ pub' = [pub EXCEPT ![p] = [NoPost EXCEPT !.at = "calls", !.todo = Uploads(media),
                                                       !.token = acct[i].token, !.row = i]]
    BY <1>4 DEF Resolve
  <2>2. DOMAIN NoPost = PostFields /\ NoPost.row = 0 /\ NoPost.at = "idle"
    BY DEF NoPost, PostFields
  <2>3. attempts' \in Nat /\ attempts' <= MaxAttempts
    BY <1>1, <2>1, SocialAccountsAssumption
  <2>4. CASE pub' = [pub EXCEPT ![p] = [NoPost EXCEPT !.at = "failed"]]
    <3>1. PostStands([NoPost EXCEPT !.at = "failed"], n, m)
      BY <1>1, <2>2 DEF PostStands, PostFields
    <3> QED BY <2>1, <2>3, <2>4, <3>1, PostGoesOn
  <2>5. CASE pub' = [pub EXCEPT ![p] = [NoPost EXCEPT !.at = "expire", !.row = i]]
    <3>1. PostStands([NoPost EXCEPT !.at = "expire", !.row = i], n, m)
      BY <1>1, <2>2 DEF PostStands, PostFields
    <3> QED BY <2>1, <2>3, <2>5, <3>1, PostGoesOn
  <2>6. CASE pub' = [pub EXCEPT ![p] = [NoPost EXCEPT !.at = "calls", !.todo = Uploads(media),
                                                      !.token = acct[i].token, !.row = i]]
    <3> DEFINE next == [NoPost EXCEPT !.at = "calls", !.todo = Uploads(media), !.token = acct[i].token, !.row = i]
    <3>1. PostStands(next, n, m)
      BY <1>1, <2>2 DEF PostStands, PostFields
    <3>2. pub' = [pub EXCEPT ![p] = next]
      BY <2>6
    <3> HIDE DEF next
    <3> QED BY <2>1, <2>3, <3>1, <3>2, PostGoesOn
  <2> QED BY <2>1, <2>4, <2>5, <2>6
<1>5. ASSUME CallAnswered(p) PROVE ConnectInv'
  <2> DEFINE online == k.online + (IF Head(k.todo) \in Shows THEN 1 ELSE 0)
  <2>1. /\ k.at = "calls" /\ UNCHANGED <<consent, token, acct, flow, attempts, latest>>
        /\ \/ Ended(p, "online", online, k.unanswered)
           \/ pub' = [pub EXCEPT ![p].todo = Tail(k.todo), ![p].online = online]
    BY <1>5 DEF CallAnswered
  <2>2. CASE Ended(p, "online", online, k.unanswered)
    BY <1>3, <2>1, <2>2
  <2>3. CASE pub' = [pub EXCEPT ![p].todo = Tail(k.todo), ![p].online = online]
    <3> DEFINE next == [k EXCEPT !.todo = Tail(k.todo), !.online = online]
    <3>1. PostStands(next, n, m)
      BY <1>1, <2>1 DEF PostStands, PostFields
    <3>2. pub' = [pub EXCEPT ![p] = next]
      BY <1>1, <2>3 DEF PostStands, PostFields, ConnectTypes
    <3> QED BY <1>2, <2>1, <3>1, <3>2
  <2> QED BY <2>1, <2>2, <2>3
<1>6. ASSUME NEW aboutToken \in BOOLEAN, CallFails(p, aboutToken) PROVE ConnectInv'
  <2> DEFINE at == IF Head(k.todo) = "permalink" THEN "online" ELSE IF aboutToken THEN "expire" ELSE "failed"
  <2>1. /\ k.at = "calls" /\ UNCHANGED <<consent, token, acct, flow, attempts, latest>>
        /\ Ended(p, at, k.online, k.unanswered)
    BY <1>6 DEF CallFails
  <2>2. k.row # 0 /\ at \in {"online", "failed", "expire"}
    BY <1>1, <2>1 DEF PostStands
  <2> QED BY <1>3, <2>1, <2>2
<1>7. ASSUME NEW unparsable \in BOOLEAN, CallUnanswered(p, unparsable) PROVE ConnectInv'
  <2>1. /\ Ended(p, IF unparsable THEN "expire" ELSE "failed", k.online + 1, TRUE) /\ k.at = "calls"
        /\ UNCHANGED <<consent, token, acct, flow, attempts, latest>>
    BY <1>7 DEF CallUnanswered
  <2>2. k.row # 0
    BY <1>1, <2>1 DEF PostStands
  <2> QED BY <1>3, <2>1, <2>2
<1>8. ASSUME FindExpired(p) PROVE ConnectInv'
  <2> DEFINE next == [k EXCEPT !.at = "expiring", !.read = acct[k.row]]
  <2>1. /\ k.at = "expire" /\ UNCHANGED <<consent, token, acct, flow, attempts, latest>>
        /\ pub' = [pub EXCEPT ![p].at = "expiring", ![p].read = acct[k.row]]
    BY <1>8 DEF FindExpired
  <2>2. k.row \in 1..m
    BY <1>1, <2>1 DEF PostStands
  <2>3. PostStands(next, n, m)
    BY <1>1, <2>1, <2>2 DEF PostStands, PostFields
  <2>4. pub' = [pub EXCEPT ![p] = next]
    BY <1>1, <2>1 DEF PostStands, PostFields, ConnectTypes
  <2> QED BY <1>2, <2>1, <2>3, <2>4
<1> QED BY <1>4, <1>5, <1>6, <1>7, <1>8

LEMMA ExpiryIsSaved ==
  ASSUME ConnectInv, NEW p \in Publishers, SaveExpired(p), NEW k, k = pub[p]
  PROVE  ConnectInv'
<1> DEFINE after == [k.read EXCEPT !.status = "EXPIRED"]
           n == Len(consent)
           m == Len(acct)
<1>1. /\ n \in Nat /\ m \in Nat /\ Len(token) = n
      /\ ConnectTypes /\ RowsHoldLatest /\ PostStands(k, n, m)
  BY ConnectLengths DEF ConnectInv, RowsHoldLatest
<1>2. /\ k.at = "expiring" /\ UNCHANGED <<platform, consent, token, flow, attempts, latest>>
      /\ acct' = acct \/ acct' = [acct EXCEPT ![k.row] = after]
      /\ Ended(p, "failed", k.online, k.unanswered)
  BY DEF SaveExpired
<1>3. k.row \in 1..m
  BY <1>1, <1>2 DEF PostStands
<1>4. after \in AccountRows /\ after.token \in 1..n /\ after.status = "EXPIRED"
  BY <1>1, <1>2 DEF PostStands, AccountRows
<1> HIDE DEF after
<1>5. PICK next : pub' = [pub EXCEPT ![p] = next] /\ PostStands(next, n, m)
  BY <1>1, <1>2, PostEnds
<1>6. acct' \in Seq(AccountRows) /\ latest' \in Seq(Nat) /\ Len(acct') = m /\ RowsHoldLatest'
  <2>1. CASE acct' = acct
    BY <1>1, <1>2, <2>1 DEF ConnectTypes, RowsHoldLatest
  <2>2. CASE acct' = [acct EXCEPT ![k.row] = after]
    BY <1>1, <1>2, <1>3, <1>4, <2>2, RowIsWrittenOver
  <2> QED BY <1>2, <2>1, <2>2
<1>7. /\ DOMAIN flow' = Flows /\ DOMAIN pub' = Publishers
      /\ \A q \in Publishers : pub'[q] = pub[q] \/ PostStands(pub'[q], n, Len(acct)')
  BY <1>1, <1>2, <1>5, <1>6 DEF ConnectTypes
<1> QED BY <1>1, <1>2, <1>6, <1>7, RowsAreSaved

\* and every step keeps it.
LEMMA ConnectInvNext == ConnectInv /\ [ConnectNext]_connectVars => ConnectInv'
<1> SUFFICES ASSUME ConnectInv, [ConnectNext]_connectVars PROVE ConnectInv'
  OBVIOUS
<1>1. CASE UNCHANGED connectVars
  BY <1>1 DEF connectVars, ConnectInv, ConnectTypes, RowsHoldLatest
<1>2. ASSUME NEW f \in Flows,
             \/ \E n \in DOMAIN consent : Callback(f, n)
             \/ \E i \in DOMAIN acct : Disconnect(f, i)
             \/ \E granted \in BOOLEAN : Revoke(f, granted)
             \/ ExchangeStep(f) \/ FlowFails(f) \/ FindAccount(f) \/ SaveAccount(f)
             \/ FindDisconnected(f) \/ SoftDelete(f)
      PROVE  ConnectInv'
  BY <1>2, FlowsAdvance, AccountIsSaved, AccountIsDeleted
<1>3. ASSUME NEW p \in Publishers,
             \/ \E i \in DOMAIN acct, media \in Media : Resolve(p, i, media)
             \/ CallAnswered(p) \/ \E aboutToken \in BOOLEAN : CallFails(p, aboutToken)
             \/ \E unparsable \in BOOLEAN : CallUnanswered(p, unparsable)
             \/ FindExpired(p) \/ SaveExpired(p)
      PROVE  ConnectInv'
  BY <1>3, PostsAdvance, ExpiryIsSaved
<1> QED BY <1>1, <1>2, <1>3, ConsentsAndTokens DEF ConnectNext

\* (ConnectTypeOK) Whatever callbacks, disconnections and posts overlap, every row has
\* the token of a consent and one of the three statuses.
THEOREM ConnectingInOrder == ConnectSpec => []ConnectTypeOK
<1>1. ConnectInv => ConnectTypeOK
  BY ConnectLengths, LenProperties DEF ConnectInv, ConnectTypes, RowsHoldLatest, ConnectTypeOK, AccountRows
<1> QED BY <1>1, ConnectInvInit, ConnectInvNext, PTL DEF ConnectSpec

\* (ConnectedHasLatestToken) A callback, a disconnection and a post that finds the token
\* expired read the row and save it whole, each at its own time: one that is shown as
\* connected has the token that was saved last (social-accounts.service.ts).
THEOREM ConnectedAccountsWork == ConnectSpec => []ConnectedHasLatestToken
<1>1. ConnectInv => ConnectedHasLatestToken
  BY ConnectLengths DEF ConnectInv, RowsHoldLatest, ConnectedHasLatestToken
<1> QED BY <1>1, ConnectInvInit, ConnectInvNext, PTL DEF ConnectSpec

(* Carts *)

Priceable == {0} \cup UNION {Prices[x] : x \in Items}
Lines == [item : Items, live : BOOLEAN, unitPrice : Priceable]
CartCallFields == {"at", "row", "line", "since"}
CartTypes ==
  /\ price \in [Items -> Priceable] /\ (\A x \in Items : price[x] \in Prices[x]) /\ gone \subseteq Items
  /\ line \in Seq(Lines) /\ listed \in Seq(SUBSET Priceable) /\ Len(listed) = Len(line)
  /\ edits \in Nat /\ edits <= MaxEdits /\ DOMAIN kcall = CartCalls
\* What a request does: of m rows, the prices p of a catalogue without g are listed.
RequestStands(k, m, p, g) ==
  /\ DOMAIN k = CartCallFields /\ k.at \in Reading \cup {"idle", "save"}
  /\ k.row \in 0..m /\ k.line \in Lines /\ k.since \subseteq Priceable
  /\ k.at \in Reading => Due(k, p, g) \in k.since
  /\ k.at = "variant" => k.line.item = "variant"
  /\ k.at = "save" /\ k.since # {} => k.line.unitPrice \in k.since
  /\ k.at = "save" /\ k.since = {} => k.row # 0
\* A request and the row it is to save: the item is the same, and a line whose price
\* is kept has it from the addition that is recorded.
RowIsKept(k, i, l, prices) ==
  k.at # "idle" /\ k.row = i =>
    /\ l.live => k.line.item = l.item
    /\ k.at = "save" /\ k.since = {} /\ i \notin overtaken => k.line.unitPrice \in prices
CartsInv ==
  /\ CartTypes /\ LinesArePriced
  /\ \A c \in CartCalls :
       /\ RequestStands(kcall[c], Len(line), price, gone)
       /\ \A i \in 1..Len(line) : RowIsKept(kcall[c], i, line[i], listed[i])
       /\ \A d \in CartCalls :
            kcall[c].at # "idle" /\ kcall[d].at # "idle" /\ kcall[c].row = kcall[d].row /\ kcall[c].row # 0 =>
              kcall[c].line.item = kcall[d].line.item

\* What a request keeps and what it changes when it proceeds.
LEMMA Proceeds ==
  ASSUME NEW c \in CartCalls, NEW at, NEW fields, Proceed(c, at, fields), NEW k, k = kcall[c],
         DOMAIN k = CartCallFields, "at" \notin DOMAIN fields
  PROVE  \E next : /\ kcall' = [kcall EXCEPT ![c] = next] /\ DOMAIN next = CartCallFields /\ next.at = at
                   /\ next.row = IF "row" \in DOMAIN fields THEN fields.row ELSE k.row
                   /\ next.line = IF "line" \in DOMAIN fields THEN fields.line ELSE k.line
                   /\ next.since = IF "since" \in DOMAIN fields THEN fields.since ELSE k.since
<1> DEFINE next == [f \in DOMAIN k |-> IF f = "at" THEN at ELSE IF f \in DOMAIN fields THEN fields[f] ELSE k[f]]
<1>1. kcall' = [kcall EXCEPT ![c] = next]
  BY DEF Proceed
<1>2. /\ DOMAIN next = CartCallFields /\ next.at = at
      /\ next.row = IF "row" \in DOMAIN fields THEN fields.row ELSE k.row
      /\ next.line = IF "line" \in DOMAIN fields THEN fields.line ELSE k.line
      /\ next.since = IF "since" \in DOMAIN fields THEN fields.since ELSE k.since
  BY DEF CartCallFields
<1> QED BY <1>1, <1>2

LEMMA CartFacts ==
  ASSUME CartsInv
  PROVE  /\ Len(line) \in Nat /\ DOMAIN line = 1..Len(line) /\ Len(listed) = Len(line)
         /\ \A i \in 1..Len(line) : line[i] \in Lines /\ listed[i] \subseteq Priceable
<1>1. /\ line \in Seq(Lines) /\ listed \in Seq(SUBSET Priceable) /\ Len(listed) = Len(line)
  BY DEF CartsInv, CartTypes
<1>2. /\ Len(line) \in Nat /\ DOMAIN line = 1..Len(line) /\ \A i \in 1..Len(line) : line[i] \in Lines
  BY <1>1, LenProperties, ElementOfSeq
<1>3. \A i \in 1..Len(listed) : listed[i] \in SUBSET Priceable
  BY <1>1, ElementOfSeq
<1> QED BY <1>1, <1>2, <1>3

\* What an item costs is a price of the catalogue.
LEMMA PricesAreListed ==
  ASSUME NEW p \in [Items -> Priceable], NEW g
  PROVE  ProductPrice(p, g) \in Priceable /\ \A x \in Items : ListedPrice(x, p, g) \in Priceable
<1>1. 0 \in Priceable /\ p["product"] \in Priceable /\ \A x \in Items : p[x] \in Priceable
  BY DEF Priceable, Items
<1> QED BY <1>1 DEF ProductPrice, ListedPrice

LEMMA NoRequestStands ==
  ASSUME NEW m \in Nat, NEW p, NEW g
  PROVE  /\ NoLine \in Lines /\ RequestStands(NoCartCall, m, p, g)
         /\ NoCartCall.at = "idle" /\ NoCartCall.row = 0 /\ DOMAIN NoCartCall = CartCallFields /\ NoLine.live = FALSE
<1>1. NoLine \in Lines /\ NoLine.live = FALSE
  BY DEF NoLine, Lines, Items, Priceable
<1>2. /\ DOMAIN NoCartCall = CartCallFields /\ NoCartCall.at = "idle" /\ NoCartCall.row = 0
      /\ NoCartCall.line = NoLine /\ NoCartCall.since = {}
  BY DEF NoCartCall, CartCallFields
<1> QED BY <1>1, <1>2 DEF RequestStands, Reading, Items

\* The invariant of carts: it holds at first,
LEMMA CartsInvInit == CartsInit => CartsInv
<1> SUFFICES ASSUME CartsInit PROVE CartsInv
  OBVIOUS
<1>1. line = << >> /\ listed = << >> /\ Len(line) = 0 /\ Len(listed) = 0 /\ DOMAIN line = {}
  BY EmptySeq DEF CartsInit
<1>2. CartTypes
  BY <1>1, EmptySeq, CartsAssumption DEF CartsInit, CartTypes, Priceable
<1>3. LinesArePriced
  BY <1>1 DEF LinesArePriced, Live
<1>4. \A c \in CartCalls : kcall[c] = NoCartCall
  BY DEF CartsInit
<1>5. \A c \in CartCalls : RequestStands(kcall[c], 0, price, gone) /\ kcall[c].at = "idle"
  BY <1>4, NoRequestStands
<1> QED BY <1>1, <1>2, <1>3, <1>5 DEF CartsInv, RowIsKept

\* A step of one request that leaves the rows and the catalogue alone.
LEMMA RequestGoesOn ==
  ASSUME CartsInv, UNCHANGED <<price, gone, line, listed, overtaken>>, edits' \in Nat, edits' <= MaxEdits,
         NEW c \in CartCalls, NEW k, kcall' = [kcall EXCEPT ![c] = k],
         RequestStands(k, Len(line), price, gone),
         \A i \in 1..Len(line) : RowIsKept(k, i, line[i], listed[i]),
         \/ k.at = "idle" \/ k.row = 0
         \/ line[k.row].live
         \/ kcall[c].at # "idle" /\ kcall[c].row = k.row /\ kcall[c].line.item = k.line.item
  PROVE  CartsInv'
<1>1. CartTypes' /\ LinesArePriced'
  BY DEF CartsInv, CartTypes, LinesArePriced, Live
<1>2. \A d \in CartCalls : kcall'[d] = IF d = c THEN k ELSE kcall[d]
  BY DEF CartsInv, CartTypes
<1>3. \A d \in CartCalls : /\ RequestStands(kcall'[d], Len(line), price, gone)
                           /\ \A i \in 1..Len(line) : RowIsKept(kcall'[d], i, line[i], listed[i])
  BY <1>2 DEF CartsInv
<1>4. ASSUME NEW d \in CartCalls, d # c, k.at # "idle", kcall[d].at # "idle", k.row = kcall[d].row, k.row # 0
      PROVE  k.line.item = kcall[d].line.item
  <2>1. k.row \in 1..Len(line)
    BY <1>4, CartFacts DEF RequestStands
  <2>2. CASE line[k.row].live
    BY <1>4, <2>1, <2>2 DEF CartsInv, RowIsKept
  <2>3. CASE kcall[c].at # "idle" /\ kcall[c].row = k.row /\ kcall[c].line.item = k.line.item
    BY <1>4, <2>3 DEF CartsInv
  <2> QED BY <1>4, <2>2, <2>3
<1>5. ASSUME NEW d \in CartCalls, NEW e \in CartCalls, kcall'[d].at # "idle", kcall'[e].at # "idle",
             kcall'[d].row = kcall'[e].row, kcall'[d].row # 0
      PROVE  kcall'[d].line.item = kcall'[e].line.item
  BY <1>2, <1>4, <1>5 DEF CartsInv
<1>6. \A d \in CartCalls : \A i \in 1..Len(line) : RowIsKept(kcall[d], i, line[i], listed[i])'
  BY <1>3 DEF RowIsKept
<1>7. \A d \in CartCalls : RequestStands(kcall[d], Len(line), price, gone)'
  BY <1>3 DEF RequestStands
<1> QED BY <1>1, <1>5, <1>6, <1>7 DEF CartsInv

LEMMA RequestsBegin ==
  ASSUME CartsInv, NEW c \in CartCalls,
         \/ \E x \in Items : AddItem(c, x)
         \/ \E i \in DOMAIN line : UpdateQuantity(c, i)
  PROVE  CartsInv'
<1> DEFINE m == Len(line)
<1>1. /\ m \in Nat /\ DOMAIN line = 1..m /\ \A i \in 1..m : line[i] \in Lines /\ listed[i] \subseteq Priceable
      /\ RequestStands(kcall[c], m, price, gone) /\ LinesArePriced /\ CartTypes
  BY CartFacts DEF CartsInv
<1>2. DOMAIN kcall[c] = CartCallFields
  BY <1>1 DEF RequestStands
<1>3. edits < MaxEdits => edits + 1 \in Nat /\ edits + 1 <= MaxEdits
  BY <1>1, CartsAssumption DEF CartTypes
<1>4. ASSUME NEW x \in Items, AddItem(c, x) PROVE CartsInv'
  <2> DEFINE found == {i \in Live : line[i].item = x}
             at == IF hasCart THEN x ELSE "cart"
             fields(i) == [row |-> i, since |-> {ListedPrice(x, price, gone)},
                           line |-> IF i = 0 THEN [NoLine EXCEPT !.item = x] ELSE line[i]]
  <2>1. PICK i \in {0} \cup found : Proceed(c, at, fields(i))
    BY <1>4 DEF AddItem
  <2>2. /\ UNCHANGED <<price, gone, line, listed, overtaken>> /\ edits' = edits + 1 /\ edits < MaxEdits
    BY <1>4 DEF AddItem
  <2>3. PICK k : /\ kcall' = [kcall EXCEPT ![c] = k] /\ DOMAIN k = CartCallFields /\ k.at = at
                 /\ k.row = i /\ k.since = {ListedPrice(x, price, gone)}
                 /\ k.line = IF i = 0 THEN [NoLine EXCEPT !.item = x] ELSE line[i]
    BY <1>2, <2>1, Proceeds
  <2>4. i = 0 \/ (i \in 1..m /\ line[i].live)
    BY <1>1 DEF Live
  <2>5. k.line \in Lines /\ k.line.item = x
    BY <1>1, <2>3, <2>4, NoRequestStands DEF Lines, Live
  <2>6. k.at \in Reading /\ (k.at = "product" => x = "product") /\ (k.at = "variant" => x = "variant")
    BY <2>3 DEF Reading, Items
  <2>7. ListedPrice(x, price, gone) \in Priceable
    BY <1>1, PricesAreListed DEF CartTypes
  <2>10. Due(k, price, gone) = ListedPrice(x, price, gone)
    <3>1. x = "product" => ListedPrice(x, price, gone) = ProductPrice(price, gone)
      BY <1>1, CartsAssumption DEF ListedPrice, ProductPrice, CartTypes, Items
    <3> QED BY <2>5, <2>6, <3>1 DEF Due
  <2>8. RequestStands(k, m, price, gone)
    BY <1>1, <2>3, <2>4, <2>5, <2>6, <2>7, <2>10 DEF RequestStands, Reading
  <2>9. \A j \in 1..m : RowIsKept(k, j, line[j], listed[j])
    BY <1>1, <2>3, <2>6 DEF RowIsKept, Reading
  <2> QED BY <1>3, <2>2, <2>3, <2>4, <2>8, <2>9, RequestGoesOn
<1>5. ASSUME NEW i \in DOMAIN line, UpdateQuantity(c, i) PROVE CartsInv'
  <2>1. /\ UNCHANGED <<price, gone, line, listed, overtaken>> /\ edits' = edits + 1 /\ edits < MaxEdits
        /\ Proceed(c, "save", [row |-> i, line |-> line[i], since |-> {}]) /\ line[i].live
    BY <1>5 DEF UpdateQuantity
  <2>2. PICK k : /\ kcall' = [kcall EXCEPT ![c] = k] /\ DOMAIN k = CartCallFields /\ k.at = "save"
                 /\ k.row = i /\ k.since = {} /\ k.line = line[i]
    BY <1>2, <2>1, Proceeds
  <2>3. i \in 1..m /\ i # 0
    BY <1>1
  <2>4. RequestStands(k, m, price, gone)
    BY <1>1, <2>2, <2>3 DEF RequestStands, Reading
  <2>5. \A j \in 1..m : RowIsKept(k, j, line[j], listed[j])
    BY <1>1, <2>1, <2>2 DEF RowIsKept, LinesArePriced, Live
  <2> QED BY <1>3, <2>1, <2>2, <2>4, <2>5, RequestGoesOn
<1> QED BY <1>4, <1>5

LEMMA RequestsAdvance ==
  ASSUME CartsInv, NEW c \in CartCalls,
         CreateCart(c) \/ FindVariant(c) \/ FindProduct(c) \/ CartCallFails(c)
  PROVE  CartsInv'
<1> DEFINE m == Len(line)
           k == kcall[c]
<1>1. /\ m \in Nat /\ RequestStands(k, m, price, gone) /\ CartTypes
      /\ UNCHANGED <<price, gone, line, listed, overtaken, edits>> /\ k.at # "idle"
      /\ \A i \in 1..m : RowIsKept(k, i, line[i], listed[i])
  BY CartFacts DEF CartsInv, CreateCart, FindVariant, FindProduct, CartCallFails
<1>2. edits' \in Nat /\ edits' <= MaxEdits
  BY <1>1 DEF CartTypes
<1>3. CASE Drop(c)
  <2>1. \A i \in 1..m : RowIsKept(NoCartCall, i, line[i], listed[i])
    BY NoRequestStands, <1>1 DEF RowIsKept
  <2> QED BY <1>1, <1>2, <1>3, <2>1, NoRequestStands, RequestGoesOn DEF Drop
<1>4. ASSUME NEW at \in Reading, Proceed(c, at, << >>), k.at \in Reading,
             (IF at = "product" THEN ProductPrice(price, gone) ELSE ListedPrice(k.line.item, price, gone)) \in k.since,
             at = "variant" => k.line.item = "variant"
      PROVE  CartsInv'
  <2>1. DOMAIN << >> = {}
    OBVIOUS
  <2>2. PICK next : /\ kcall' = [kcall EXCEPT ![c] = next] /\ DOMAIN next = CartCallFields /\ next.at = at
                    /\ next.row = k.row /\ next.line = k.line /\ next.since = k.since
    BY <1>1, <1>4, <2>1, Proceeds DEF RequestStands
  <2>5. Due(next, price, gone) \in next.since
    BY <1>4, <2>2 DEF Due
  <2>3. RequestStands(next, m, price, gone)
    BY <1>1, <1>4, <2>2, <2>5 DEF RequestStands, Reading
  <2>4. \A i \in 1..m : RowIsKept(next, i, line[i], listed[i])
    BY <1>1, <1>4, <2>2 DEF RowIsKept, Reading
  <2> QED BY <1>1, <1>2, <2>2, <2>3, <2>4, RequestGoesOn
<1>5. ASSUME NEW n, n = Due(k, price, gone), Proceed(c, "save", [line |-> Priced(k.line, n)]), k.at \in Reading
      PROVE  CartsInv'
  <2>1. PICK next : /\ kcall' = [kcall EXCEPT ![c] = next] /\ DOMAIN next = CartCallFields /\ next.at = "save"
                    /\ next.row = k.row /\ next.line = Priced(k.line, n) /\ next.since = k.since
    BY <1>1, <1>5, Proceeds DEF RequestStands
  <2>2. n \in k.since /\ n \in Priceable
    BY <1>1, <1>5 DEF RequestStands
  <2>3. next.line \in Lines /\ next.line.unitPrice = n /\ next.line.item = k.line.item
    BY <1>1, <2>1, <2>2 DEF RequestStands, Priced, Lines
  <2>4. RequestStands(next, m, price, gone)
    BY <1>1, <1>5, <2>1, <2>2, <2>3 DEF RequestStands, Reading
  <2>5. \A i \in 1..m : RowIsKept(next, i, line[i], listed[i])
    BY <1>1, <2>1, <2>2, <2>3 DEF RowIsKept
  <2> QED BY <1>1, <1>2, <2>1, <2>3, <2>4, <2>5, RequestGoesOn
<1>7. /\ k.line.item \in Items /\ gone \subseteq Items /\ \A x \in Items : price[x] \in Prices[x]
      /\ ListedPrice("product", price, gone) = ProductPrice(price, gone)
  BY <1>1, CartsAssumption DEF CartTypes, RequestStands, Lines, Items, ListedPrice, ProductPrice
<1>6. CASE CreateCart(c)
  <2>1. k.at = "cart" /\ k.at \in Reading /\ Due(k, price, gone) \in k.since
    BY <1>1, <1>6 DEF CreateCart, RequestStands, Reading
  <2>2. ListedPrice(k.line.item, price, gone) \in k.since
    BY <2>1 DEF Due
  <2> QED BY <1>3, <1>4, <1>6, <1>7, <2>1, <2>2 DEF CreateCart, Reading, Items
<1>8. CASE FindVariant(c)
  <2>1. k.at = "variant" /\ k.at \in Reading /\ Due(k, price, gone) = ListedPrice(k.line.item, price, gone)
    BY <1>8 DEF FindVariant, Reading, Due
  <2>2. k.line.item = "variant"
    BY <1>1, <1>8 DEF FindVariant, RequestStands
  <2>3. CASE "variant" \notin gone /\ price["variant"] = 0
    <3>1. Due(k, price, gone) = ProductPrice(price, gone)
      BY <2>1, <2>2, <2>3 DEF ListedPrice
    <3>2. Due(k, price, gone) \in k.since
      BY <1>1, <2>1 DEF RequestStands
    <3> QED BY <1>4, <1>8, <2>1, <2>3, <3>1, <3>2 DEF FindVariant, Reading
  <2>4. CASE ~("variant" \notin gone /\ price["variant"] = 0)
    <3>1. (IF "variant" \in gone THEN 0 ELSE price["variant"]) = Due(k, price, gone)
      BY <2>1, <2>2, <2>4 DEF ListedPrice
    <3> QED BY <1>5, <1>8, <2>1, <2>4, <3>1 DEF FindVariant
  <2> QED BY <2>3, <2>4
<1>9. CASE FindProduct(c)
  <2>1. k.at \in Reading
    BY <1>9 DEF FindProduct, Reading
  <2>2. (IF "product" \in gone THEN 0 ELSE price["product"]) = Due(k, price, gone)
    BY <1>9 DEF FindProduct, Due, ProductPrice
  <2> QED BY <1>5, <1>9, <2>1, <2>2 DEF FindProduct
<1> QED BY <1>3, <1>6, <1>8, <1>9 DEF CartCallFails

LEMMA CatalogueIsEdited ==
  ASSUME CartsInv, NEW x \in Items, DeleteItem(x) \/ \E n \in Prices[x] : Reprice(x, n)
  PROVE  CartsInv'
<1>1. CartTypes /\ LinesArePriced /\ UNCHANGED <<hasCart, line, listed, overtaken, edits>> /\ Relist(price', gone')
  BY DEF CartsInv, DeleteItem, Reprice, Relist
<1>2. price' \in [Items -> Priceable] /\ (\A y \in Items : price'[y] \in Prices[y]) /\ gone' \subseteq Items
  <2>1. CASE DeleteItem(x)
    BY <1>1, <2>1 DEF CartTypes, DeleteItem
  <2>2. ASSUME NEW n \in Prices[x], Reprice(x, n)
        PROVE  price' \in [Items -> Priceable] /\ (\A y \in Items : price'[y] \in Prices[y]) /\ gone' \subseteq Items
    <3>1. n \in Priceable
      BY DEF Priceable
    <3> QED BY <1>1, <2>2, <3>1 DEF CartTypes, Reprice
  <2> QED BY <2>1, <2>2
<1>3. \A c \in CartCalls : Due(kcall[c], price', gone') \in Priceable
  BY <1>2, PricesAreListed DEF Due, CartsInv, RequestStands, Lines
<1>4. CartTypes' /\ LinesArePriced'
  BY <1>1, <1>2 DEF CartTypes, LinesArePriced, Live, Relist
<1>5. ASSUME NEW c \in CartCalls
      PROVE  /\ RequestStands(kcall'[c], Len(line), price', gone') /\ kcall'[c].at = kcall[c].at
             /\ kcall'[c].row = kcall[c].row /\ kcall'[c].line = kcall[c].line
             /\ kcall'[c].at = "save" => kcall'[c].since = kcall[c].since
  <2> DEFINE k == kcall[c]
             since == IF k.at \in Reading THEN k.since \cup {Due(k, price', gone')} ELSE k.since
  <2>1. kcall'[c] = [k EXCEPT !.since = since]
    BY <1>1 DEF Relist
  <2>2. RequestStands(k, Len(line), price, gone) /\ Due(k, price', gone') \in Priceable
    BY <1>3 DEF CartsInv
  <2> HIDE DEF k, since
  <2>3. DOMAIN k = CartCallFields
    BY <2>2 DEF RequestStands
  <2>4. /\ DOMAIN kcall'[c] = CartCallFields /\ kcall'[c].at = k.at /\ kcall'[c].row = k.row
        /\ kcall'[c].line = k.line /\ kcall'[c].since = since
    BY <2>1, <2>3 DEF CartCallFields
  <2> USE DEF since
  <2>6. Due(kcall'[c], price', gone') = Due(k, price', gone')
    BY <2>4 DEF Due
  <2>5. RequestStands(kcall'[c], Len(line), price', gone')
    BY <2>2, <2>4, <2>6 DEF RequestStands, Reading
  <2> QED BY <2>4, <2>5 DEF k, Reading
<1>6. \A c \in CartCalls : \A i \in 1..Len(line)' : RowIsKept(kcall[c], i, line[i], listed[i])'
  BY <1>1, <1>5 DEF CartsInv, RowIsKept
<1>7. \A c \in CartCalls : RequestStands(kcall[c], Len(line), price, gone)'
  BY <1>1, <1>5 DEF RequestStands
<1>8. \A c, d \in CartCalls : kcall'[c].at # "idle" /\ kcall'[d].at # "idle" /\ kcall'[c].row = kcall'[d].row
        /\ kcall'[c].row # 0 => kcall'[c].line.item = kcall'[d].line.item
  BY <1>5 DEF CartsInv
<1> QED BY <1>4, <1>6, <1>7, <1>8 DEF CartsInv

LEMMA LinesAreRemoved ==
  ASSUME CartsInv, NEW c \in CartCalls, NEW rows, RemoveLines(c, rows)
  PROVE  CartsInv'
<1> DEFINE m == Len(line)
<1>1. /\ m \in Nat /\ DOMAIN line = 1..m /\ \A i \in 1..m : line[i] \in Lines
      /\ CartTypes /\ LinesArePriced /\ Len(listed) = m
  BY CartFacts DEF CartsInv
<1>2. /\ UNCHANGED <<price, gone, hasCart, kcall, listed, overtaken, edits>>
      /\ line' = [i \in 1..m |-> IF i \in rows THEN NoLine ELSE line[i]]
  BY <1>1 DEF RemoveLines
<1>3. line' \in [1..m -> Lines]
  BY <1>1, <1>2, NoRequestStands
<1>4. line' \in Seq(Lines) /\ Len(line') = m /\ DOMAIN line' = 1..m
  BY <1>1, <1>3
<1>5. \A i \in 1..m : line'[i].live => line'[i] = line[i]
  BY <1>2, NoRequestStands
<1>6. CartTypes'
  BY <1>1, <1>2, <1>4 DEF CartTypes
<1>7. LinesArePriced'
  BY <1>1, <1>2, <1>4, <1>5 DEF LinesArePriced, Live
<1>8. \A d \in CartCalls : RequestStands(kcall[d], Len(line), price, gone)'
  BY <1>2, <1>4 DEF CartsInv, RequestStands
<1>9. \A d \in CartCalls : \A i \in 1..m : RowIsKept(kcall[d], i, line[i], listed[i])'
  BY <1>2, <1>5 DEF CartsInv, RowIsKept
<1>10. \A d, e \in CartCalls : kcall'[d].at # "idle" /\ kcall'[e].at # "idle" /\ kcall'[d].row = kcall'[e].row
        /\ kcall'[d].row # 0 => kcall'[d].line.item = kcall'[e].line.item
  BY <1>2 DEF CartsInv
<1> QED BY <1>4, <1>6, <1>7, <1>8, <1>9, <1>10 DEF CartsInv

\* The save of a line as it was read, a new row or an old one, whoever saved it since.
LEMMA LineIsSaved ==
  ASSUME CartsInv, NEW c \in CartCalls, SaveLine(c), NEW k, k = kcall[c]
  PROVE  CartsInv'
<1> DEFINE m == Len(line)
           i == k.row
           saved == [k.line EXCEPT !.live = TRUE]
           atOnce == \E d \in CartCalls \ {c} : kcall[d].at # "idle" /\ kcall[d].line.item = saved.item
           kept == IF k.since = {} THEN listed[i] ELSE k.since
<1>1. /\ m \in Nat /\ DOMAIN line = 1..m /\ Len(listed) = m
      /\ \A j \in 1..m : line[j] \in Lines /\ listed[j] \subseteq Priceable
      /\ CartTypes /\ LinesArePriced /\ RequestStands(k, m, price, gone)
      /\ \A j \in 1..m : RowIsKept(k, j, line[j], listed[j])
      /\ line \in Seq(Lines) /\ listed \in Seq(SUBSET Priceable)
  BY CartFacts DEF CartsInv, CartTypes
<1>2. /\ k.at = "save" /\ UNCHANGED <<price, gone, hasCart, edits>> /\ kcall' = [kcall EXCEPT ![c] = NoCartCall]
      /\ IF i = 0 THEN line' = Append(line, saved) /\ listed' = Append(listed, k.since)
         ELSE line' = [line EXCEPT ![i] = saved] /\ listed' = [listed EXCEPT ![i] = kept]
      /\ overtaken' = IF atOnce THEN overtaken \cup {IF i = 0 THEN Len(line') ELSE i} ELSE overtaken
  BY DEF SaveLine, Drop
<1>3. /\ saved \in Lines /\ saved.live /\ saved.item = k.line.item /\ saved.unitPrice = k.line.unitPrice
      /\ k.since \subseteq Priceable
  BY <1>1 DEF RequestStands, Lines
<1>4. /\ \A d \in CartCalls : kcall'[d] = IF d = c THEN NoCartCall ELSE kcall[d]
      /\ DOMAIN kcall' = CartCalls /\ overtaken \subseteq overtaken'
  BY <1>1, <1>2 DEF CartTypes
<1>5. \A d, e \in CartCalls : kcall'[d].at # "idle" /\ kcall'[e].at # "idle" /\ kcall'[d].row = kcall'[e].row
        /\ kcall'[d].row # 0 => kcall'[d].line.item = kcall'[e].line.item
  <2>1. NoCartCall.at = "idle"
    BY <1>1, NoRequestStands
  <2> QED BY <1>4, <2>1 DEF CartsInv
<1> HIDE DEF saved
<1>6. CASE i = 0
  <2>1. line' = Append(line, saved) /\ listed' = Append(listed, k.since)
    BY <1>2, <1>6
  <2>2. /\ line' \in Seq(Lines) /\ Len(line') = m + 1 /\ line'[m + 1] = saved /\ DOMAIN line' = 1..(m + 1)
        /\ \A j \in 1..m : line'[j] = line[j]
    BY <1>1, <1>3, <2>1, AppendProperties, LenProperties
  <2>3. /\ listed' \in Seq(SUBSET Priceable) /\ Len(listed') = m + 1 /\ listed'[m + 1] = k.since
        /\ \A j \in 1..m : listed'[j] = listed[j]
    BY <1>1, <1>3, <2>1, AppendProperties
  <2>4. CartTypes'
    BY <1>1, <1>2, <1>4, <2>2, <2>3 DEF CartTypes
  <2>5. saved.unitPrice \in k.since
    BY <1>1, <1>2, <1>3, <1>6 DEF RequestStands
  <2>6. ASSUME NEW j \in 1..(m + 1), line'[j].live, j \notin overtaken' PROVE line'[j].unitPrice \in listed'[j]
    <3>1. CASE j = m + 1
      BY <2>2, <2>3, <2>5, <3>1
    <3>2. CASE j \in 1..m
      BY <1>1, <1>4, <2>2, <2>3, <2>6, <3>2 DEF LinesArePriced, Live
    <3> QED BY <1>1, <3>1, <3>2
  <2>7. LinesArePriced'
    BY <2>2, <2>6 DEF LinesArePriced, Live
  <2>8. ASSUME NEW d \in CartCalls
        PROVE  /\ RequestStands(kcall'[d], m + 1, price, gone)
               /\ \A j \in 1..(m + 1) : RowIsKept(kcall[d], j, line[j], listed[j])'
    <3>1. CASE d = c
      <4>1. m + 1 \in Nat
        BY <1>1
      <4> QED BY <1>4, <3>1, <4>1, NoRequestStands DEF RowIsKept
    <3>2. CASE d # c
      <4>1. kcall'[d] = kcall[d] /\ RequestStands(kcall[d], m, price, gone)
            /\ \A j \in 1..m : RowIsKept(kcall[d], j, line[j], listed[j])
        BY <1>4, <3>2 DEF CartsInv
      <4>2. kcall[d].row \in 0..m
        BY <4>1 DEF RequestStands
      <4>3. RequestStands(kcall'[d], m + 1, price, gone)
        BY <1>1, <4>1 DEF RequestStands
      <4>4. ASSUME NEW j \in 1..(m + 1) PROVE RowIsKept(kcall[d], j, line[j], listed[j])'
        <5>1. CASE j = m + 1
          BY <1>1, <4>1, <4>2, <5>1 DEF RowIsKept
        <5>2. CASE j \in 1..m
          BY <1>4, <2>2, <2>3, <4>1, <5>2 DEF RowIsKept
        <5> QED BY <1>1, <5>1, <5>2
      <4> QED BY <4>3, <4>4
    <3> QED BY <3>1, <3>2
  <2> QED BY <1>2, <1>5, <2>2, <2>4, <2>7, <2>8 DEF CartsInv
<1>7. CASE i # 0
  <2>1. /\ i \in 1..m /\ line' = [line EXCEPT ![i] = saved] /\ listed' = [listed EXCEPT ![i] = kept]
        /\ overtaken' = IF atOnce THEN overtaken \cup {i} ELSE overtaken
    BY <1>1, <1>2, <1>7 DEF RequestStands
  <2>2. kept \in SUBSET Priceable
    BY <1>1, <1>3, <2>1
  <2>3. /\ line' \in Seq(Lines) /\ Len(line') = m
        /\ \A j \in 1..m : line'[j] = IF j = i THEN saved ELSE line[j]
    BY <1>1, <1>3, <2>1, ExceptSeq
  <2>4. /\ listed' \in Seq(SUBSET Priceable) /\ Len(listed') = m
        /\ \A j \in 1..m : listed'[j] = IF j = i THEN kept ELSE listed[j]
    BY <1>1, <2>1, <2>2, ExceptSeq
  <2>5. DOMAIN line' = 1..m
    BY <2>3, LenProperties
  <2>6. CartTypes'
    BY <1>1, <1>2, <1>4, <2>3, <2>4 DEF CartTypes
  <2>7. i \notin overtaken => saved.unitPrice \in kept
    BY <1>1, <1>2, <1>3, <2>1 DEF RequestStands, RowIsKept
  <2>8. LinesArePriced'
    BY <1>1, <1>4, <2>3, <2>4, <2>5, <2>7 DEF LinesArePriced, Live
  <2>9. ASSUME NEW d \in CartCalls
        PROVE  /\ RequestStands(kcall'[d], m, price, gone)
               /\ \A j \in 1..m : RowIsKept(kcall[d], j, line[j], listed[j])'
    <3>1. CASE d = c
      BY <1>1, <1>4, <3>1, NoRequestStands DEF RowIsKept
    <3>2. CASE d # c
      <4>1. kcall'[d] = kcall[d] /\ RequestStands(kcall[d], m, price, gone)
            /\ \A j \in 1..m : RowIsKept(kcall[d], j, line[j], listed[j])
        BY <1>4, <3>2 DEF CartsInv
      <4>2. ASSUME NEW j \in 1..m PROVE RowIsKept(kcall[d], j, line[j], listed[j])'
        <5>1. CASE j # i
          BY <1>4, <2>3, <2>4, <4>1, <5>1 DEF RowIsKept
        <5>2. CASE j = i
          <6>1. kcall[d].at # "idle" /\ kcall[d].row = i => kcall[d].line.item = saved.item
            BY <1>2, <1>3, <1>7, <3>2 DEF CartsInv
          <6>2. kcall[d].at # "idle" /\ kcall[d].row = i => i \in overtaken'
            BY <2>1, <3>2, <6>1
          <6> QED BY <2>3, <4>1, <5>2, <6>1, <6>2 DEF RowIsKept
        <5> QED BY <5>1, <5>2
      <4> QED BY <4>1, <4>2
    <3> QED BY <3>1, <3>2
  <2> QED BY <1>2, <1>5, <2>3, <2>6, <2>8, <2>9 DEF CartsInv
<1> QED BY <1>6, <1>7

\* and every step keeps it.
LEMMA CartsInvNext == CartsInv /\ [CartsNext]_cartVars => CartsInv'
<1> SUFFICES ASSUME CartsInv, [CartsNext]_cartVars PROVE CartsInv'
  OBVIOUS
<1>1. CASE UNCHANGED cartVars
  BY <1>1 DEF cartVars, CartsInv, CartTypes, LinesArePriced, Live, RowIsKept, RequestStands
<1>2. ASSUME NEW c \in CartCalls,
             \/ \E x \in Items : AddItem(c, x)
             \/ \E i \in DOMAIN line : UpdateQuantity(c, i)
             \/ CreateCart(c) \/ FindVariant(c) \/ FindProduct(c) \/ SaveLine(c) \/ CartCallFails(c)
             \/ RemoveLines(c, Live) \/ \E i \in Live : RemoveLines(c, {i})
      PROVE  CartsInv'
  BY <1>2, RequestsBegin, RequestsAdvance, LineIsSaved, LinesAreRemoved
<1> QED BY <1>1, <1>2, CatalogueIsEdited DEF CartsNext

\* (CartsTypeOK) Whatever requests and edits of the catalogue overlap, prices, lines and
\* requests are of their kinds.
THEOREM CartsInOrder == CartsSpec => []CartsTypeOK
<1>1. CartsInv => CartsTypeOK
  BY DEF CartsInv, CartTypes, RequestStands, CartsTypeOK
<1> QED BY <1>1, CartsInvInit, CartsInvNext, PTL DEF CartsSpec

\* (LinesArePriced) addItem and updateItem read the catalogue and the line, and save the
\* line after: a line that no other save has overtaken has a price that was listed while
\* its item was last added (cart.service.ts).
THEOREM CartLinesArePriced == CartsSpec => []LinesArePriced
<1>1. CartsInv => LinesArePriced
  BY DEF CartsInv
<1> QED BY <1>1, CartsInvInit, CartsInvNext, PTL DEF CartsSpec

(* Reviews *)

Acting == {"post", "find", "save", "upsert", "queue", "marking", "queued"}
ReviewCallFields == {"kind", "at", "todo", "on", "seen", "read", "status", "task"}
ReviewStatuses == {"none", "SYNCED", "AI_PENDING", "PENDING_APPROVAL", "REPLIED", "FAILED"}
ReviewRows == [status : ReviewStatuses, ai : BOOLEAN, shown : BOOLEAN, task : Nat]
TaskRows == [of : ReviewIds, state : {"QUEUED", "COMPLETED", "FAILED"}]
\* t is none, or a task for r among the tasks rows.
TaskFor(t, r, rows) == t = 0 \/ (t \in 1..Len(rows) /\ rows[t].of = r)
ReviewTypes ==
  /\ review \in [ReviewIds -> ReviewRows] /\ \A r \in ReviewIds : TaskFor(review[r].task, r, rtask)
  /\ rtask \in Seq(TaskRows) /\ posted \in Seq(0..2) /\ Len(posted) = Len(rtask)
  /\ Len(rtask) <= MaxReviewTasks
  /\ reply \in [ReviewIds -> {"nobody", "auto", "owner"}]
  /\ approved \subseteq ReviewIds /\ loose \subseteq ReviewIds /\ DOMAIN rcall = ReviewCalls
\* What a request has read and is to write, for the review it is on.
RequestInOrder(k, rows) ==
  /\ DOMAIN k = ReviewCallFields /\ k.at \in Acting \cup {"idle", "pending", "reconcile", "listing"}
  /\ k.todo \subseteq ReviewIds /\ \A r \in ReviewIds : TaskFor(k.seen[r], r, rows)
  /\ k.at \in {"idle", "pending"} => k.todo = {}
  /\ k.kind = "approve" => k.at \in {"post", "find", "save"} /\ k.status = "REPLIED"
  /\ k.at \in Acting => k.on \in ReviewIds
  /\ k.at \in {"save", "upsert", "queued"} => k.read \in ReviewRows /\ TaskFor(k.read.task, k.on, rows)
  /\ k.at \in {"post", "find", "save"} => k.status \in {"REPLIED", "FAILED", "PENDING_APPROVAL"}
  /\ k.at \in {"post", "find", "save"} /\ k.kind # "approve" => k.task # 0 /\ TaskFor(k.task, k.on, rows)
  /\ k.at \in {"marking", "queued"} => k.task # 0 /\ TaskFor(k.task, k.on, rows) /\ k.status = "AI_PENDING"
Acts(c, r) == rcall[c].at \in Acting /\ rcall[c].on = r
Waits(c, r) ==
  r \in rcall[c].todo /\ rcall[c].at \in {"reconcile", "post", "find", "save"} /\ ~Acts(c, r)
\* A review that one request at a time handles: those that wait know its task, and
\* the one that acts on it knows its row.
KnowsTask(c, r) == review[r].status = "AI_PENDING" /\ rcall[c].seen[r] = review[r].task
KnowsRow(c, r) ==
  LET k == rcall[c] IN
  /\ k.at \in {"post", "find", "save"} /\ k.kind # "approve" =>
       review[r].status = "AI_PENDING" /\ k.task = review[r].task
  /\ k.at = "post" /\ k.kind # "approve" => posted[k.task] = 0
  /\ k.at = "upsert" => k.read = review[r]
  /\ k.at \in {"queue", "marking", "queued"} => review[r].status \in {"SYNCED", "FAILED"}
  /\ k.at \in {"marking", "queued"} => posted[k.task] = 0 /\ k.task # review[r].task
OwnerStands(r) ==
  r \in approved =>
    /\ reply[r] = "owner"
    /\ \/ review[r].status = "REPLIED"
       \/ \E c \in ReviewCalls : Acts(c, r) /\ rcall[c].at \in {"find", "save"} /\ rcall[c].kind = "approve"
PostedOnce(t, r) ==
  rtask[t].of = r =>
    /\ posted[t] <= 1
    /\ posted[t] = 1 /\ review[r].task = t /\ review[r].status = "AI_PENDING" =>
         \E c \in ReviewCalls : Acts(c, r) /\ rcall[c].at \in {"find", "save"} /\ rcall[c].kind # "approve"
HandledInTurn(r) ==
  /\ \A c, d \in ReviewCalls : Acts(c, r) /\ Acts(d, r) => c = d
  /\ \A c \in ReviewCalls : (Waits(c, r) => KnowsTask(c, r)) /\ (Acts(c, r) => KnowsRow(c, r))
  /\ OwnerStands(r)
  /\ \A t \in 1..Len(rtask) : PostedOnce(t, r)
ReviewsInv ==
  /\ ReviewTypes /\ \A c \in ReviewCalls : RequestInOrder(rcall[c], rtask)
  /\ \A r \in ReviewIds \ loose : HandledInTurn(r)

Loop == {"reconcile", "post", "find", "save"}

LEMMA ReviewFacts ==
  ASSUME ReviewTypes
  PROVE  /\ Len(rtask) \in Nat /\ Len(posted) = Len(rtask) /\ DOMAIN rtask = 1..Len(rtask)
         /\ \A t \in 1..Len(rtask) : rtask[t] \in TaskRows /\ posted[t] \in 0..2
<1>1. rtask \in Seq(TaskRows) /\ posted \in Seq(0..2) /\ Len(posted) = Len(rtask)
  BY DEF ReviewTypes
<1>2. Len(rtask) \in Nat /\ DOMAIN rtask = 1..Len(rtask) /\ \A t \in 1..Len(rtask) : rtask[t] \in TaskRows
  BY <1>1, LenProperties, ElementOfSeq
<1>3. \A t \in 1..Len(posted) : posted[t] \in 0..2
  BY <1>1, ElementOfSeq
<1> QED BY <1>1, <1>2, <1>3

\* What a request keeps and what it changes when it goes on.
LEMMA Goes ==
  ASSUME NEW c \in ReviewCalls, NEW r, NEW at, NEW fields, Go(c, r, at, fields), NEW k, k = rcall[c],
         DOMAIN k = ReviewCallFields, DOMAIN fields \cap {"at", "on", "todo", "seen"} = {}
  PROVE  /\ \E next :
              /\ rcall' = [rcall EXCEPT ![c] = next] /\ DOMAIN next = ReviewCallFields
              /\ next.at = at /\ next.on = r /\ next.todo = k.todo /\ next.seen = k.seen
              /\ next.kind = IF "kind" \in DOMAIN fields THEN fields.kind ELSE k.kind
              /\ next.read = IF "read" \in DOMAIN fields THEN fields.read ELSE k.read
              /\ next.status = IF "status" \in DOMAIN fields THEN fields.status ELSE k.status
              /\ next.task = IF "task" \in DOMAIN fields THEN fields.task ELSE k.task
         /\ loose' \in {loose, loose \cup {r}}
         /\ r \in loose' \/ Handling(r) \ {c} = {}
<1> DEFINE next == [f \in DOMAIN k |-> IF f \in DOMAIN fields THEN fields[f]
                                       ELSE IF f = "at" THEN at ELSE IF f = "on" THEN r ELSE k[f]]
<1>1. rcall' = [rcall EXCEPT ![c] = next]
  BY DEF Go
<1>2. /\ DOMAIN next = ReviewCallFields
      /\ next.at = at /\ next.on = r /\ next.todo = k.todo /\ next.seen = k.seen
      /\ next.kind = IF "kind" \in DOMAIN fields THEN fields.kind ELSE k.kind
      /\ next.read = IF "read" \in DOMAIN fields THEN fields.read ELSE k.read
      /\ next.status = IF "status" \in DOMAIN fields THEN fields.status ELSE k.status
      /\ next.task = IF "task" \in DOMAIN fields THEN fields.task ELSE k.task
  BY DEF ReviewCallFields
<1>3. loose' \in {loose, loose \cup {r}} /\ (r \in loose' \/ Handling(r) \ {c} = {})
  BY DEF Go
<1> QED BY <1>1, <1>2, <1>3

\* A review that one request at a time handles is no other request's.
LEMMA OthersAreElsewhere ==
  ASSUME NEW c, NEW r, Handling(r) \ {c} = {}, NEW d \in ReviewCalls, d # c
  PROVE  ~Acts(d, r) /\ ~Waits(d, r)
BY DEF Handling, Acts, Waits, Acting

LEMMA RequestLater ==
  ASSUME ReviewTypes, Len(rtask)' \in Nat, Len(rtask) <= Len(rtask)',
         \A t \in 1..Len(rtask) : rtask'[t].of = rtask[t].of
  PROVE  /\ \A t, r : TaskFor(t, r, rtask) => TaskFor(t, r, rtask')
         /\ \A k : RequestInOrder(k, rtask) => RequestInOrder(k, rtask')
<1>1. \A t, r : TaskFor(t, r, rtask) => TaskFor(t, r, rtask')
  BY ReviewFacts DEF TaskFor
<1> QED BY <1>1 DEF RequestInOrder

\* The reviews that a step does not touch: request c does not act on q.
LEMMA ElsewhereInTurn ==
  ASSUME ReviewsInv, NEW c, NEW q \in ReviewIds, q \notin loose,
         \A d \in ReviewCalls : d # c => rcall'[d] = rcall[d],
         review'[q] = review[q], reply'[q] = reply[q], q \in approved' => q \in approved,
         Len(rtask)' \in Nat, Len(rtask) <= Len(rtask)',
         \A t \in 1..Len(rtask) : rtask'[t].of = rtask[t].of /\ (rtask[t].of = q => posted'[t] = posted[t]),
         \A t \in 1..Len(rtask)' : t > Len(rtask) => posted'[t] = 0,
         ~Acts(c, q), ~Acts(c, q)', Waits(c, q)' => KnowsTask(c, q)'
  PROVE  HandledInTurn(q)'
<1>1. HandledInTurn(q) /\ ReviewTypes
  BY DEF ReviewsInv
<1>2. \A d \in ReviewCalls : /\ Acts(d, q)' => Acts(d, q) /\ d # c /\ rcall'[d] = rcall[d]
                             /\ Acts(d, q) => Acts(d, q)' /\ rcall'[d] = rcall[d]
  BY DEF Acts
<1>3. \A d, e \in ReviewCalls : Acts(d, q)' /\ Acts(e, q)' => d = e
  BY <1>1, <1>2 DEF HandledInTurn
<1>4. ASSUME NEW d \in ReviewCalls, Waits(d, q)' PROVE KnowsTask(d, q)'
  <2>1. CASE d = c
    BY <1>4, <2>1
  <2>2. CASE d # c
    BY <1>1, <1>4, <2>2 DEF HandledInTurn, Waits, Acts, KnowsTask
  <2> QED BY <2>1, <2>2
<1>5. ASSUME NEW d \in ReviewCalls, Acts(d, q)' PROVE KnowsRow(d, q)'
  <2> DEFINE k == rcall[d]
  <2>1. Acts(d, q) /\ rcall'[d] = k /\ KnowsRow(d, q) /\ RequestInOrder(k, rtask) /\ k.on = q
    BY <1>1, <1>2, <1>5 DEF HandledInTurn, ReviewsInv, Acts
  <2>2. (k.at = "post" /\ k.kind # "approve") \/ k.at \in {"marking", "queued"} => posted'[k.task] = posted[k.task]
    BY <2>1 DEF RequestInOrder, TaskFor
  <2> QED BY <2>1, <2>2 DEF KnowsRow
<1>6. OwnerStands(q)'
  BY <1>1, <1>2 DEF HandledInTurn, OwnerStands
<1>7. ASSUME NEW t \in 1..Len(rtask)' PROVE PostedOnce(t, q)'
  <2>1. CASE t \in 1..Len(rtask)
    BY <1>1, <1>2, <2>1 DEF HandledInTurn, PostedOnce
  <2>2. CASE t > Len(rtask)
    BY <2>2 DEF PostedOnce
  <2> QED BY <1>1, <2>1, <2>2, ReviewFacts
<1> QED BY <1>3, <1>4, <1>5, <1>6, <1>7 DEF HandledInTurn

\* The review that request c alone handles.
LEMMA AloneInTurn ==
  ASSUME NEW c \in ReviewCalls, NEW r \in ReviewIds, Handling(r) \ {c} = {},
         \A d \in ReviewCalls : d # c => rcall'[d] = rcall[d],
         Waits(c, r)' => KnowsTask(c, r)', Acts(c, r)' => KnowsRow(c, r)',
         OwnerStands(r)', \A t \in 1..Len(rtask)' : PostedOnce(t, r)'
  PROVE  HandledInTurn(r)'
<1>1. \A d \in ReviewCalls : d # c => ~Acts(d, r)' /\ ~Waits(d, r)'
  <2>1. \A d \in ReviewCalls : d # c => ~Acts(d, r) /\ ~Waits(d, r)
    BY OthersAreElsewhere
  <2> QED BY <2>1 DEF Acts, Waits
<1> QED BY <1>1 DEF HandledInTurn

\* It goes on without a change of the review.
LEMMA AloneGoesOn ==
  ASSUME ReviewsInv, NEW c \in ReviewCalls, NEW r \in ReviewIds, r \notin loose, Handling(r) \ {c} = {},
         \A d \in ReviewCalls : d # c => rcall'[d] = rcall[d],
         UNCHANGED <<review, reply, approved, posted, rtask>>,
         Waits(c, r)' => KnowsTask(c, r)', Acts(c, r)' => KnowsRow(c, r)',
         Acts(c, r) /\ rcall[c].at \in {"find", "save"} =>
           Acts(c, r)' /\ rcall'[c].at \in {"find", "save"} /\ rcall'[c].kind = rcall[c].kind
  PROVE  HandledInTurn(r)'
<1>1. HandledInTurn(r)
  BY DEF ReviewsInv
<1>2. \A d \in ReviewCalls : Acts(d, r) => d = c
  BY OthersAreElsewhere
<1>3. OwnerStands(r)'
  BY <1>1, <1>2 DEF HandledInTurn, OwnerStands
<1>4. \A t \in 1..Len(rtask)' : PostedOnce(t, r)'
  BY <1>1, <1>2 DEF HandledInTurn, PostedOnce
<1> QED BY <1>3, <1>4, AloneInTurn

\* A step of request c, which touches no review but those of S.
LEMMA RequestGoesOnWith ==
  ASSUME ReviewsInv, ReviewTypes', NEW c \in ReviewCalls, NEW next, rcall' = [rcall EXCEPT ![c] = next],
         RequestInOrder(next, rtask'), loose \subseteq loose', NEW S \in SUBSET ReviewIds,
         Len(rtask) <= Len(rtask)', \A t \in 1..Len(rtask) : rtask'[t].of = rtask[t].of,
         \A t \in 1..Len(rtask) : rtask[t].of \notin S => posted'[t] = posted[t],
         \A t \in 1..Len(rtask)' : t > Len(rtask) => posted'[t] = 0,
         \A q \in ReviewIds \ S :
           /\ review'[q] = review[q] /\ reply'[q] = reply[q] /\ (q \in approved' => q \in approved)
           /\ ~Acts(c, q) /\ ~Acts(c, q)'
           /\ Waits(c, q)' => KnowsTask(c, q)' \/ (Waits(c, q) /\ next.seen = rcall[c].seen),
         \A r \in S \ loose' : HandledInTurn(r)'
  PROVE  ReviewsInv'
<1>1. ReviewTypes /\ Len(rtask)' \in Nat
  BY ReviewFacts DEF ReviewsInv
<1>2. \A d \in ReviewCalls : rcall'[d] = IF d = c THEN next ELSE rcall[d]
  BY <1>1 DEF ReviewTypes
<1>3. \A d \in ReviewCalls : RequestInOrder(rcall[d], rtask)'
  <2>1. \A d \in ReviewCalls : RequestInOrder(rcall'[d], rtask')
    BY <1>1, <1>2, RequestLater DEF ReviewsInv
  <2> QED BY <2>1 DEF RequestInOrder
<1>4. ASSUME NEW q \in ReviewIds, q \notin loose', q \notin S PROVE HandledInTurn(q)'
  <2>1. HandledInTurn(q) /\ q \notin loose
    BY <1>4 DEF ReviewsInv
  <2>2. Waits(c, q)' => KnowsTask(c, q)'
    BY <1>2, <1>4, <2>1 DEF HandledInTurn, KnowsTask
  <2>3. \A t \in 1..Len(rtask) : rtask[t].of = q => posted'[t] = posted[t]
    BY <1>4
  <2> QED BY <1>1, <1>2, <1>4, <2>1, <2>2, <2>3, ElsewhereInTurn
<1> QED BY <1>3, <1>4 DEF ReviewsInv

LEMMA NoRequest ==
  /\ DOMAIN NoReviewCall = ReviewCallFields /\ NoReviewCall.at = "idle" /\ NoReviewCall.kind = "none"
  /\ NoReviewCall.todo = {} /\ NoReviewCall.seen = [r \in ReviewIds |-> 0]
  /\ \A rows : RequestInOrder(NoReviewCall, rows)
  /\ NoReview \in ReviewRows /\ NoReview.task = 0
<1>1. /\ DOMAIN NoReviewCall = ReviewCallFields /\ NoReviewCall.at = "idle" /\ NoReviewCall.kind = "none"
      /\ NoReviewCall.todo = {} /\ NoReviewCall.seen = [r \in ReviewIds |-> 0]
  BY DEF NoReviewCall, ReviewCallFields
<1>2. NoReview \in ReviewRows /\ NoReview.task = 0
  BY DEF NoReview, ReviewRows, ReviewStatuses
<1> QED BY <1>1, <1>2 DEF RequestInOrder, TaskFor, Acting

\* The invariant of reviews, tasks and requests: it holds at first,
LEMMA ReviewsInvInit == ReviewsInit => ReviewsInv
<1> SUFFICES ASSUME ReviewsInit PROVE ReviewsInv
  OBVIOUS
<1>1. rtask = << >> /\ posted = << >> /\ Len(rtask) = 0 /\ Len(posted) = 0
  BY EmptySeq DEF ReviewsInit
<1>2. \A r \in ReviewIds : review[r] = NoReview
  BY DEF ReviewsInit
<1>3. ReviewTypes
  BY <1>1, <1>2, EmptySeq, NoRequest, ReviewsAssumption DEF ReviewsInit, ReviewTypes, TaskFor
<1>4. \A c \in ReviewCalls : rcall[c] = NoReviewCall
  BY DEF ReviewsInit
<1>5. \A c \in ReviewCalls : rcall[c].at = "idle" /\ RequestInOrder(rcall[c], rtask)
  BY <1>4, NoRequest
<1>6. \A r \in ReviewIds : HandledInTurn(r)
  BY <1>1, <1>5 DEF HandledInTurn, Acts, Waits, Acting, OwnerStands, ReviewsInit
<1> QED BY <1>3, <1>5, <1>6 DEF ReviewsInv

\* Steps that touch no review: the rest stays as it is.
LEMMA NothingTouched ==
  ASSUME ReviewsInv, UNCHANGED <<review, reply, approved, posted, rtask>>, loose \subseteq loose', loose' \subseteq ReviewIds,
         NEW c \in ReviewCalls, NEW next, rcall' = [rcall EXCEPT ![c] = next], RequestInOrder(next, rtask),
         rcall[c].at \notin Acting, next.at \notin Acting,
         \A q \in ReviewIds : Waits(c, q)' => KnowsTask(c, q)' \/ (Waits(c, q) /\ next.seen = rcall[c].seen)
  PROVE  ReviewsInv'
<1>1. ReviewTypes /\ Len(rtask) \in Nat
  BY ReviewFacts DEF ReviewsInv
<1>2. ReviewTypes'
  BY <1>1 DEF ReviewTypes, TaskFor
<1>3. rcall'[c] = next
  BY <1>1 DEF ReviewTypes
<1>4. \A q \in ReviewIds : ~Acts(c, q) /\ ~Acts(c, q)'
  BY <1>3 DEF Acts
<1>5. RequestInOrder(next, rtask')
  OBVIOUS
<1>6. \A q \in ReviewIds \ {} :
           /\ review'[q] = review[q] /\ reply'[q] = reply[q] /\ (q \in approved' => q \in approved)
           /\ ~Acts(c, q) /\ ~Acts(c, q)'
           /\ Waits(c, q)' => KnowsTask(c, q)' \/ (Waits(c, q) /\ next.seen = rcall[c].seen)
  BY <1>4
<1>7. /\ {} \in SUBSET ReviewIds /\ \A r \in {} \ loose' : HandledInTurn(r)'
      /\ Len(rtask) <= Len(rtask)' /\ \A t \in 1..Len(rtask) : rtask'[t].of = rtask[t].of
      /\ \A t \in 1..Len(rtask) : rtask[t].of \notin {} => posted'[t] = posted[t]
      /\ \A t \in 1..Len(rtask)' : t > Len(rtask) => posted'[t] = 0
  BY <1>1
<1> QED BY <1>2, <1>5, <1>6, <1>7, RequestGoesOnWith

LEMMA LoopsGoOn ==
  ASSUME ReviewsInv, NEW c \in ReviewCalls,
         \/ \E kind \in {"sync", "list"} : StartReconcile(c, kind)
         \/ FindPending(c)
         \/ ListReviews(c)
         \/ SyncEnds(c)
  PROVE  ReviewsInv'
<1> DEFINE k == rcall[c]
<1>1. /\ ReviewTypes /\ RequestInOrder(k, rtask) /\ loose' = loose /\ loose' \subseteq ReviewIds
      /\ UNCHANGED <<review, reply, approved, posted, rtask>> /\ DOMAIN rcall = ReviewCalls
  BY DEF ReviewsInv, StartReconcile, FindPending, ListReviews, SyncEnds, world, ReviewTypes
<1>2. ASSUME NEW kind \in {"sync", "list"}, StartReconcile(c, kind) PROVE ReviewsInv'
  <2> DEFINE next == [k EXCEPT !.kind = kind, !.at = "pending"]
  <2>1. /\ DOMAIN next = ReviewCallFields /\ next.kind = kind /\ next.at = "pending"
        /\ next.todo = k.todo /\ next.seen = k.seen
    BY <1>1 DEF RequestInOrder, ReviewCallFields
  <2>2. rcall' = [rcall EXCEPT ![c] = next] /\ k.at = "idle"
    BY <1>1, <1>2, <2>1 DEF StartReconcile
  <2> HIDE DEF next
  <2>3. RequestInOrder(next, rtask)
    BY <1>1, <2>1, <2>2 DEF RequestInOrder, Acting
  <2>4. \A q \in ReviewIds : ~Waits(c, q)'
    BY <1>1, <2>1, <2>2 DEF Waits
  <2> QED BY <1>1, <2>1, <2>2, <2>3, <2>4, NothingTouched DEF Acting
<1>3. CASE FindPending(c)
  <2> DEFINE todo == {r \in ReviewIds : review[r].status = "AI_PENDING"}
             seen == [r \in ReviewIds |-> review[r].task]
             next == [k EXCEPT !.at = "reconcile", !.todo = todo, !.seen = seen]
  <2>1. /\ DOMAIN next = ReviewCallFields /\ next.kind = k.kind /\ next.at = "reconcile"
        /\ next.todo = todo /\ next.seen = seen
    BY <1>1 DEF RequestInOrder, ReviewCallFields
  <2>2. rcall' = [rcall EXCEPT ![c] = next] /\ k.at = "pending"
    BY <1>1, <1>3, <2>1 DEF FindPending
  <2> HIDE DEF next
  <2>3. \A r \in ReviewIds : TaskFor(seen[r], r, rtask)
    BY <1>1 DEF ReviewTypes
  <2>4. RequestInOrder(next, rtask)
    BY <1>1, <2>1, <2>2, <2>3 DEF RequestInOrder, Acting
  <2>5. \A q \in ReviewIds : Waits(c, q)' => KnowsTask(c, q)'
    BY <1>1, <2>1, <2>2 DEF Waits, KnowsTask
  <2> QED BY <1>1, <2>1, <2>2, <2>4, <2>5, NothingTouched DEF Acting
<1>4. ASSUME rcall' = [rcall EXCEPT ![c] = NoReviewCall], k.at \in {"reconcile", "listing"} PROVE ReviewsInv'
  <2>1. \A q \in ReviewIds : ~Waits(c, q)'
    BY <1>1, <1>4, NoRequest DEF Waits
  <2> QED BY <1>1, <1>4, <2>1, NoRequest, NothingTouched DEF Acting
<1>5. CASE ListReviews(c)
  <2> DEFINE next == [NoReviewCall EXCEPT !.kind = "sync", !.at = "listing", !.todo = ReviewIds]
  <2>1. k.at = "reconcile" /\ (rcall' = [rcall EXCEPT ![c] = next] \/ rcall' = [rcall EXCEPT ![c] = NoReviewCall])
    BY <1>5 DEF ListReviews, Leave
  <2>2. /\ DOMAIN next = ReviewCallFields /\ next.kind = "sync" /\ next.at = "listing" /\ next.todo = ReviewIds
        /\ next.seen = NoReviewCall.seen
    BY NoRequest DEF ReviewCallFields
  <2> HIDE DEF next
  <2>3. RequestInOrder(next, rtask)
    BY <2>2, NoRequest DEF RequestInOrder, Acting, TaskFor
  <2>4. rcall' = [rcall EXCEPT ![c] = next] => \A q \in ReviewIds : ~Waits(c, q)'
    BY <1>1, <2>2 DEF Waits
  <2> QED BY <1>1, <1>4, <2>1, <2>2, <2>3, <2>4, NothingTouched DEF Acting
<1>6. CASE SyncEnds(c)
  BY <1>4, <1>6 DEF SyncEnds, Leave
<1> QED BY <1>2, <1>3, <1>5, <1>6

\* A request acts on r, and everything but r is as before.
OnlyTouches(r) ==
  /\ Len(rtask) <= Len(rtask)' /\ \A t \in 1..Len(rtask) : rtask'[t].of = rtask[t].of
  /\ \A t \in 1..Len(rtask) : rtask[t].of # r => posted'[t] = posted[t]
  /\ \A t \in 1..Len(rtask)' : t > Len(rtask) => posted'[t] = 0
  /\ \A q \in ReviewIds : q # r =>
       review'[q] = review[q] /\ reply'[q] = reply[q] /\ (q \in approved' => q \in approved)
ActsOnlyOn(k, next, r) ==
  /\ k.at \in Acting => k.on = r
  /\ next.at \in Acting => next.on = r
  /\ next.at \in Loop => next.todo \subseteq k.todo /\ next.seen = k.seen /\ (k.at \in Loop \/ next.todo = {})

LEMMA ActsOnOne ==
  ASSUME ReviewsInv, ReviewTypes', NEW c \in ReviewCalls, NEW next, rcall' = [rcall EXCEPT ![c] = next],
         RequestInOrder(next, rtask'), NEW r \in ReviewIds, loose' \in {loose, loose \cup {r}},
         OnlyTouches(r), ActsOnlyOn(rcall[c], next, r), r \notin loose' => HandledInTurn(r)'
  PROVE  ReviewsInv'
<1> USE DEF OnlyTouches, ActsOnlyOn
<1>1. rcall'[c] = next
  BY DEF ReviewsInv, ReviewTypes
<1>2. \A q \in ReviewIds \ {r} : ~Acts(c, q) /\ ~Acts(c, q)'
  BY <1>1 DEF Acts
<1>3. \A q \in ReviewIds \ {r} : Waits(c, q)' => Waits(c, q) /\ next.seen = rcall[c].seen
  BY <1>1, <1>2 DEF Waits, Loop
<1>4. {r} \in SUBSET ReviewIds /\ loose \subseteq loose' /\ \A q \in {r} \ loose' : HandledInTurn(q)'
  OBVIOUS
<1>5. \A t \in 1..Len(rtask) : rtask[t].of \notin {r} => posted'[t] = posted[t]
  OBVIOUS
<1>6. \A q \in ReviewIds \ {r} :
           /\ review'[q] = review[q] /\ reply'[q] = reply[q] /\ (q \in approved' => q \in approved)
           /\ ~Acts(c, q) /\ ~Acts(c, q)'
           /\ Waits(c, q)' => KnowsTask(c, q)' \/ (Waits(c, q) /\ next.seen = rcall[c].seen)
  BY <1>2, <1>3
<1> QED BY <1>4, <1>5, <1>6, RequestGoesOnWith

LEMMA ReviewCallFacts ==
  ASSUME ReviewsInv, NEW c \in ReviewCalls
  PROVE  /\ ReviewTypes /\ RequestInOrder(rcall[c], rtask) /\ Len(rtask) \in Nat /\ Len(posted) = Len(rtask)
         /\ DOMAIN rcall[c] = ReviewCallFields /\ DOMAIN rtask = 1..Len(rtask)
         /\ \A n : [rcall EXCEPT ![c] = n][c] = n
BY ReviewFacts DEF ReviewsInv, RequestInOrder, ReviewTypes

\* It reads or begins to act on r, and changes nothing yet.
LEMMA TurnIsTaken ==
  ASSUME ReviewsInv, NEW c \in ReviewCalls, NEW next, rcall' = [rcall EXCEPT ![c] = next],
         RequestInOrder(next, rtask), NEW r \in ReviewIds, loose' \in {loose, loose \cup {r}},
         r \in loose' \/ Handling(r) \ {c} = {},
         UNCHANGED <<review, reply, approved, posted, rtask>>,
         rcall[c].at \in Acting => rcall[c].on = r, next.at \in Acting, next.on = r,
         next.at \in Loop => next.todo \subseteq rcall[c].todo /\ next.seen = rcall[c].seen
                             /\ (rcall[c].at \in Loop \/ next.todo = {}),
         r \notin loose' => KnowsRow(c, r)',
         rcall[c].at \in {"find", "save"} => next.at \in {"find", "save"} /\ next.kind = rcall[c].kind
  PROVE  ReviewsInv'
<1>1. /\ ReviewTypes /\ Len(rtask) \in Nat /\ rcall'[c] = next
      /\ \A d \in ReviewCalls : d # c => rcall'[d] = rcall[d]
  BY ReviewCallFacts DEF ReviewTypes
<1>2. ReviewTypes'
  BY <1>1 DEF ReviewTypes, TaskFor
<1>3. Acts(c, r)' /\ ~Waits(c, r)'
  BY <1>1 DEF Acts, Waits
<1>4. r \notin loose' => HandledInTurn(r)'
  BY <1>1, <1>3, AloneGoesOn
<1>5. RequestInOrder(next, rtask')
  OBVIOUS
<1>6. OnlyTouches(r) /\ ActsOnlyOn(rcall[c], next, r)
  BY <1>1 DEF OnlyTouches, ActsOnlyOn
<1> QED BY <1>2, <1>4, <1>5, <1>6, ActsOnOne

LEMMA ReviewsAreRead ==
  ASSUME ReviewsInv, NEW c \in ReviewCalls,
         \/ FindReview(c) \/ FindQueued(c)
         \/ \E r \in ReviewIds : FindExisting(c, r) \/ ApproveReply(c, r)
  PROVE  ReviewsInv'
<1> DEFINE k == rcall[c]
<1>1. /\ ReviewTypes /\ RequestInOrder(k, rtask) /\ DOMAIN k = ReviewCallFields
      /\ UNCHANGED <<review, reply, approved, posted, rtask>> /\ \A n : [rcall EXCEPT ![c] = n][c] = n
      /\ \A r \in ReviewIds : review[r] \in ReviewRows /\ TaskFor(review[r].task, r, rtask)
  BY ReviewCallFacts DEF FindReview, FindQueued, FindExisting, ApproveReply, world, ReviewTypes
<1>2. \A r \in ReviewIds : r \notin loose /\ Acts(c, r) => KnowsRow(c, r)
  BY DEF ReviewsInv, HandledInTurn
<1>3. CASE FindReview(c)
  <2> DEFINE r == k.on
             fields == [read |-> review[r]]
  <2>1. k.at = "find" /\ Go(c, r, "save", fields) /\ r \in ReviewIds
    BY <1>1, <1>3 DEF FindReview, RequestInOrder, Acting
  <2>2. PICK next :
          /\ rcall' = [rcall EXCEPT ![c] = next] /\ DOMAIN next = ReviewCallFields
          /\ next.at = "save" /\ next.on = r /\ next.todo = k.todo /\ next.seen = k.seen
          /\ next.kind = k.kind /\ next.read = review[r] /\ next.status = k.status /\ next.task = k.task
    BY <1>1, <2>1, Goes
  <2>3. loose' \in {loose, loose \cup {r}} /\ (r \in loose' \/ Handling(r) \ {c} = {})
    BY <1>1, <2>1, Goes
  <2>4. RequestInOrder(next, rtask)
    BY <1>1, <2>1, <2>2 DEF RequestInOrder, Acting
  <2>5. r \notin loose => KnowsRow(c, r)'
    BY <1>1, <1>2, <2>1, <2>2 DEF KnowsRow, Acts, Acting
  <2> QED BY <1>1, <2>1, <2>2, <2>3, <2>4, <2>5, TurnIsTaken DEF Acting, Loop
<1>4. CASE FindQueued(c)
  <2> DEFINE r == k.on
             fields == [read |-> review[r]]
  <2>1. k.at = "marking" /\ Go(c, r, "queued", fields) /\ r \in ReviewIds
    BY <1>1, <1>4 DEF FindQueued, RequestInOrder, Acting
  <2>2. PICK next :
          /\ rcall' = [rcall EXCEPT ![c] = next] /\ DOMAIN next = ReviewCallFields
          /\ next.at = "queued" /\ next.on = r /\ next.todo = k.todo /\ next.seen = k.seen
          /\ next.kind = k.kind /\ next.read = review[r] /\ next.status = k.status /\ next.task = k.task
    BY <1>1, <2>1, Goes
  <2>3. loose' \in {loose, loose \cup {r}} /\ (r \in loose' \/ Handling(r) \ {c} = {})
    BY <1>1, <2>1, Goes
  <2>4. RequestInOrder(next, rtask)
    BY <1>1, <2>1, <2>2 DEF RequestInOrder, Acting
  <2>5. r \notin loose => KnowsRow(c, r)'
    BY <1>1, <1>2, <2>1, <2>2 DEF KnowsRow, Acts, Acting
  <2> QED BY <1>1, <2>1, <2>2, <2>3, <2>4, <2>5, TurnIsTaken DEF Acting, Loop
<1>5. ASSUME NEW r \in ReviewIds, FindExisting(c, r) PROVE ReviewsInv'
  <2> DEFINE fields == [read |-> review[r]]
  <2>1. k.at = "listing" /\ Go(c, r, "upsert", fields)
    BY <1>5 DEF FindExisting
  <2>2. PICK next :
          /\ rcall' = [rcall EXCEPT ![c] = next] /\ DOMAIN next = ReviewCallFields
          /\ next.at = "upsert" /\ next.on = r /\ next.todo = k.todo /\ next.seen = k.seen
          /\ next.kind = k.kind /\ next.read = review[r] /\ next.status = k.status /\ next.task = k.task
    BY <1>1, <2>1, Goes
  <2>3. loose' \in {loose, loose \cup {r}} /\ (r \in loose' \/ Handling(r) \ {c} = {})
    BY <1>1, <2>1, Goes
  <2>4. RequestInOrder(next, rtask)
    BY <1>1, <2>1, <2>2 DEF RequestInOrder, Acting
  <2>5. r \notin loose => KnowsRow(c, r)'
    BY <1>1, <2>1, <2>2 DEF KnowsRow
  <2> QED BY <1>1, <2>1, <2>2, <2>3, <2>4, <2>5, TurnIsTaken DEF Acting, Loop
<1>6. ASSUME NEW r \in ReviewIds, ApproveReply(c, r) PROVE ReviewsInv'
  <2> DEFINE fields == [kind |-> "approve", status |-> "REPLIED"]
  <2>1. k.at = "idle" /\ Go(c, r, "post", fields)
    BY <1>6 DEF ApproveReply
  <2>2. PICK next :
          /\ rcall' = [rcall EXCEPT ![c] = next] /\ DOMAIN next = ReviewCallFields
          /\ next.at = "post" /\ next.on = r /\ next.todo = k.todo /\ next.seen = k.seen
          /\ next.kind = "approve" /\ next.read = k.read /\ next.status = "REPLIED" /\ next.task = k.task
    BY <1>1, <2>1, Goes
  <2>3. loose' \in {loose, loose \cup {r}} /\ (r \in loose' \/ Handling(r) \ {c} = {})
    BY <1>1, <2>1, Goes
  <2>4. RequestInOrder(next, rtask)
    BY <1>1, <2>1, <2>2 DEF RequestInOrder, Acting
  <2>5. r \notin loose => KnowsRow(c, r)'
    BY <1>1, <2>1, <2>2 DEF KnowsRow
  <2> QED BY <1>1, <2>1, <2>2, <2>3, <2>4, <2>5, TurnIsTaken DEF Acting, Loop, RequestInOrder
<1> QED BY <1>3, <1>4, <1>5, <1>6

LEMMA TaskIsLookedAt ==
  ASSUME ReviewsInv, NEW c \in ReviewCalls, NEW r \in ReviewIds, LookAtTask(c, r)
  PROVE  ReviewsInv'
<1> DEFINE k == rcall[c]
           t == k.seen[r]
           fields(status) == [status |-> status, task |-> t]
<1>1. /\ ReviewTypes /\ RequestInOrder(k, rtask) /\ DOMAIN k = ReviewCallFields
      /\ UNCHANGED <<review, reply, approved, posted, rtask>> /\ \A n : [rcall EXCEPT ![c] = n][c] = n
      /\ k.at = "reconcile" /\ r \in k.todo /\ TaskFor(t, r, rtask) /\ k.kind # "approve"
      /\ loose \subseteq ReviewIds
  BY ReviewCallFacts DEF LookAtTask, world, ReviewTypes, RequestInOrder
<1>2. r \notin loose => KnowsTask(c, r) /\ HandledInTurn(r)
  BY <1>1 DEF ReviewsInv, HandledInTurn, Waits, Acts, Acting
<1>3. CASE rcall' = [rcall EXCEPT ![c].todo = k.todo \ {r}] /\ loose' = loose
  <2> DEFINE next == [k EXCEPT !.todo = k.todo \ {r}]
  <2>1. /\ DOMAIN next = ReviewCallFields /\ next.kind = k.kind /\ next.at = "reconcile"
        /\ next.todo = k.todo \ {r} /\ next.seen = k.seen
    BY <1>1 DEF RequestInOrder, ReviewCallFields
  <2>2. rcall' = [rcall EXCEPT ![c] = next]
    BY <1>1, <1>3 DEF ReviewTypes
  <2> HIDE DEF next
  <2>3. RequestInOrder(next, rtask)
    BY <1>1, <2>1 DEF RequestInOrder, Acting
  <2>4. \A q \in ReviewIds : Waits(c, q)' => Waits(c, q) /\ next.seen = k.seen
    BY <1>1, <2>1, <2>2 DEF Waits, Acts, Acting
  <2> QED BY <1>1, <1>3, <2>1, <2>2, <2>3, <2>4, NothingTouched DEF Acting
<1>4. ASSUME NEW at, NEW status \in {"REPLIED", "FAILED", "PENDING_APPROVAL"}, t # 0, Go(c, r, at, fields(status)),
             at = "find" \/ (at = "post" /\ status = "REPLIED")
      PROVE  ReviewsInv'
  <2>1. PICK next :
          /\ rcall' = [rcall EXCEPT ![c] = next] /\ DOMAIN next = ReviewCallFields
          /\ next.at = at /\ next.on = r /\ next.todo = k.todo /\ next.seen = k.seen
          /\ next.kind = k.kind /\ next.read = k.read /\ next.status = status /\ next.task = t
    BY <1>1, <1>4, Goes
  <2>2. loose' \in {loose, loose \cup {r}} /\ (r \in loose' \/ Handling(r) \ {c} = {})
    BY <1>1, <1>4, Goes
  <2>3. RequestInOrder(next, rtask)
    BY <1>1, <1>4, <2>1 DEF RequestInOrder, Acting
  <2>4. ASSUME r \notin loose' PROVE posted[t] = 0 /\ KnowsTask(c, r)
    <3>1. r \notin loose /\ Handling(r) \ {c} = {} /\ KnowsTask(c, r) /\ HandledInTurn(r)
      BY <1>2, <2>2, <2>4
    <3>2. t \in 1..Len(rtask) /\ rtask[t].of = r /\ posted[t] \in 0..2
      BY <1>1, <1>4, ReviewFacts DEF TaskFor
    <3>3. PostedOnce(t, r)
      BY <3>1, <3>2 DEF HandledInTurn
    <3>4. \A d \in ReviewCalls : ~Acts(d, r)
      BY <1>1, <3>1, OthersAreElsewhere DEF Acts, Acting
    <3> QED BY <3>1, <3>2, <3>3, <3>4 DEF PostedOnce, KnowsTask
  <2>5. r \notin loose' => KnowsRow(c, r)'
    BY <1>1, <1>4, <2>1, <2>4 DEF KnowsRow, KnowsTask
  <2>6. /\ k.at \notin Acting /\ next.at \in Acting /\ k.at \in Loop /\ k.at \notin {"find", "save"}
        /\ next.todo \subseteq k.todo /\ next.seen = k.seen /\ next.on = r
    BY <1>1, <1>4, <2>1 DEF Acting, Loop
  <2> QED BY <1>1, <2>1, <2>2, <2>3, <2>5, <2>6, TurnIsTaken
<1> QED BY <1>3, <1>4 DEF LookAtTask

\* The reply is posted; then the task is looked for and the review saved.
LEMMA ReplyIsPosted ==
  ASSUME ReviewsInv, NEW c \in ReviewCalls, PostReply(c),
         NEW k, k = rcall[c], NEW r, r = k.on, NEW t, t = k.task
  PROVE  ReviewsInv'
<1>1. /\ ReviewTypes /\ RequestInOrder(k, rtask) /\ DOMAIN k = ReviewCallFields /\ Len(rtask) \in Nat
      /\ \A n : [rcall EXCEPT ![c] = n][c] = n /\ DOMAIN rcall = ReviewCalls
  BY ReviewCallFacts DEF ReviewTypes
<1>2. /\ UNCHANGED <<review, rtask>> /\ k.at = "post" /\ Go(c, r, "find", << >>)
      /\ reply' = [reply EXCEPT ![r] = IF k.kind = "approve" THEN "owner" ELSE "auto"]
      /\ approved' = IF k.kind = "approve" THEN approved \cup {r} ELSE approved
      /\ posted' = IF k.kind = "approve" THEN posted ELSE [posted EXCEPT ![t] = IF @ < 2 THEN @ + 1 ELSE @]
  BY DEF PostReply
<1>3. r \in ReviewIds /\ (k.kind # "approve" => t \in 1..Len(rtask) /\ rtask[t].of = r)
  BY <1>1, <1>2 DEF RequestInOrder, Acting, TaskFor
<1>4. DOMAIN << >> = {}
  OBVIOUS
<1>5. PICK next :
        /\ rcall' = [rcall EXCEPT ![c] = next] /\ DOMAIN next = ReviewCallFields
        /\ next.at = "find" /\ next.on = r /\ next.todo = k.todo /\ next.seen = k.seen
        /\ next.kind = k.kind /\ next.read = k.read /\ next.status = k.status /\ next.task = t
  BY <1>1, <1>2, <1>4, Goes
<1>6. loose' \in {loose, loose \cup {r}} /\ (r \in loose' \/ Handling(r) \ {c} = {})
  BY <1>1, <1>2, <1>4, Goes
<1>7. RequestInOrder(next, rtask')
  <2>1. RequestInOrder(next, rtask)
    BY <1>1, <1>2, <1>5 DEF RequestInOrder, Acting
  <2> QED BY <1>2, <2>1
<1>8. posted' \in Seq(0..2) /\ Len(posted') = Len(rtask) /\ \A n \in 1..Len(rtask) :
        posted'[n] = IF k.kind # "approve" /\ n = t THEN (IF posted[t] < 2 THEN posted[t] + 1 ELSE posted[t])
                     ELSE posted[n]
  <2>1. posted \in Seq(0..2) /\ Len(posted) = Len(rtask)
    BY <1>1 DEF ReviewTypes
  <2>2. CASE k.kind = "approve"
    BY <1>2, <2>1, <2>2
  <2>3. CASE k.kind # "approve"
    <3> DEFINE n == IF posted[t] < 2 THEN posted[t] + 1 ELSE posted[t]
    <3>1. posted' = [posted EXCEPT ![t] = n]
      BY <1>2, <2>3
    <3>2. n \in 0..2
      BY <1>1, <1>3, <2>3, ReviewFacts
    <3> HIDE DEF n
    <3>3. posted' \in Seq(0..2) /\ Len(posted') = Len(posted)
          /\ \A j \in 1..Len(posted) : posted'[j] = IF j = t THEN n ELSE posted[j]
      BY <1>3, <2>1, <2>3, <3>1, <3>2, ExceptSeq
    <3> QED BY <2>1, <2>3, <3>3 DEF n
  <2> QED BY <2>2, <2>3
<1>9. ReviewTypes'
  BY <1>1, <1>2, <1>3, <1>5, <1>6, <1>8 DEF ReviewTypes, TaskFor
<1>10. ASSUME r \notin loose' PROVE HandledInTurn(r)'
  <2>1. Handling(r) \ {c} = {} /\ HandledInTurn(r) /\ Acts(c, r)
    BY <1>2, <1>3, <1>6, <1>10 DEF ReviewsInv, Acts, Acting
  <2>2. \A d \in ReviewCalls : d # c => ~Acts(d, r) /\ rcall'[d] = rcall[d]
    <3>1. \A d \in ReviewCalls : d # c => rcall'[d] = rcall[d]
      BY <1>1, <1>5
    <3> QED BY <2>1, <3>1, OthersAreElsewhere
  <2>3. Acts(c, r)' /\ ~Waits(c, r)' /\ rcall'[c] = next
    BY <1>1, <1>5 DEF Acts, Waits, Acting
  <2>4. KnowsRow(c, r)
    BY <2>1 DEF HandledInTurn
  <2>5. KnowsRow(c, r)'
    BY <1>2, <1>5, <2>3, <2>4 DEF KnowsRow
  <2>6. OwnerStands(r)'
    <3>1. CASE k.kind = "approve"
      BY <1>1, <1>2, <1>3, <1>5, <2>3, <3>1 DEF OwnerStands, ReviewTypes
    <3>2. CASE k.kind # "approve"
      <4>1. review[r].status = "AI_PENDING"
        BY <1>2, <2>4, <3>2 DEF KnowsRow
      <4>2. r \notin approved
        BY <1>2, <2>1, <2>2, <4>1 DEF HandledInTurn, OwnerStands
      <4> QED BY <1>2, <3>2, <4>2 DEF OwnerStands
    <3> QED BY <3>1, <3>2
  <2>7. ASSUME NEW n \in 1..Len(rtask) PROVE PostedOnce(n, r)'
    <3>1. PostedOnce(n, r)
      BY <2>1 DEF HandledInTurn
    <3>2. rtask[n].of = r => ~(posted[n] = 1 /\ review[r].task = n /\ review[r].status = "AI_PENDING")
      BY <1>2, <2>2, <3>1 DEF PostedOnce
    <3>3. CASE k.kind # "approve" /\ n = t
      BY <1>2, <1>5, <1>8, <2>3, <2>4, <3>3 DEF KnowsRow, PostedOnce
    <3>4. CASE ~(k.kind # "approve" /\ n = t)
      BY <1>2, <1>8, <3>1, <3>2, <3>4 DEF PostedOnce
    <3> QED BY <3>3, <3>4
  <2> QED BY <1>2, <1>3, <2>1, <2>2, <2>3, <2>5, <2>6, <2>7, AloneInTurn
<1>11. \A n \in 1..Len(rtask) : rtask[n].of # r => posted'[n] = posted[n]
  BY <1>3, <1>8
<1>12. \A q \in ReviewIds : q # r => review'[q] = review[q] /\ reply'[q] = reply[q] /\ (q \in approved' => q \in approved)
  BY <1>1, <1>2 DEF ReviewTypes
<1>13. OnlyTouches(r)
  BY <1>1, <1>2, <1>11, <1>12 DEF OnlyTouches
<1>14. ActsOnlyOn(rcall[c], next, r)
  BY <1>2, <1>5 DEF Loop, ActsOnlyOn
<1> QED BY <1>3, <1>5, <1>6, <1>7, <1>9, <1>10, <1>13, <1>14, ActsOnOne

\* A task is written before the review that it is for.
LEMMA TaskIsQueued ==
  ASSUME ReviewsInv, NEW c \in ReviewCalls, QueueTask(c), NEW k, k = rcall[c], NEW r, r = k.on
  PROVE  ReviewsInv'
<1> DEFINE n == Len(rtask)
           task == [of |-> r, state |-> "QUEUED"]
           fields == [status |-> "AI_PENDING", task |-> n + 1]
<1>1. /\ ReviewTypes /\ RequestInOrder(k, rtask) /\ DOMAIN k = ReviewCallFields /\ n \in Nat
      /\ \A m : [rcall EXCEPT ![c] = m][c] = m /\ DOMAIN rcall = ReviewCalls
  BY ReviewCallFacts DEF ReviewTypes
<1>2. /\ UNCHANGED <<highRated, remembers, connection, review, reply, approved>> /\ k.at = "queue"
      /\ n < MaxReviewTasks /\ rtask' = Append(rtask, task) /\ posted' = Append(posted, 0)
      /\ Go(c, r, "marking", fields)
  BY DEF QueueTask
<1>3. r \in ReviewIds
  BY <1>1, <1>2 DEF RequestInOrder, Acting
<1>4. PICK next :
        /\ rcall' = [rcall EXCEPT ![c] = next] /\ DOMAIN next = ReviewCallFields
        /\ next.at = "marking" /\ next.on = r /\ next.todo = k.todo /\ next.seen = k.seen
        /\ next.kind = k.kind /\ next.read = k.read /\ next.status = "AI_PENDING" /\ next.task = n + 1
  BY <1>1, <1>2, Goes
<1>5. loose' \in {loose, loose \cup {r}} /\ (r \in loose' \/ Handling(r) \ {c} = {})
  BY <1>1, <1>2, Goes
<1>6. /\ rtask' \in Seq(TaskRows) /\ Len(rtask') = n + 1 /\ rtask'[n + 1].of = r
      /\ \A t \in 1..n : rtask'[t] = rtask[t]
  <2>1. task \in TaskRows /\ task.of = r
    BY <1>3 DEF TaskRows
  <2>2. rtask \in Seq(TaskRows)
    BY <1>1 DEF ReviewTypes
  <2> HIDE DEF task
  <2> QED BY <1>2, <2>1, <2>2, AppendProperties
<1>7. /\ posted' \in Seq(0..2) /\ Len(posted') = n + 1 /\ posted'[n + 1] = 0
      /\ \A t \in 1..n : posted'[t] = posted[t]
  <2>1. posted \in Seq(0..2) /\ Len(posted) = n /\ 0 \in 0..2
    BY <1>1 DEF ReviewTypes
  <2> QED BY <1>2, <2>1, AppendProperties
<1>8. /\ Len(rtask)' \in Nat /\ Len(rtask) <= Len(rtask)' /\ \A t \in 1..Len(rtask) : rtask'[t].of = rtask[t].of
      /\ \A t \in 1..Len(rtask)' : t > Len(rtask) => posted'[t] = 0
  <2>1. \A t \in 1..(n + 1) : t > n => t = n + 1
    BY <1>1
  <2> QED BY <1>1, <1>6, <1>7, <2>1
<1>9. RequestInOrder(next, rtask')
  <2>1. RequestInOrder(k, rtask')
    BY <1>1, <1>8, RequestLater
  <2>2. TaskFor(n + 1, r, rtask') /\ n + 1 # 0
    BY <1>1, <1>6 DEF TaskFor
  <2> QED BY <1>2, <1>4, <2>1, <2>2 DEF RequestInOrder, Acting
<1>10. ReviewTypes'
  <2>1. \A q \in ReviewIds : TaskFor(review'[q].task, q, rtask')
    BY <1>1, <1>2, <1>8, RequestLater DEF ReviewTypes
  <2>2. Len(rtask') <= MaxReviewTasks
    BY <1>1, <1>2, <1>6, ReviewsAssumption
  <2>3. DOMAIN rcall' = ReviewCalls /\ loose' \subseteq ReviewIds
    BY <1>1, <1>3, <1>4, <1>5 DEF ReviewTypes
  <2> QED BY <1>1, <1>2, <1>6, <1>7, <2>1, <2>2, <2>3 DEF ReviewTypes
<1>11. ASSUME r \notin loose' PROVE HandledInTurn(r)'
  <2>1. Handling(r) \ {c} = {} /\ HandledInTurn(r) /\ Acts(c, r)
    BY <1>2, <1>3, <1>5, <1>11 DEF ReviewsInv, Acts, Acting
  <2>2. \A d \in ReviewCalls : d # c => ~Acts(d, r) /\ rcall'[d] = rcall[d]
    <3>1. \A d \in ReviewCalls : d # c => rcall'[d] = rcall[d]
      BY <1>1, <1>4
    <3> QED BY <2>1, <3>1, OthersAreElsewhere
  <2>3. ~Waits(c, r)' /\ rcall'[c] = next
    BY <1>1, <1>4 DEF Waits
  <2>4. KnowsRow(c, r)
    BY <2>1 DEF HandledInTurn
  <2>5. KnowsRow(c, r)'
    <3>1. n + 1 # review[r].task
      BY <1>1, <1>3 DEF ReviewTypes, TaskFor
    <3> QED BY <1>2, <1>4, <1>7, <2>3, <2>4, <3>1 DEF KnowsRow
  <2>6. OwnerStands(r)'
    BY <1>2, <2>1, <2>2 DEF HandledInTurn, OwnerStands
  <2>7. ASSUME NEW t \in 1..(n + 1) PROVE PostedOnce(t, r)'
    <3>1. CASE t = n + 1
      BY <1>7, <3>1 DEF PostedOnce
    <3>2. CASE t \in 1..n
      <4>1. PostedOnce(t, r)
        BY <2>1, <3>2 DEF HandledInTurn
      <4>2. rtask[t].of = r => ~(posted[t] = 1 /\ review[r].task = t /\ review[r].status = "AI_PENDING")
        BY <1>2, <2>2, <4>1 DEF PostedOnce
      <4> QED BY <1>2, <1>6, <1>7, <3>2, <4>1, <4>2 DEF PostedOnce
    <3> QED BY <1>1, <3>1, <3>2
  <2> QED BY <1>3, <1>6, <2>1, <2>2, <2>3, <2>5, <2>6, <2>7, AloneInTurn
<1>12. \A q \in ReviewIds : q # r => review'[q] = review[q] /\ reply'[q] = reply[q] /\ (q \in approved' => q \in approved)
  BY <1>2
<1>13. ActsOnlyOn(rcall[c], next, r)
  BY <1>4 DEF Loop, ActsOnlyOn
<1>14. OnlyTouches(r)
  BY <1>7, <1>8, <1>12 DEF OnlyTouches
<1> QED BY <1>3, <1>4, <1>5, <1>9, <1>10, <1>11, <1>13, <1>14, ActsOnOne

\* The request is done with its review, and goes on with its loop or ends.
LEMMA Continues ==
  ASSUME NEW c \in ReviewCalls, Continue(c), NEW k, k = rcall[c], DOMAIN k = ReviewCallFields,
         k.at \in {"save", "queued", "upsert"}, NEW rows, RequestInOrder(k, rows)
  PROVE  \E next : /\ rcall' = [rcall EXCEPT ![c] = next] /\ RequestInOrder(next, rows) /\ next.at \notin Acting
                   /\ next.at \in Loop => /\ k.at = "save" /\ next.seen = k.seen
                                          /\ next.todo = k.todo \ {k.on}
<1> DEFINE base == [NoReviewCall EXCEPT !.kind = k.kind, !.todo = k.todo \ {k.on}]
           list == [base EXCEPT !.at = "listing"]
           loop == [base EXCEPT !.at = "reconcile", !.seen = k.seen]
<1>1. \/ k.kind = "approve" /\ rcall' = [rcall EXCEPT ![c] = NoReviewCall]
      \/ k.kind # "approve" /\ k.at \in {"upsert", "queued"} /\ rcall' = [rcall EXCEPT ![c] = list]
      \/ k.kind # "approve" /\ k.at = "save" /\ rcall' = [rcall EXCEPT ![c] = loop]
  BY DEF Continue, Leave
<1>2. /\ DOMAIN list = ReviewCallFields /\ list.at = "listing" /\ list.kind = k.kind
      /\ list.todo = k.todo \ {k.on} /\ list.seen = NoReviewCall.seen
      /\ DOMAIN loop = ReviewCallFields /\ loop.at = "reconcile" /\ loop.kind = k.kind
      /\ loop.todo = k.todo \ {k.on} /\ loop.seen = k.seen
  BY NoRequest DEF ReviewCallFields
<1> HIDE DEF list, loop
<1>3. k.kind # "approve" => RequestInOrder(list, rows) /\ RequestInOrder(loop, rows)
  BY <1>2, NoRequest DEF RequestInOrder, Acting, TaskFor
<1> QED BY <1>1, <1>2, <1>3, NoRequest DEF Acting, Loop

\* The row of the review that a request alone handles is written, and its owner's
\* answer stands in it as before.
LEMMA RowIsWritten ==
  ASSUME ReviewsInv, NEW c \in ReviewCalls, NEW r \in ReviewIds, r \notin loose, Handling(r) \ {c} = {}, Acts(c, r),
         \A d \in ReviewCalls : d # c => rcall'[d] = rcall[d], UNCHANGED <<reply, approved, posted, rtask>>,
         ~Waits(c, r)', Acts(c, r)' => KnowsRow(c, r)',
         \/ rcall[c].at = "save" /\ review'[r].status = rcall[c].status
         \/ rcall[c].at = "queued" /\ review'[r].status = "AI_PENDING" /\ review'[r].task = rcall[c].task
         \/ /\ rcall[c].at = "upsert" /\ review'[r].task = review[r].task
            /\ review'[r].status \in {review[r].status, "REPLIED", "SYNCED"}
            /\ review'[r].status # review[r].status => review[r].status \in {"none", "SYNCED"}
  PROVE  HandledInTurn(r)'
<1> DEFINE k == rcall[c]
<1>1. HandledInTurn(r) /\ RequestInOrder(k, rtask) /\ KnowsRow(c, r)
  BY DEF ReviewsInv, HandledInTurn
<1>2. \A d \in ReviewCalls : Acts(d, r) => d = c
  BY OthersAreElsewhere
<1>3. OwnerStands(r)'
  <2>1. CASE k.at = "save" /\ review'[r].status = k.status
    <3>1. CASE k.kind = "approve"
      BY <1>1, <2>1, <3>1 DEF HandledInTurn, OwnerStands, RequestInOrder
    <3>2. CASE k.kind # "approve"
      BY <1>1, <1>2, <2>1, <3>2 DEF HandledInTurn, OwnerStands, KnowsRow
    <3> QED BY <3>1, <3>2
  <2>2. CASE k.at = "queued"
    BY <1>1, <1>2, <2>2 DEF HandledInTurn, OwnerStands, KnowsRow
  <2>3. CASE k.at = "upsert"
    BY <1>1, <1>2, <2>3 DEF HandledInTurn, OwnerStands
  <2> QED BY <2>1, <2>2, <2>3
<1>4. ASSUME NEW t \in 1..Len(rtask) PROVE PostedOnce(t, r)'
  <2>1. PostedOnce(t, r)
    BY <1>1 DEF HandledInTurn
  <2>2. CASE k.at = "save" /\ review'[r].status = k.status
    BY <1>1, <2>1, <2>2 DEF PostedOnce, RequestInOrder
  <2>3. CASE k.at = "queued" /\ review'[r].task = k.task
    BY <1>1, <2>1, <2>3 DEF PostedOnce, KnowsRow
  <2>4. CASE k.at = "upsert" /\ review'[r].task = review[r].task
    BY <1>2, <2>1, <2>4 DEF PostedOnce
  <2> QED BY <2>2, <2>3, <2>4
<1>5. \A t \in 1..Len(rtask)' : PostedOnce(t, r)'
  BY <1>4
<1> QED BY <1>3, <1>5, AloneInTurn

LEMMA ReviewIsSaved ==
  ASSUME ReviewsInv, NEW c \in ReviewCalls, SaveReview(c), NEW k, k = rcall[c], NEW r, r = k.on
  PROVE  ReviewsInv'
<1> DEFINE task == IF k.at = "queued" THEN k.task ELSE k.read.task
           ai == k.read.ai \/ k.status \in {"REPLIED", "PENDING_APPROVAL"}
           shown == k.read.shown \/ k.status = "REPLIED"
           saved == [k.read EXCEPT !.status = k.status, !.task = task, !.ai = ai, !.shown = shown]
<1>1. /\ ReviewTypes /\ RequestInOrder(k, rtask) /\ DOMAIN k = ReviewCallFields /\ Len(rtask) \in Nat
      /\ \A n : [rcall EXCEPT ![c] = n][c] = n /\ DOMAIN rcall = ReviewCalls
  BY ReviewCallFacts DEF ReviewTypes
<1>2. /\ UNCHANGED <<highRated, remembers, connection, approved, posted, reply, rtask>> /\ k.at \in {"save", "queued"}
      /\ review' = [review EXCEPT ![r] = saved] /\ Continue(c)
      /\ loose' = IF Handling(r) # {c} \/ review[r] # k.read THEN loose \cup {r} ELSE loose
  BY DEF SaveReview, world
<1>3. r \in ReviewIds /\ k.read \in ReviewRows /\ TaskFor(k.read.task, r, rtask)
  BY <1>1, <1>2 DEF RequestInOrder, Acting
<1>4. TaskFor(task, r, rtask) /\ task \in Nat
  BY <1>1, <1>2, <1>3 DEF RequestInOrder, TaskFor, ReviewRows
<1>5. ai \in BOOLEAN /\ shown \in BOOLEAN
  BY <1>3 DEF ReviewRows
<1>6. k.status \in ReviewStatuses /\ (k.at = "save" => k.status # "AI_PENDING")
  BY <1>1, <1>2 DEF RequestInOrder, ReviewStatuses
<1> HIDE DEF task, ai, shown
<1>7. saved \in ReviewRows /\ saved.status = k.status /\ saved.task = task
  BY <1>3, <1>4, <1>5, <1>6 DEF ReviewRows
<1> HIDE DEF saved
<1>8. PICK next : /\ rcall' = [rcall EXCEPT ![c] = next] /\ RequestInOrder(next, rtask) /\ next.at \notin Acting
                  /\ next.at \in Loop => k.at = "save" /\ next.seen = k.seen /\ next.todo = k.todo \ {k.on}
  <2>1. Continue(c) /\ k.at \in {"save", "queued", "upsert"}
    BY <1>2
  <2> QED BY <1>1, <2>1, Continues
<1>9. review'[r] = saved /\ \A q \in ReviewIds : q # r => review'[q] = review[q]
  BY <1>1, <1>2, <1>3 DEF ReviewTypes
<1>10. ReviewTypes'
  <2>1. review' \in [ReviewIds -> ReviewRows]
    BY <1>1, <1>2, <1>3, <1>7 DEF ReviewTypes
  <2>2. \A q \in ReviewIds : TaskFor(review'[q].task, q, rtask)
    BY <1>1, <1>4, <1>7, <1>9 DEF ReviewTypes
  <2>3. DOMAIN rcall' = ReviewCalls /\ loose' \subseteq ReviewIds
    BY <1>1, <1>2, <1>3, <1>8 DEF ReviewTypes
  <2> QED BY <1>1, <1>2, <2>1, <2>2, <2>3 DEF ReviewTypes
<1>11. RequestInOrder(next, rtask')
  BY <1>2, <1>8
<1>12. OnlyTouches(r)
  BY <1>1, <1>2, <1>9 DEF OnlyTouches
<1>13. ActsOnlyOn(rcall[c], next, r)
  BY <1>2, <1>8 DEF ActsOnlyOn, Loop
<1>14. ASSUME r \notin loose' PROVE HandledInTurn(r)'
  <2>1. r \notin loose /\ Handling(r) \ {c} = {} /\ Acts(c, r)
    BY <1>2, <1>3, <1>14 DEF Acts, Acting
  <2>2. ~Acts(c, r)' /\ ~Waits(c, r)'
    BY <1>1, <1>8 DEF Acts, Waits, Loop
  <2>3. \A d \in ReviewCalls : d # c => rcall'[d] = rcall[d]
    BY <1>1, <1>8
  <2>4. \/ rcall[c].at = "save" /\ review'[r].status = rcall[c].status
        \/ rcall[c].at = "queued" /\ review'[r].status = "AI_PENDING" /\ review'[r].task = rcall[c].task
    BY <1>1, <1>2, <1>7, <1>9 DEF RequestInOrder, task
  <2> QED BY <1>2, <1>3, <2>1, <2>2, <2>3, <2>4, RowIsWritten
<1>15. loose' \in {loose, loose \cup {r}}
  BY <1>2
<1> QED BY <1>3, <1>8, <1>10, <1>11, <1>12, <1>13, <1>14, <1>15, ActsOnOne

LEMMA ReviewIsUpserted ==
  ASSUME ReviewsInv, NEW c \in ReviewCalls, UpsertReview(c), NEW k, k = rcall[c], NEW r, r = k.on
  PROVE  ReviewsInv'
<1> DEFINE shown == remembers /\ reply[r] # "nobody"
           mapped == IF shown THEN "REPLIED" ELSE "SYNCED"
           saved == [k.read EXCEPT !.shown = shown, !.status = KeptStatus(k.read.status, mapped)]
           fields == [read |-> saved]
<1>1. /\ ReviewTypes /\ RequestInOrder(k, rtask) /\ DOMAIN k = ReviewCallFields /\ Len(rtask) \in Nat
      /\ \A n : [rcall EXCEPT ![c] = n][c] = n /\ DOMAIN rcall = ReviewCalls
      /\ remembers \in BOOLEAN => shown \in BOOLEAN
  BY ReviewCallFacts DEF ReviewTypes
<1>2. /\ UNCHANGED <<highRated, remembers, connection, approved, posted, reply, rtask>> /\ k.at = "upsert"
      /\ \/ /\ review' = [review EXCEPT ![r] = saved]
            /\ \/ ~shown /\ saved.status \in {"SYNCED", "FAILED"} /\ Go(c, r, "queue", fields)
               \/ Continue(c) /\ loose' = IF Handling(r) # {c} THEN loose \cup {r} ELSE loose
         \/ Leave(c) /\ loose' = loose \cup {r} /\ UNCHANGED review
  BY DEF UpsertReview, world
<1>3. r \in ReviewIds /\ k.read \in ReviewRows /\ TaskFor(k.read.task, r, rtask)
  BY <1>1, <1>2 DEF RequestInOrder, Acting
<1>4. Acts(c, r)
  BY <1>2 DEF Acts, Acting
<1>5. /\ saved \in ReviewRows /\ saved.task = k.read.task
      /\ saved.status \in {k.read.status, "REPLIED", "SYNCED"}
      /\ saved.status # k.read.status => k.read.status \in {"none", "SYNCED"}
  <2>1. KeptStatus(k.read.status, mapped) \in ReviewStatuses
    BY <1>3 DEF KeptStatus, ReviewRows, ReviewStatuses
  <2>2. shown \in BOOLEAN
    OBVIOUS
  <2> HIDE DEF shown, mapped
  <2>3. saved \in ReviewRows /\ saved.task = k.read.task /\ saved.status = KeptStatus(k.read.status, mapped)
    BY <1>3, <2>1, <2>2 DEF ReviewRows
  <2>4. mapped \in {"REPLIED", "SYNCED"}
    BY DEF mapped
  <2> QED BY <2>3, <2>4 DEF KeptStatus
<1> HIDE DEF saved
<1>6. r \notin loose => k.read = review[r]
  BY <1>2, <1>3, <1>4 DEF ReviewsInv, HandledInTurn, KnowsRow
<1>7. review' \in [ReviewIds -> ReviewRows] /\ \A q \in ReviewIds : TaskFor(review'[q].task, q, rtask)
  <2>1. CASE review' = [review EXCEPT ![r] = saved]
    <3>1. \A q \in ReviewIds : review'[q] = IF q = r THEN saved ELSE review[q]
      BY <1>1, <2>1 DEF ReviewTypes
    <3>2. review' \in [ReviewIds -> ReviewRows]
      BY <1>1, <1>5, <2>1 DEF ReviewTypes
    <3>3. \A q \in ReviewIds : TaskFor(review[q].task, q, rtask)
      BY <1>1 DEF ReviewTypes
    <3>4. TaskFor(saved.task, r, rtask)
      BY <1>3, <1>5
    <3> QED BY <3>1, <3>2, <3>3, <3>4
  <2>2. CASE UNCHANGED review
    BY <1>1, <2>2 DEF ReviewTypes
  <2> QED BY <1>2, <2>1, <2>2
<1>8. OnlyTouches(r)
  <2>1. \A q \in ReviewIds : q # r => review'[q] = review[q]
    BY <1>1, <1>2, <1>3 DEF ReviewTypes
  <2> QED BY <1>1, <1>2, <2>1 DEF OnlyTouches
<1>9. ASSUME NEW next, rcall' = [rcall EXCEPT ![c] = next], RequestInOrder(next, rtask),
             loose' \in {loose, loose \cup {r}}, r \in loose' \/ Handling(r) \ {c} = {},
             r \notin loose' => review' = [review EXCEPT ![r] = saved], next.at \notin Loop,
             next.at \in Acting =>
               next.on = r /\ next.at = "queue" /\ saved.status \in {"SYNCED", "FAILED"}
      PROVE  ReviewsInv'
  <2>1. ReviewTypes'
    BY <1>1, <1>2, <1>3, <1>7, <1>9 DEF ReviewTypes
  <2>2. RequestInOrder(next, rtask')
    BY <1>2, <1>9
  <2>3. ActsOnlyOn(rcall[c], next, r)
    BY <1>9 DEF ActsOnlyOn
  <2>4. ASSUME r \notin loose' PROVE HandledInTurn(r)'
    <3>1. r \notin loose /\ Handling(r) \ {c} = {} /\ review'[r] = saved /\ k.read = review[r]
      BY <1>1, <1>3, <1>6, <1>9, <2>4 DEF ReviewTypes
    <3>2. (Acts(c, r)' => KnowsRow(c, r)') /\ ~Waits(c, r)'
      BY <1>1, <1>9, <3>1 DEF Acts, Waits, Loop, KnowsRow
    <3>3. \A d \in ReviewCalls : d # c => rcall'[d] = rcall[d]
      BY <1>1, <1>9
    <3>4. /\ rcall[c].at = "upsert" /\ review'[r].task = review[r].task
          /\ review'[r].status \in {review[r].status, "REPLIED", "SYNCED"}
          /\ review'[r].status # review[r].status => review[r].status \in {"none", "SYNCED"}
      BY <1>2, <1>5, <3>1
    <3> QED BY <1>2, <1>3, <1>4, <3>1, <3>2, <3>3, <3>4, RowIsWritten
  <2> QED BY <1>3, <1>8, <1>9, <2>1, <2>2, <2>3, <2>4, ActsOnOne
<1>10. CASE Go(c, r, "queue", fields) /\ saved.status \in {"SYNCED", "FAILED"} /\ review' = [review EXCEPT ![r] = saved]
  <2>1. PICK next :
          /\ rcall' = [rcall EXCEPT ![c] = next] /\ DOMAIN next = ReviewCallFields
          /\ next.at = "queue" /\ next.on = r /\ next.todo = k.todo /\ next.seen = k.seen
          /\ next.kind = k.kind /\ next.read = saved /\ next.status = k.status /\ next.task = k.task
    BY <1>1, <1>10, Goes
  <2>2. loose' \in {loose, loose \cup {r}} /\ (r \in loose' \/ Handling(r) \ {c} = {})
    BY <1>1, <1>10, Goes
  <2>3. RequestInOrder(next, rtask)
    BY <1>1, <1>2, <1>3, <2>1 DEF RequestInOrder, Acting
  <2> QED BY <1>9, <1>10, <2>1, <2>2, <2>3 DEF Loop
<1>11. CASE Continue(c) /\ loose' = (IF Handling(r) # {c} THEN loose \cup {r} ELSE loose)
            /\ review' = [review EXCEPT ![r] = saved]
  <2>1. PICK next : /\ rcall' = [rcall EXCEPT ![c] = next] /\ RequestInOrder(next, rtask) /\ next.at \notin Acting
                    /\ next.at \in Loop => k.at = "save" /\ next.seen = k.seen /\ next.todo = k.todo \ {k.on}
    BY <1>1, <1>2, <1>11, Continues
  <2> QED BY <1>2, <1>9, <1>11, <2>1
<1>12. CASE Leave(c) /\ loose' = loose \cup {r}
  BY <1>9, <1>12, NoRequest DEF Leave, Loop, Acting
<1> QED BY <1>2, <1>10, <1>11, <1>12

LEMMA RequestGivesUp ==
  ASSUME ReviewsInv, NEW c \in ReviewCalls, GiveUp(c), NEW k, k = rcall[c], NEW r, r = k.on
  PROVE  ReviewsInv'
<1>1. /\ ReviewTypes /\ RequestInOrder(k, rtask) /\ Len(rtask) \in Nat
      /\ \A n : [rcall EXCEPT ![c] = n][c] = n /\ DOMAIN rcall = ReviewCalls
  BY ReviewCallFacts DEF ReviewTypes
<1>2. /\ UNCHANGED <<review, reply, approved, posted, rtask>> /\ rcall' = [rcall EXCEPT ![c] = NoReviewCall]
      /\ loose' = IF c \in Handling(r) THEN loose \cup {r} ELSE loose
  BY DEF GiveUp, Leave, world
<1>3. ~Acts(c, r)' /\ \A q \in ReviewIds : ~Waits(c, q)'
  BY <1>1, <1>2, NoRequest DEF Acts, Waits, Acting
<1>4. CASE c \in Handling(r)
  <2>1. r \in ReviewIds
    BY <1>1, <1>4 DEF Handling, RequestInOrder, Acting
  <2>2. ReviewTypes'
    BY <1>1, <1>2, <2>1 DEF ReviewTypes, TaskFor
  <2>3. OnlyTouches(r)
    BY <1>1, <1>2 DEF OnlyTouches
  <2>4. ActsOnlyOn(rcall[c], NoReviewCall, r)
    BY NoRequest DEF ActsOnlyOn, Acting, Loop
  <2>5. r \in loose' /\ loose' \in {loose, loose \cup {r}} /\ RequestInOrder(NoReviewCall, rtask')
    BY <1>2, <1>4, NoRequest
  <2> QED BY <1>2, <2>1, <2>2, <2>3, <2>4, <2>5, ActsOnOne
<1>5. CASE c \notin Handling(r)
  <2>1. k.at \notin Acting /\ NoReviewCall.at \notin Acting
    BY <1>5, NoRequest DEF Handling, Acting
  <2>2. loose \subseteq loose' /\ loose' \subseteq ReviewIds /\ RequestInOrder(NoReviewCall, rtask)
    BY <1>1, <1>2, <1>5, NoRequest DEF ReviewTypes
  <2> QED BY <1>2, <1>3, <2>1, <2>2, NothingTouched
<1> QED BY <1>4, <1>5

LEMMA TaskRuns ==
  ASSUME ReviewsInv, NEW t \in DOMAIN rtask, NEW state \in {"COMPLETED", "FAILED"}, Run(t, state)
  PROVE  ReviewsInv'
<1> DEFINE task == [rtask[t] EXCEPT !.state = state]
<1>1. /\ ReviewTypes /\ Len(rtask) \in Nat /\ rtask \in Seq(TaskRows) /\ t \in 1..Len(rtask)
      /\ rtask[t] \in TaskRows
  BY ReviewFacts DEF ReviewsInv, ReviewTypes
<1>2. UNCHANGED <<review, reply, approved, posted, rcall, loose>> /\ rtask' = [rtask EXCEPT ![t] = task]
  BY DEF Run, world
<1>3. task \in TaskRows /\ task.of = rtask[t].of
  BY <1>1 DEF TaskRows
<1> HIDE DEF task
<1>4. /\ rtask' \in Seq(TaskRows) /\ Len(rtask') = Len(rtask)
      /\ \A n \in 1..Len(rtask) : rtask'[n] = IF n = t THEN task ELSE rtask[n]
  BY <1>1, <1>2, <1>3, ExceptSeq
<1>5. \A n \in 1..Len(rtask) : rtask'[n].of = rtask[n].of
  BY <1>3, <1>4
<1>6. /\ \A n, r : TaskFor(n, r, rtask) => TaskFor(n, r, rtask')
      /\ \A k : RequestInOrder(k, rtask) => RequestInOrder(k, rtask')
  BY <1>1, <1>4, <1>5, RequestLater
<1>7. ReviewTypes'
  BY <1>1, <1>2, <1>4, <1>6 DEF ReviewTypes
<1>8. \A c \in ReviewCalls : RequestInOrder(rcall'[c], rtask')
  BY <1>2, <1>6 DEF ReviewsInv
<1>9. ASSUME NEW r \in ReviewIds \ loose PROVE HandledInTurn(r)'
  <2>1. HandledInTurn(r)
    BY DEF ReviewsInv
  <2>2. OwnerStands(r)'
    BY <1>2, <2>1 DEF HandledInTurn, OwnerStands, Acts
  <2>3. \A n \in 1..Len(rtask)' : PostedOnce(n, r)'
    BY <1>2, <1>4, <1>5, <2>1 DEF HandledInTurn, PostedOnce, Acts
  <2>4. \A c \in ReviewCalls : (Waits(c, r)' => KnowsTask(c, r)') /\ (Acts(c, r)' => KnowsRow(c, r)')
    BY <1>2, <2>1 DEF HandledInTurn, Waits, Acts, KnowsTask, KnowsRow
  <2>5. \A c, d \in ReviewCalls : Acts(c, r)' /\ Acts(d, r)' => c = d
    BY <1>2, <2>1 DEF HandledInTurn, Acts
  <2> QED BY <2>2, <2>3, <2>4, <2>5 DEF HandledInTurn
<1>10. \A c \in ReviewCalls : RequestInOrder(rcall[c], rtask)'
  BY <1>8 DEF RequestInOrder
<1> QED BY <1>2, <1>7, <1>9, <1>10 DEF ReviewsInv

\* and every step keeps it.
LEMMA ReviewsInvNext == ReviewsInv /\ [ReviewsNext]_reviewVars => ReviewsInv'
<1> SUFFICES ASSUME ReviewsInv, [ReviewsNext]_reviewVars PROVE ReviewsInv'
  OBVIOUS
<1>1. ASSUME UNCHANGED <<review, rtask, reply, rcall, approved, posted, loose>> PROVE ReviewsInv'
  <2>1. ReviewTypes' /\ \A c \in ReviewCalls : RequestInOrder(rcall[c], rtask)'
    BY <1>1 DEF ReviewsInv, ReviewTypes, TaskFor, RequestInOrder
  <2>2. ASSUME NEW r \in ReviewIds \ loose PROVE HandledInTurn(r)'
    <3>1. HandledInTurn(r)
      BY DEF ReviewsInv
    <3> QED BY <1>1, <3>1 DEF HandledInTurn, Acts, Waits, KnowsTask, KnowsRow, OwnerStands, PostedOnce
  <2> QED BY <1>1, <2>1, <2>2 DEF ReviewsInv
<1>2. CASE UNCHANGED reviewVars \/ ConnectMock \/ SelectLocation
  BY <1>1, <1>2 DEF reviewVars, ConnectMock, SelectLocation
<1>3. ASSUME NEW c \in ReviewCalls,
             \/ \E kind \in {"sync", "list"} : StartReconcile(c, kind)
             \/ FindPending(c) \/ PostReply(c) \/ FindReview(c) \/ SaveReview(c) \/ ListReviews(c)
             \/ SyncEnds(c) \/ UpsertReview(c) \/ QueueTask(c) \/ FindQueued(c) \/ GiveUp(c)
             \/ \E r \in ReviewIds : LookAtTask(c, r) \/ FindExisting(c, r) \/ ApproveReply(c, r)
      PROVE  ReviewsInv'
  BY <1>3, LoopsGoOn, ReviewsAreRead, TaskIsLookedAt, ReplyIsPosted, TaskIsQueued, ReviewIsSaved, ReviewIsUpserted,
     RequestGivesUp
<1> QED BY <1>2, <1>3, TaskRuns DEF ReviewsNext

\* (ReviewsTypeOK) Whatever syncs, replies and tasks overlap, rows and tasks are of their
\* kinds, and a review refers to a task of its own.
THEOREM ReviewsInOrder == ReviewsSpec => []ReviewsTypeOK
<1>1. ReviewsInv => ReviewsTypeOK
  BY DEF ReviewsInv, ReviewTypes, ReviewsTypeOK, ReviewRows, ReviewStatuses, TaskFor
<1> QED BY <1>1, ReviewsInvInit, ReviewsInvNext, PTL DEF ReviewsSpec

\* (RepliesStand) The reply that an owner has approved stands, and a reply of the
\* assistant is posted once, for every review that no two requests have handled at the
\* same time and none gave up between its steps (google-business.service.ts).
THEOREM OwnersRepliesStand == ReviewsSpec => []RepliesStand
<1>1. ReviewsInv => RepliesStand
  <2> SUFFICES ASSUME ReviewsInv PROVE RepliesStand
    OBVIOUS
  <2>1. ReviewTypes /\ DOMAIN rtask = 1..Len(rtask) /\ \A t \in 1..Len(rtask) : rtask[t] \in TaskRows
    BY ReviewFacts DEF ReviewsInv
  <2>2. \A r \in approved \ loose : reply[r] = "owner"
    BY <2>1 DEF ReviewsInv, ReviewTypes, HandledInTurn, OwnerStands
  <2>3. \A t \in 1..Len(rtask) : posted[t] <= 1 \/ rtask[t].of \in loose
    BY <2>1 DEF ReviewsInv, HandledInTurn, PostedOnce, TaskRows
  <2> QED BY <2>1, <2>2, <2>3 DEF RepliesStand
<1> QED BY <1>1, ReviewsInvInit, ReviewsInvNext, PTL DEF ReviewsSpec

(* The four in one run *)

\* Each part starts as it does alone, and a step of another part leaves it alone.
LEMMA PartsBegin == ChannelsInit => SourcesInit /\ CartsInit /\ ConnectInit /\ ReviewsInit
BY DEF ChannelsInit, CartsStill, ConnectStill, ReviewsStill

LEMMA PartsTakeTurns ==
  ASSUME [ChannelsNext]_channelsVars
  PROVE  /\ [SourcesNext]_sourceVars /\ [CartsNext]_cartVars
         /\ [ConnectNext]_connectVars /\ [ReviewsNext]_reviewVars
<1>1. CASE part = "sources" /\ SourcesNext /\ UNCHANGED <<cartVars, connectVars, reviewVars>>
  BY <1>1
<1>2. CASE part = "carts" /\ CartsNext /\ UNCHANGED <<sourceVars, connectVars, reviewVars>>
  BY <1>2
<1>3. CASE part = "connect" /\ ConnectNext /\ UNCHANGED <<sourceVars, cartVars, reviewVars>>
  BY <1>3
<1>4. CASE part = "reviews" /\ ReviewsNext /\ UNCHANGED <<sourceVars, cartVars, connectVars>>
  BY <1>4
<1>5. CASE UNCHANGED channelsVars
  BY <1>5 DEF channelsVars
<1> QED BY <1>1, <1>2, <1>3, <1>4, <1>5 DEF ChannelsNext

\* The run of the four parts together takes each of them through its own behaviours
\* only: what a theorem says of one part alone is true in that run.
THEOREM EachPartActsAlone == ChannelsSpec => SourcesSpec /\ CartsSpec /\ ConnectSpec /\ ReviewsSpec
BY PartsBegin, PartsTakeTurns, PTL DEF ChannelsSpec, SourcesSpec, CartsSpec, ConnectSpec, ReviewsSpec

\* (ChannelsTypeOK) Initializations and promises, lines and reads of a cart, tokens and
\* rows of accounts, reviews and their tasks stay within their types, whatever overlaps.
THEOREM ChannelsInOrder == ChannelsSpec => []ChannelsTypeOK
<1>1. SourcesInv => SourcesTypeOK
  BY DEF SourcesInv, SourcesTypes, SourcesTypeOK, Promises, Places
<1> QED
  BY <1>1, EachPartActsAlone, SourcesInOrder, CartsInOrder, ConnectingInOrder, ReviewsInOrder, PTL
  DEF ChannelsTypeOK
=============================================================================
