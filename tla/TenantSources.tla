---------------------------- MODULE TenantSources ----------------------------
(* The data sources of the stores in one process of Commerce.  The first      *)
(* request of a store initializes its data source, a pool of connections; the *)
(* requests that come meanwhile wait for the same promise.                    *)
EXTENDS Naturals, Sequences, FiniteSets

CONSTANTS
  Stores,      \* tenants
  StoreCalls,  \* requests in progress at once
  MaxInits     \* bound: initializations

ASSUME TenantSourcesAssumption == IsFiniteSet(StoreCalls) /\ MaxInits \in Nat

VARIABLES
  sources,       \* sources[t]: the initialization whose pool is kept, 0 for none
  initPromises,  \* initPromises[t]: the one under way, 0 for none
  promise,       \* the initializations so far: store, state
  pool,          \* pool[i]: the pool of initialization i is open
  gcall,         \* gcall[c]: a request: what it awaits
  destroying     \* onModuleDestroy: no, pools being destroyed, or done
sourceVars == <<sources, initPromises, promise, pool, gcall, destroying>>

NoSourceCall == [at |-> "idle", for |-> 0]
SourcesInit ==
  /\ sources = [t \in Stores |-> 0]
  /\ initPromises = [t \in Stores |-> 0]
  /\ promise = << >>
  /\ pool = << >>
  /\ gcall = [c \in StoreCalls |-> NoSourceCall]
  /\ destroying = "no"

Pooled(t) == sources[t] # 0 /\ pool[sources[t]]
Awaits(c, at, i) == gcall' = [gcall EXCEPT ![c] = [at |-> at, for |-> i]]

\* Mutant: the initialization under way is not looked for.
GetDataSourceAlone(c, t) ==
  /\ gcall[c].at = "idle"
  /\ IF Pooled(t)
     THEN Awaits(c, "answered", sources[t]) /\ UNCHANGED <<initPromises, promise, pool>>
     ELSE /\ Len(promise) < MaxInits
          /\ promise' = Append(promise, [of |-> t, state |-> "pending"])
          /\ pool' = Append(pool, FALSE)
          /\ initPromises' = [initPromises EXCEPT ![t] = Len(promise) + 1]
          /\ Awaits(c, "own", Len(promise) + 1)
  /\ UNCHANGED <<sources, destroying>>
\* getDataSource, up to its await.
GetDataSource(c, t) ==
  /\ gcall[c].at = "idle"
  /\ IF Pooled(t)
     THEN Awaits(c, "answered", sources[t]) /\ UNCHANGED <<initPromises, promise, pool>>
     ELSE IF initPromises[t] # 0
     THEN Awaits(c, "join", initPromises[t]) /\ UNCHANGED <<initPromises, promise, pool>>
     ELSE /\ Len(promise) < MaxInits
          /\ promise' = Append(promise, [of |-> t, state |-> "pending"])
          /\ pool' = Append(pool, FALSE)
          /\ initPromises' = [initPromises EXCEPT ![t] = Len(promise) + 1]
          /\ Awaits(c, "own", Len(promise) + 1)
  /\ UNCHANGED <<sources, destroying>>
\* initForTenant: the schema, the connection, the tables; each may fail.
InitForTenant(i, state) ==
  /\ promise[i].state = "pending"
  /\ promise' = [promise EXCEPT ![i].state = state]
  /\ pool' = [pool EXCEPT ![i] = (state = "resolved")]
  /\ UNCHANGED <<sources, initPromises, gcall, destroying>>
\* The request that began it goes on: the source is kept, the promise is not.
Settled(c) ==
  LET i == gcall[c].for
      t == promise[i].of
  IN
  /\ gcall[c].at = "own" /\ promise[i].state # "pending"
  /\ sources' = IF promise[i].state = "resolved" THEN [sources EXCEPT ![t] = i] ELSE sources
  /\ initPromises' = [initPromises EXCEPT ![t] = 0]
  /\ Awaits(c, IF promise[i].state = "resolved" THEN "answered" ELSE "failed", i)
  /\ UNCHANGED <<promise, pool, destroying>>
\* Those that waited for it.
Joined(c) ==
  LET i == gcall[c].for IN
  /\ gcall[c].at = "join" /\ promise[i].state # "pending"
  /\ Awaits(c, IF promise[i].state = "resolved" THEN "answered" ELSE "failed", i)
  /\ UNCHANGED <<sources, initPromises, promise, pool, destroying>>
Finish(c) ==
  /\ gcall[c].at \in {"answered", "failed"}
  /\ Awaits(c, "idle", 0)
  /\ UNCHANGED <<sources, initPromises, promise, pool, destroying>>

\* onModuleDestroy: the pools one after the other, then the map is cleared.
DestroySource(t) ==
  /\ destroying # "done" /\ Pooled(t)
  /\ destroying' = "begun"
  /\ pool' = [pool EXCEPT ![sources[t]] = FALSE]
  /\ UNCHANGED <<sources, initPromises, promise, gcall>>
ClearSources ==
  /\ destroying # "done" /\ \A t \in Stores : ~Pooled(t)
  /\ destroying' = "done"
  /\ sources' = [t \in Stores |-> 0]
  /\ UNCHANGED <<initPromises, promise, pool, gcall>>

SourcesNext ==
  \/ \E c \in StoreCalls :
       (\E t \in Stores : GetDataSource(c, t)) \/ Settled(c) \/ Joined(c) \/ Finish(c)
  \/ \E i \in DOMAIN promise, state \in {"resolved", "rejected"} : InitForTenant(i, state)
  \/ (\E t \in Stores : DestroySource(t)) \/ ClearSources
SourcesSpec == SourcesInit /\ [][SourcesNext]_sourceVars
-----------------------------------------------------------------------------
SourcesTypeOK ==
  /\ \A t \in Stores : sources[t] \in 0..Len(promise) /\ initPromises[t] \in 0..Len(promise)
  /\ Len(pool) = Len(promise) /\ \A c \in StoreCalls : gcall[c].for \in 0..Len(promise)

\* However the first requests of a store meet, and whichever of them fail, a
\* store has one pool, which the next request finds, and what is still awaited
\* or kept for a store is its own: an initialization that failed is forgotten by
\* the request that began it.  Only shutting down may leave a pool behind.
SourcesAreShared ==
  destroying = "no" =>
    \A t \in Stores :
      LET open == {i \in DOMAIN pool : pool[i] /\ promise[i].of = t} IN
      /\ Cardinality(open) <= 1
      /\ open \subseteq {sources[t], initPromises[t]}
      /\ sources[t] # 0 => promise[sources[t]].of = t
      /\ initPromises[t] # 0 =>
           \E c \in StoreCalls : gcall[c] = [at |-> "own", for |-> initPromises[t]]
=============================================================================
