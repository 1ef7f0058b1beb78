---------------------------- MODULE Core_proofs ----------------------------
(* What the core package and the plan settings promise, for any number of     *)
(* calls, keys, rows, scripts and administrators: of the database library,    *)
(* that a call which nobody overtakes writes what it was asked to and that an *)
(* upsert adds no second row for its key (db-clients.ts); of the schema       *)
(* scripts, that what a recorded migration created is there, and that a       *)
(* legacy database is moved as a whole (migrate-split-schemas.js and its      *)
(* rollback, the TypeORM migrations); of the plan settings, that an edit is   *)
(* lost only in a race (subscriptions.service.ts).  The last part puts these  *)
(* and the parts of Business_proofs together.                                 *)
EXTENDS MCPlatform, Business_proofs, WellFoundedInduction

(* The database library *)

Ops == {"find", "create", "upsert", "update", "delete"}
Rows == [key : Keys, state : {"live", "deleted", "gone"}, cols : [Columns -> Nat], ver : Nat]
TableCalls ==
  [at : {"idle", "connect", "wait", "find", "save"}, op : Ops, id : Nat, key : Keys,
   col : Columns, row : Rows, seen : SUBSET Nat]
TablesTypes ==
  /\ client \in Clients
  /\ writes \in Nat
  /\ table \in Seq(Rows) /\ asked \in Seq(Rows) /\ Len(asked) = Len(table)
  /\ tcall \in [Callers -> TableCalls]

Saving(c) == tcall[c].at = "save"
\* A call that is going to save knows its row as it was, unless its version tells
\* otherwise.
CallsKnowTheirRow ==
  /\ \A i \in DOMAIN table : table[i].ver <= writes
  /\ \A c \in Callers : Saving(c) /\ tcall[c].id # 0 =>
       /\ tcall[c].id \in DOMAIN table
       /\ tcall[c].row.ver <= writes
       /\ tcall[c].row.key = table[tcall[c].id].key
       /\ tcall[c].row.ver = table[tcall[c].id].ver => tcall[c].row = table[tcall[c].id]

\* Where upserts have no index to rely on.
Unguarded == "upsert" \in client.ops /\ ~client.unique
\* There no row ever is deleted, so a key that was looked up in vain is in no row
\* that was seen then.
UpsertsLookFirst ==
  /\ \A c \in Callers : tcall[c].at # "idle" => tcall[c].op \in client.ops
  /\ \A c \in Callers : Saving(c) /\ tcall[c].id = 0 => tcall[c].op \in {"create", "upsert"}
  /\ Unguarded => \A i \in DOMAIN table : table[i].state = "live"
  /\ Unguarded => \A c \in Callers : Saving(c) =>
       IF tcall[c].id # 0 THEN tcall[c].row.state = "live"
       ELSE \A i \in tcall[c].seen : i \in DOMAIN table /\ table[i].key # tcall[c].key

OneLiveRow ==
  "upsert" \in client.ops =>
    \A i, j \in DOMAIN table :
      /\ table[i].state = "live" /\ table[j].state = "live" /\ table[i].key = table[j].key
      /\ i # j
      => ~client.unique /\ table[i].key \in stale

TablesInv ==
  TablesTypes /\ CallsKnowTheirRow /\ RowsAreAsAsked /\ UpsertsLookFirst /\ OneLiveRow

-----------------------------------------------------------------------------
LEMMA AKey == (CHOOSE k \in Keys : TRUE) \in Keys
BY EntityAssumption

LEMMA NoRowType == NoRow \in Rows /\ NoTableCall \in TableCalls /\ NoTableCall.at = "idle"
<1>1. NoRow \in Rows
  BY AKey DEF NoRow, Rows, Columns
<1> QED BY <1>1, AKey DEF NoTableCall, TableCalls, Ops, Columns

LEMMA TablesInvInit == TablesInit => TablesInv
BY NoRowType DEF TablesInit, TablesInv, TablesTypes, CallsKnowTheirRow, RowsAreAsAsked,
   UpsertsLookFirst, OneLiveRow, Saving

\* Steps that move calls only, and none of them to a save.
LEMMA CallsMove ==
  ASSUME TablesInv, UNCHANGED <<client, table, writes, asked, stale>>,
         tcall' \in [Callers -> TableCalls],
         \A c \in Callers :
           /\ tcall'[c].at = "save" => tcall'[c] = tcall[c]
           /\ tcall'[c].at # "idle" => tcall'[c].op \in client.ops
  PROVE  TablesInv'
<1>1. TablesTypes' /\ CallsKnowTheirRow'
  BY DEF TablesInv, TablesTypes, CallsKnowTheirRow, Saving
<1>2. RowsAreAsAsked' /\ OneLiveRow'
  BY DEF TablesInv, RowsAreAsAsked, OneLiveRow
<1>3. UpsertsLookFirst'
  BY DEF TablesInv, UpsertsLookFirst, Saving, Unguarded
<1> QED BY <1>1, <1>2, <1>3 DEF TablesInv

\* One call ends.
LEMMA CallEnds ==
  ASSUME TablesInv, NEW c \in Callers, tcall' = [tcall EXCEPT ![c] = NoTableCall],
         UNCHANGED <<client, table, writes, asked, stale>>
  PROVE  TablesInv'
<1>1. tcall \in [Callers -> TableCalls]
  BY DEF TablesInv, TablesTypes
<1>2. \A d \in Callers : tcall'[d] = IF d = c THEN NoTableCall ELSE tcall[d]
  BY <1>1
<1>3. tcall' \in [Callers -> TableCalls]
  BY <1>1, NoRowType
<1> QED BY <1>2, <1>3, NoRowType, CallsMove DEF TablesInv, UpsertsLookFirst

LEMMA TableRowIsFound ==
  ASSUME TablesInv, NEW c \in Callers, FindRow(c)
  PROVE  TablesInv'
<1> DEFINE found == IF tcall[c].op = "upsert" THEN LiveRows(tcall[c].key)
                    ELSE {i \in DOMAIN table : i = tcall[c].id /\ table[i].state # "gone"}
<1>1. /\ tcall \in [Callers -> TableCalls] /\ table \in Seq(Rows)
      /\ DOMAIN table = 1..Len(table) /\ Len(table) \in Nat
  BY DEF TablesInv, TablesTypes
<1>2. UNCHANGED <<client, table, writes, asked, stale>> /\ tcall[c].at = "find"
  BY DEF FindRow, rowVars
<1>3. ASSUME NEW id \in DOMAIN table \cup {0}, NEW theRow \in Rows,
             tcall' = [tcall EXCEPT ![c].at = "save", ![c].id = id, ![c].row = theRow,
                                    ![c].seen = DOMAIN table],
             id # 0 => theRow = table[id],
             id = 0 => tcall[c].op \in {"create", "upsert"},
             id = 0 /\ tcall[c].op = "upsert" => LiveRows(tcall[c].key) = {}
      PROVE  TablesInv'
  <2>1. tcall'[c] = [tcall[c] EXCEPT !.at = "save", !.id = id, !.row = theRow, !.seen = DOMAIN table]
    BY <1>1, <1>3
  <2>2. tcall[c] \in TableCalls /\ id \in Nat /\ DOMAIN table \in SUBSET Nat
    BY <1>1
  <2>3. /\ tcall'[c] \in TableCalls
        /\ tcall'[c].at = "save" /\ tcall'[c].op = tcall[c].op /\ tcall'[c].id = id
        /\ tcall'[c].row = theRow /\ tcall'[c].key = tcall[c].key /\ tcall'[c].seen = DOMAIN table
    BY <2>1, <2>2 DEF TableCalls
  <2>4. tcall' \in [Callers -> TableCalls] /\ \A d \in Callers : d # c => tcall'[d] = tcall[d]
    BY <1>1, <1>3, <2>1, <2>3
  <2>5. TablesTypes' /\ RowsAreAsAsked' /\ OneLiveRow'
    BY <1>2, <2>4 DEF TablesInv, TablesTypes, RowsAreAsAsked, OneLiveRow
  <2>6. CallsKnowTheirRow'
    <3>1. id # 0 => id \in DOMAIN table /\ theRow.ver <= writes
      BY <1>3 DEF TablesInv, CallsKnowTheirRow
    <3>2. \A d \in Callers : Saving(d)' /\ tcall'[d].id # 0 =>
            /\ tcall'[d].id \in DOMAIN table
            /\ tcall'[d].row.ver <= writes
            /\ tcall'[d].row.key = table[tcall'[d].id].key
            /\ tcall'[d].row.ver = table[tcall'[d].id].ver => tcall'[d].row = table[tcall'[d].id]
      BY <1>3, <2>3, <2>4, <3>1 DEF TablesInv, CallsKnowTheirRow, Saving
    <3> QED BY <3>2, <1>2 DEF TablesInv, CallsKnowTheirRow
  <2>7. UpsertsLookFirst'
    <3>1. tcall[c].op \in client.ops
      BY <1>2 DEF TablesInv, UpsertsLookFirst
    <3>2. \A d \in Callers : /\ tcall'[d].at # "idle" => tcall'[d].op \in client.ops
                             /\ Saving(d)' /\ tcall'[d].id = 0 => tcall'[d].op \in {"create", "upsert"}
      BY <1>3, <2>3, <2>4, <3>1 DEF TablesInv, UpsertsLookFirst, Saving
    <3>3. ASSUME Unguarded, NEW d \in Callers, Saving(d)'
          PROVE  IF tcall'[d].id # 0 THEN tcall'[d].row.state = "live"
                 ELSE \A i \in tcall'[d].seen : i \in DOMAIN table /\ table[i].key # tcall'[d].key
      <4>1. CASE d # c
        BY <3>3, <4>1, <2>4 DEF TablesInv, UpsertsLookFirst, Saving
      <4>2. CASE d = c /\ id # 0
        BY <3>3, <4>2, <1>3, <2>3 DEF TablesInv, UpsertsLookFirst
      <4>3. CASE d = c /\ id = 0
        <5>1. client \in Clients /\ client.ops \cap {"create", "delete"} = {}
          BY <3>3, ClientsAssumption DEF TablesInv, TablesTypes, Unguarded
        <5>2. tcall[c].op = "upsert"
          BY <4>3, <5>1, <3>1, <1>3
        <5>3. \A i \in DOMAIN table : table[i].state = "live"
          BY <3>3 DEF TablesInv, UpsertsLookFirst
        <5> QED BY <4>3, <5>2, <5>3, <1>3, <2>3 DEF LiveRows
      <4> QED BY <4>1, <4>2, <4>3
    <3> QED BY <3>2, <3>3, <1>2 DEF TablesInv, UpsertsLookFirst, Unguarded
  <2> QED BY <2>5, <2>6, <2>7 DEF TablesInv
<1>4. CASE tcall' = [tcall EXCEPT ![c] = NoTableCall]
  BY <1>2, <1>4, CallEnds
<1>5. CASE /\ tcall[c].op \in {"create", "upsert"} /\ found = {}
           /\ tcall' = [tcall EXCEPT ![c].at = "save", ![c].id = 0, ![c].row = NoRow,
                                     ![c].seen = DOMAIN table]
  BY <1>3, <1>5, NoRowType
<1>6. ASSUME NEW id \in found,
             tcall' = [tcall EXCEPT ![c].at = "save", ![c].id = id, ![c].row = table[id],
                                    ![c].seen = DOMAIN table]
      PROVE  TablesInv'
  <2>1. id \in DOMAIN table /\ id # 0
    BY <1>1, <1>6 DEF LiveRows
  <2>2. table[id] \in Rows
    BY <1>1, <2>1
  <2> QED BY <1>3, <1>6, <2>1, <2>2
<1> HIDE DEF found
<1> QED BY <1>4, <1>5, <1>6 DEF FindRow, found

\* What a save writes over a row of its table.
LEMMA ChangedRow ==
  ASSUME TablesTypes, NEW c \in Callers, NEW theRow \in Rows, NEW other \in Rows
  PROVE  LET k == tcall[c] IN
         /\ Changed(k, theRow) \in Rows
         /\ Changed(k, theRow).key = theRow.key /\ Changed(k, theRow).ver = writes + 1
         /\ Changed(k, theRow).state = "live" => theRow.state = "live"
         /\ k.op # "delete" => Changed(k, theRow).state = theRow.state
         /\ theRow.cols = other.cols /\ theRow.state = other.state =>
              /\ Changed(k, theRow).cols = Changed(k, other).cols
              /\ Changed(k, theRow).state = Changed(k, other).state
<1>1. tcall[c].col \in Columns /\ writes + 1 \in Nat
  BY DEF TablesTypes, TableCalls
<1> QED BY <1>1 DEF Changed, Rows

LEMMA TableRowIsSaved ==
  ASSUME TablesInv, NEW c \in Callers, SaveFound(c)
  PROVE  TablesInv'
<1> DEFINE k == tcall[c]
           id == tcall[c].id
           new == Changed(tcall[c], tcall[c].row)
           want == Changed(tcall[c], asked[id])
<1>1. /\ Saving(c) /\ id # 0 /\ Unique(id, new)
      /\ table' = [table EXCEPT ![id] = new]
      /\ asked' = [asked EXCEPT ![id] = want]
      /\ writes' = writes + 1
      /\ stale' = IF table[id].ver = k.row.ver THEN stale ELSE stale \cup {id}
      /\ tcall' = [tcall EXCEPT ![c] = NoTableCall]
      /\ UNCHANGED client
  BY DEF SaveFound, EndCall, Saving
<1>2. /\ tcall \in [Callers -> TableCalls] /\ table \in Seq(Rows) /\ asked \in Seq(Rows)
      /\ DOMAIN table = 1..Len(table) /\ Len(asked) = Len(table) /\ DOMAIN asked = DOMAIN table
      /\ writes \in Nat /\ client \in Clients
  BY DEF TablesInv, TablesTypes
<1>3. /\ id \in DOMAIN table /\ k.row.key = table[id].key
      /\ k.row.ver = table[id].ver => k.row = table[id]
  BY <1>1 DEF TablesInv, CallsKnowTheirRow
<1>4. k.row \in Rows /\ asked[id] \in Rows /\ table[id] \in Rows
  BY <1>2, <1>3 DEF TableCalls
<1>5. /\ new \in Rows /\ want \in Rows /\ new.key = table[id].key /\ new.ver = writes + 1
      /\ new.state = "live" => k.row.state = "live"
      /\ k.op # "delete" => new.state = k.row.state
      /\ k.row.cols = asked[id].cols /\ k.row.state = asked[id].state =>
           new.cols = want.cols /\ new.state = want.state
  BY <1>3, <1>4, ChangedRow DEF TablesInv
<1> HIDE DEF new, want
<1>6. /\ table' \in Seq(Rows) /\ Len(table') = Len(table) /\ DOMAIN table' = DOMAIN table
      /\ asked' \in Seq(Rows) /\ Len(asked') = Len(asked)
      /\ table'[id] = new /\ asked'[id] = want
      /\ \A i \in DOMAIN table : i # id => table'[i] = table[i] /\ asked'[i] = asked[i]
      /\ \A i \in DOMAIN table : table'[i].key = table[i].key
  BY <1>1, <1>2, <1>3, <1>5
<1>7. /\ tcall' \in [Callers -> TableCalls]
      /\ \A d \in Callers : tcall'[d].at # "idle" => d # c /\ tcall'[d] = tcall[d]
  BY <1>1, <1>2, NoRowType
<1>8. TablesTypes'
  BY <1>1, <1>2, <1>6, <1>7 DEF TablesTypes
<1>9. CallsKnowTheirRow'
  <2>1. \A i \in DOMAIN table : table'[i].ver <= writes + 1
    <3> SUFFICES ASSUME NEW i \in DOMAIN table PROVE table'[i].ver <= writes + 1
      OBVIOUS
    <3>1. table[i] \in Rows /\ table[i].ver <= writes
      BY <1>2 DEF TablesInv, CallsKnowTheirRow
    <3>2. table[i].ver \in Nat
      BY <3>1 DEF Rows
    <3> QED BY <3>1, <3>2, <1>2, <1>5, <1>6
  <2>2. ASSUME NEW d \in Callers, Saving(d)', tcall'[d].id # 0
        PROVE  /\ tcall'[d].id \in DOMAIN table
               /\ tcall'[d].row.ver <= writes + 1
               /\ tcall'[d].row.key = table'[tcall'[d].id].key
               /\ tcall'[d].row.ver = table'[tcall'[d].id].ver => tcall'[d].row = table'[tcall'[d].id]
    <3>1. tcall'[d] = tcall[d] /\ Saving(d) /\ tcall[d].id # 0
      BY <2>2, <1>7 DEF Saving
    <3>2. /\ tcall[d].id \in DOMAIN table /\ tcall[d].row.ver <= writes /\ tcall[d].row.ver \in Nat
          /\ tcall[d].row.key = table[tcall[d].id].key
          /\ tcall[d].row.ver = table[tcall[d].id].ver => tcall[d].row = table[tcall[d].id]
      BY <3>1, <1>2 DEF TablesInv, CallsKnowTheirRow, TableCalls, Rows
    <3>3. CASE tcall[d].id = id
      BY <3>1, <3>2, <3>3, <1>2, <1>5, <1>6
    <3>4. CASE tcall[d].id # id
      BY <3>1, <3>2, <3>4, <1>2, <1>6
    <3> QED BY <3>3, <3>4
  <2> QED BY <2>1, <2>2, <1>1, <1>6 DEF CallsKnowTheirRow
<1>10. RowsAreAsAsked'
  <2> SUFFICES ASSUME NEW i \in DOMAIN table, i \notin stale'
               PROVE  table'[i].cols = asked'[i].cols /\ table'[i].state = asked'[i].state
    BY <1>6 DEF RowsAreAsAsked
  <2>1. i \notin stale /\ table[i].cols = asked[i].cols /\ table[i].state = asked[i].state
    BY <1>1 DEF TablesInv, RowsAreAsAsked
  <2>2. CASE i # id
    BY <2>1, <2>2, <1>6
  <2>3. CASE i = id
    <3>1. k.row = table[id]
      BY <2>3, <1>1, <1>3
    <3> QED BY <3>1, <2>1, <2>3, <1>5, <1>6
  <2> QED BY <2>2, <2>3
<1>11. UpsertsLookFirst'
  <2>1. ASSUME Unguarded
        PROVE  new.state = "live" /\ \A i \in DOMAIN table : table'[i].state = "live"
    <3>1. client.ops \cap {"create", "delete"} = {}
      BY <2>1, <1>2, ClientsAssumption DEF Unguarded
    <3>2. k.op # "delete"
      BY <3>1, <1>1 DEF TablesInv, UpsertsLookFirst, Saving
    <3>3. k.row.state = "live" /\ \A i \in DOMAIN table : table[i].state = "live"
      BY <2>1, <1>1 DEF TablesInv, UpsertsLookFirst
    <3> QED BY <3>2, <3>3, <1>5, <1>6
  <2>2. \A d \in Callers : /\ tcall'[d].at # "idle" => tcall'[d].op \in client.ops
                           /\ Saving(d)' /\ tcall'[d].id = 0 => tcall'[d].op \in {"create", "upsert"}
    BY <1>7 DEF TablesInv, UpsertsLookFirst, Saving
  <2>3. ASSUME Unguarded, NEW d \in Callers, Saving(d)'
        PROVE  IF tcall'[d].id # 0 THEN tcall'[d].row.state = "live"
               ELSE \A i \in tcall'[d].seen : i \in DOMAIN table /\ table'[i].key # tcall'[d].key
    <3>1. tcall'[d] = tcall[d] /\ Saving(d)
      BY <2>3, <1>7 DEF Saving
    <3> QED BY <3>1, <2>3, <1>6 DEF TablesInv, UpsertsLookFirst
  <2> QED BY <2>1, <2>2, <2>3, <1>1, <1>6 DEF UpsertsLookFirst, Unguarded
<1>12. OneLiveRow'
  <2> SUFFICES ASSUME "upsert" \in client.ops, NEW i \in DOMAIN table, NEW j \in DOMAIN table,
                      table'[i].state = "live", table'[j].state = "live",
                      table'[i].key = table'[j].key, i # j
               PROVE  ~client.unique /\ table'[i].key \in stale'
    BY <1>1, <1>6 DEF OneLiveRow
  <2>1. table[i].key = table[j].key /\ table'[i].key = table[i].key
    BY <1>6
  <2>2. stale \subseteq stale'
    BY <1>1
  <2>3. CASE ~client.unique
    <3>1. table[i].state = "live" /\ table[j].state = "live"
      BY <2>3 DEF TablesInv, UpsertsLookFirst, Unguarded
    <3> QED BY <3>1, <2>1, <2>2, <2>3 DEF TablesInv, OneLiveRow
  <2>4. CASE client.unique
    <3>1. new.state = "live" => LiveRows(new.key) \subseteq {id}
      BY <2>4, <1>1 DEF Unique
    <3>2. i # id /\ j # id
      BY <3>1, <2>1, <1>5, <1>6 DEF LiveRows
    <3> QED BY <3>2, <2>1, <2>4, <1>6 DEF TablesInv, OneLiveRow
  <2> QED BY <2>3, <2>4
<1> QED BY <1>8, <1>9, <1>10, <1>11, <1>12 DEF TablesInv

LEMMA RowIsInserted ==
  ASSUME TablesInv, NEW c \in Callers, SaveNew(c)
  PROVE  TablesInv'
<1> DEFINE k == tcall[c]
           new == Fresh(tcall[c])
           n == Len(table) + 1
<1>1. /\ Saving(c) /\ k.id = 0 /\ Unique(0, new)
      /\ table' = Append(table, new) /\ asked' = Append(asked, new)
      /\ writes' = writes + 1
      /\ stale' = IF LiveRows(k.key) \subseteq k.seen THEN stale ELSE stale \cup {k.key}
      /\ tcall' = [tcall EXCEPT ![c] = NoTableCall]
      /\ UNCHANGED client
  BY DEF SaveNew, EndCall, Saving
<1>2. /\ tcall \in [Callers -> TableCalls] /\ table \in Seq(Rows) /\ asked \in Seq(Rows)
      /\ DOMAIN table = 1..Len(table) /\ Len(asked) = Len(table) /\ DOMAIN asked = DOMAIN table
      /\ Len(table) \in Nat /\ writes \in Nat /\ client \in Clients
  BY DEF TablesInv, TablesTypes
<1>3. new \in Rows /\ new.key = k.key /\ new.ver = writes + 1 /\ new.state = "live"
  BY <1>2 DEF Fresh, Rows, TableCalls
<1> HIDE DEF new
<1>4. /\ table' \in Seq(Rows) /\ Len(table') = n /\ DOMAIN table' = DOMAIN table \cup {n}
      /\ asked' \in Seq(Rows) /\ Len(asked') = n /\ n \notin DOMAIN table
      /\ table'[n] = new /\ asked'[n] = new
      /\ \A i \in DOMAIN table : table'[i] = table[i] /\ asked'[i] = asked[i]
  BY <1>1, <1>2, <1>3
<1>5. /\ tcall' \in [Callers -> TableCalls]
      /\ \A d \in Callers : tcall'[d].at # "idle" => d # c /\ tcall'[d] = tcall[d]
  BY <1>1, <1>2, NoRowType
<1>6. TablesTypes'
  BY <1>1, <1>2, <1>4, <1>5 DEF TablesTypes
<1>7. CallsKnowTheirRow'
  <2>1. \A i \in DOMAIN table' : table'[i].ver <= writes + 1
    <3> SUFFICES ASSUME NEW i \in DOMAIN table' PROVE table'[i].ver <= writes + 1
      OBVIOUS
    <3>1. CASE i \in DOMAIN table
      <4>1. table[i] \in Rows /\ table[i].ver <= writes
        BY <3>1, <1>2 DEF TablesInv, CallsKnowTheirRow
      <4>2. table[i].ver \in Nat
        BY <4>1 DEF Rows
      <4> QED BY <4>1, <4>2, <3>1, <1>2, <1>4
    <3>2. CASE i = n
      BY <3>2, <1>2, <1>3, <1>4
    <3> QED BY <3>1, <3>2, <1>4
  <2>2. ASSUME NEW d \in Callers, Saving(d)', tcall'[d].id # 0
        PROVE  /\ tcall'[d].id \in DOMAIN table
               /\ tcall'[d].row.ver <= writes + 1
               /\ tcall'[d].row.key = table'[tcall'[d].id].key
               /\ tcall'[d].row.ver = table'[tcall'[d].id].ver => tcall'[d].row = table'[tcall'[d].id]
    <3>1. tcall'[d] = tcall[d] /\ Saving(d) /\ tcall[d].id # 0
      BY <2>2, <1>5 DEF Saving
    <3>2. /\ tcall[d].id \in DOMAIN table /\ tcall[d].row.ver <= writes /\ tcall[d].row.ver \in Nat
          /\ tcall[d].row.key = table[tcall[d].id].key
          /\ tcall[d].row.ver = table[tcall[d].id].ver => tcall[d].row = table[tcall[d].id]
      BY <3>1, <1>2 DEF TablesInv, CallsKnowTheirRow, TableCalls, Rows
    <3> QED BY <3>1, <3>2, <1>2, <1>4
  <2> QED BY <2>1, <2>2, <1>1, <1>4 DEF CallsKnowTheirRow
<1>8. RowsAreAsAsked'
  <2>1. stale \subseteq stale'
    BY <1>1
  <2> QED BY <2>1, <1>4 DEF TablesInv, RowsAreAsAsked
<1>9. UpsertsLookFirst'
  <2>1. \A d \in Callers : /\ tcall'[d].at # "idle" => tcall'[d].op \in client.ops
                           /\ Saving(d)' /\ tcall'[d].id = 0 => tcall'[d].op \in {"create", "upsert"}
    BY <1>5 DEF TablesInv, UpsertsLookFirst, Saving
  <2>2. Unguarded => \A i \in DOMAIN table' : table'[i].state = "live"
    BY <1>3, <1>4 DEF TablesInv, UpsertsLookFirst
  <2>3. ASSUME Unguarded, NEW d \in Callers, Saving(d)'
        PROVE  IF tcall'[d].id # 0 THEN tcall'[d].row.state = "live"
               ELSE \A i \in tcall'[d].seen : i \in DOMAIN table' /\ table'[i].key # tcall'[d].key
    <3>1. tcall'[d] = tcall[d] /\ Saving(d)
      BY <2>3, <1>5 DEF Saving
    <3> QED BY <3>1, <2>3, <1>4 DEF TablesInv, UpsertsLookFirst
  <2> QED BY <2>1, <2>2, <2>3, <1>1 DEF UpsertsLookFirst, Unguarded
<1>10. OneLiveRow'
  <2>1. stale \subseteq stale'
    BY <1>1
  <2>2. ASSUME "upsert" \in client.ops, NEW i \in DOMAIN table, table[i].state = "live",
               table[i].key = k.key
        PROVE  ~client.unique /\ k.key \in stale'
    <3>1. i \in LiveRows(k.key)
      BY <2>2 DEF LiveRows
    <3>2. ~client.unique
      BY <3>1, <1>1, <1>2, <1>3 DEF Unique
    <3>3. client.ops \cap {"create", "delete"} = {}
      BY <2>2, <3>2, <1>2, ClientsAssumption
    <3>4. i \notin k.seen
      BY <2>2, <3>2, <1>1 DEF TablesInv, UpsertsLookFirst, Unguarded
    <3> QED BY <3>1, <3>2, <3>4, <1>1
  <2> SUFFICES ASSUME "upsert" \in client.ops, NEW i \in DOMAIN table', NEW j \in DOMAIN table',
                      table'[i].state = "live", table'[j].state = "live",
                      table'[i].key = table'[j].key, i # j
               PROVE  ~client.unique /\ table'[i].key \in stale'
    BY <1>1 DEF OneLiveRow
  <2>3. CASE i \in DOMAIN table /\ j \in DOMAIN table
    BY <2>1, <2>3, <1>4 DEF TablesInv, OneLiveRow
  <2>4. CASE i = n /\ j \in DOMAIN table
    BY <2>2, <2>4, <1>3, <1>4
  <2>5. CASE i \in DOMAIN table /\ j = n
    BY <2>2, <2>5, <1>3, <1>4
  <2> QED BY <2>3, <2>4, <2>5, <1>4
<1> QED BY <1>6, <1>7, <1>8, <1>9, <1>10 DEF TablesInv

LEMMA TablesInvNext == TablesInv /\ [TablesNext]_tableVars => TablesInv'
<1> SUFFICES ASSUME TablesInv, [TablesNext]_tableVars
             PROVE  TablesInv'
  OBVIOUS
<1>1. tcall \in [Callers -> TableCalls] /\ DOMAIN table \subseteq Nat /\ table \in Seq(Rows)
  BY DEF TablesInv, TablesTypes
<1>2. \A c \in Callers : tcall[c].at # "idle" => tcall[c].op \in client.ops
  BY DEF TablesInv, UpsertsLookFirst
<1>3. ASSUME NEW c \in Callers, NEW kind \in Ops, NEW id \in Nat, NEW theKey \in Keys,
             NEW col \in Columns, TableCall(c, kind, id, theKey, col)
      PROVE  TablesInv'
  <2> DEFINE new == [NoTableCall EXCEPT !.at = "connect", !.op = kind, !.id = id, !.key = theKey, !.col = col]
  <2>1. /\ kind \in client.ops /\ UNCHANGED <<client, table, writes, asked, stale>>
        /\ tcall' = [tcall EXCEPT ![c] = new]
    BY <1>3 DEF TableCall, rowVars
  <2>2. new \in TableCalls /\ new.at = "connect" /\ new.op = kind
    BY NoRowType DEF TableCalls
  <2> HIDE DEF new
  <2>3. tcall' \in [Callers -> TableCalls] /\ \A d \in Callers : tcall'[d] = IF d = c THEN new ELSE tcall[d]
    BY <1>1, <2>1, <2>2
  <2> QED BY <1>2, <2>1, <2>2, <2>3, CallsMove
<1>4. ASSUME NEW c \in Callers, Connect(c)
      PROVE  TablesInv'
  <2> DEFINE at == IF source = "ready" THEN "find" ELSE "wait"
             new == [tcall[c] EXCEPT !.at = at]
  <2>1. /\ UNCHANGED <<client, table, writes, asked, stale>> /\ tcall[c].at = "connect"
        /\ tcall' = [tcall EXCEPT ![c] = new]
    BY <1>4 DEF Connect, rowVars
  <2>2. new \in TableCalls /\ new.at \in {"find", "wait"} /\ new.op = tcall[c].op
    BY <1>1 DEF TableCalls
  <2> HIDE DEF new
  <2>3. tcall' \in [Callers -> TableCalls] /\ \A d \in Callers : tcall'[d] = IF d = c THEN new ELSE tcall[d]
    BY <1>1, <2>1, <2>2
  <2> QED BY <1>2, <2>1, <2>2, <2>3, CallsMove
<1>5. ASSUME NEW ok \in BOOLEAN, Initialized(ok)
      PROVE  TablesInv'
  <2>1. UNCHANGED <<client, table, writes, asked, stale>>
    BY <1>5 DEF Initialized, rowVars
  <2>2. ASSUME NEW d \in Callers
        PROVE  /\ tcall'[d] \in TableCalls
               /\ tcall'[d].at = "save" => tcall'[d] = tcall[d]
               /\ tcall'[d].at # "idle" => tcall'[d].op \in client.ops
    <3>1. \/ tcall'[d] = tcall[d]
          \/ tcall[d].at = "wait" /\ tcall'[d] = [tcall[d] EXCEPT !.at = "find"]
          \/ tcall'[d] = NoTableCall
      BY <1>5 DEF Initialized
    <3>2. tcall[d] \in TableCalls
      BY <1>1
    <3>3. LET new == [tcall[d] EXCEPT !.at = "find"] IN
          new \in TableCalls /\ new.at = "find" /\ new.op = tcall[d].op
      BY <3>2 DEF TableCalls
    <3> QED BY <3>1, <3>2, <3>3, <1>2, NoRowType
  <2>3. tcall' \in [Callers -> TableCalls]
    BY <2>2, <1>5 DEF Initialized
  <2> QED BY <2>1, <2>2, <2>3, CallsMove
<1>6. CASE Disconnect
  <2>1. UNCHANGED <<client, table, writes, asked, stale>> /\ tcall' = [c \in Callers |-> NoTableCall]
    BY <1>6 DEF Disconnect, rowVars
  <2> QED BY <2>1, NoRowType, CallsMove
<1>7. ASSUME NEW c \in Callers, Refused(c)
      PROVE  TablesInv'
  BY <1>7, CallEnds DEF Refused, EndCall, rowVars
<1>8. CASE UNCHANGED tableVars
  BY <1>8 DEF tableVars, TablesInv, TablesTypes, CallsKnowTheirRow, RowsAreAsAsked,
              UpsertsLookFirst, OneLiveRow, Unguarded, Saving
<1>9. ASSUME NEW c \in Callers, NEW theKey \in Keys, NEW x \in Columns,
             NEW kind \in {"find", "create", "upsert"}, TableCall(c, kind, 0, theKey, x)
      PROVE  TablesInv'
  BY <1>3, <1>9 DEF Ops
<1>10. ASSUME NEW c \in Callers, NEW i \in DOMAIN table, NEW x \in Columns,
              NEW kind \in {"update", "delete"}, TableCall(c, kind, i, table[i].key, x)
       PROVE  TablesInv'
  <2>1. table[i] \in Rows
    BY <1>1
  <2>2. table[i].key \in Keys /\ i \in Nat /\ kind \in Ops
    BY <2>1, <1>1 DEF Rows, Ops
  <2> QED BY <1>3, <1>10, <2>2
<1> QED
  BY <1>4, <1>5, <1>6, <1>7, <1>8, <1>9, <1>10, TableRowIsFound, TableRowIsSaved, RowIsInserted DEF TablesNext

\* The types of rows and calls, what a call knows of its row, and what the
\* absence of a row meant when an upsert looked for it.
THEOREM TablesInOrder == TablesSpec => []TablesInv
BY TablesInvInit, TablesInvNext, PTL DEF TablesSpec

\* However many calls of the library overlap, on whatever entity, a row that no
\* save has overtaken is as its callers asked.
THEOREM RowsFollowTheirCalls == TablesSpec => []RowsAreAsAsked
<1>1. TablesInv => RowsAreAsAsked
  BY DEF TablesInv
<1> QED BY <1>1, TablesInOrder, PTL

LEMMA TablesInvOneRow == TablesInv => OneRowPerKey
<1> SUFFICES ASSUME TablesInv, "upsert" \in client.ops, NEW theKey \in Keys,
                    ~(~client.unique /\ theKey \in stale)
             PROVE  ~(Cardinality(LiveRows(theKey)) > 1)
  BY DEF OneRowPerKey
<1>1. \A i, j \in LiveRows(theKey) : i = j
  BY DEF TablesInv, OneLiveRow, LiveRows
<1>2. LiveRows(theKey) = {} \/ \E i : LiveRows(theKey) = {i}
  BY <1>1
<1>3. Cardinality({}) = 0 /\ \A i : Cardinality({i}) = 1
  BY FS_EmptySet, FS_Singleton
<1>4. Cardinality(LiveRows(theKey)) \in {0, 1}
  BY <1>2, <1>3
<1> QED BY <1>4

\* A key has a second row only where no index guards it and an upsert did not see
\* the row that another one was creating.
THEOREM KeysHaveOneRow == TablesSpec => []OneRowPerKey
BY TablesInvOneRow, TablesInOrder, PTL

Within(cols, n) == \A x \in Columns : cols[x] <= n
TablesBounds ==
  /\ source \in {"none", "starting", "ready"} /\ writes <= MaxWrites
  /\ stale \subseteq Keys \cup (1..MaxRows) /\ Len(table) <= MaxRows
  /\ \A i \in DOMAIN table : table[i].ver \in 1..writes /\ Within(table[i].cols, writes)
  /\ \A c \in Callers : Saving(c) /\ tcall[c].id # 0 => Within(tcall[c].row.cols, writes)

LEMMA BoundsStay ==
  ASSUME TablesBounds, UNCHANGED rowVars, source' \in {"none", "starting", "ready"},
         \A c \in Callers : Saving(c)' /\ tcall'[c].id # 0 =>
           \/ Saving(c) /\ tcall'[c] = tcall[c]
           \/ tcall'[c].id \in DOMAIN table /\ tcall'[c].row = table[tcall'[c].id]
  PROVE  TablesBounds'
BY DEF TablesBounds, rowVars

LEMMA BoundsLater ==
  ASSUME NEW cols \in [Columns -> Nat], NEW n \in Nat, Within(cols, n) PROVE Within(cols, n + 1)
BY DEF Within

LEMMA BoundsOfARow ==
  ASSUME NEW cols \in [Columns -> Nat], NEW n \in Nat, Within(cols, n), NEW x \in Columns,
         NEW new, new = [cols EXCEPT ![x] = n + 1]
  PROVE  Within(new, n + 1)
BY DEF Within

LEMMA RowLater ==
  ASSUME NEW r \in Rows, NEW n \in Nat, r.ver \in 1..n, Within(r.cols, n)
  PROVE  r.ver \in 1..(n + 1) /\ Within(r.cols, n + 1)
<1>1. PICK cols : cols = r.cols
  OBVIOUS
<1>2. cols \in [Columns -> Nat] /\ Within(cols, n)
  BY <1>1 DEF Rows
<1> QED BY <1>1, <1>2, BoundsLater

LEMMA SaveFoundBounds ==
  ASSUME TablesInv, TablesBounds, NEW c \in Callers, SaveFound(c) PROVE TablesBounds'
<1>1. /\ tcall \in [Callers -> TableCalls] /\ table \in Seq(Rows) /\ writes \in Nat
      /\ DOMAIN table = 1..Len(table) /\ Len(table) \in Nat
  BY DEF TablesInv, TablesTypes
<1>2. PICK k, i, r : k = tcall[c] /\ i = k.id /\ r = Changed(k, k.row)
  OBVIOUS
<1>3. /\ Saving(c) /\ i # 0 /\ writes < MaxWrites /\ writes' = writes + 1 /\ UNCHANGED <<client, source>>
      /\ table' = [table EXCEPT ![i] = r] /\ tcall' = [tcall EXCEPT ![c] = NoTableCall]
      /\ stale' = stale \/ stale' = stale \cup {i}
  BY <1>2 DEF SaveFound, EndCall, Saving
<1>4. i \in DOMAIN table /\ k \in TableCalls /\ k.row \in Rows /\ Within(k.row.cols, writes)
  BY <1>1, <1>2, <1>3 DEF TablesInv, CallsKnowTheirRow, TablesBounds, TableCalls
<1>5. r.ver = writes + 1 /\ (r.cols = k.row.cols \/ r.cols = [k.row.cols EXCEPT ![k.col] = writes + 1])
  BY <1>2, <1>4 DEF Changed, Rows
<1>6. Within(r.cols, writes + 1)
  <2>1. PICK cols, x : cols = k.row.cols /\ x = k.col
    OBVIOUS
  <2>2. cols \in [Columns -> Nat] /\ x \in Columns /\ Within(cols, writes)
    BY <1>4, <2>1 DEF Rows, TableCalls
  <2>3. CASE r.cols = cols
    BY <1>1, <2>2, <2>3, BoundsLater
  <2>4. CASE r.cols = [cols EXCEPT ![x] = writes + 1]
    BY <1>1, <2>2, <2>4, BoundsOfARow
  <2> QED BY <1>5, <2>1, <2>3, <2>4
<1>7. /\ DOMAIN table' = DOMAIN table /\ Len(table') = Len(table)
      /\ table'[i] = r /\ \A j \in DOMAIN table : j # i => table'[j] = table[j]
  BY <1>1, <1>3, <1>4
<1>8. ASSUME NEW j \in DOMAIN table PROVE table'[j].ver \in 1..(writes + 1) /\ Within(table'[j].cols, writes + 1)
  <2>1. CASE j = i
    BY <1>1, <1>5, <1>6, <1>7, <2>1
  <2>2. CASE j # i
    <3>1. table[j] \in Rows /\ table[j].ver \in 1..writes /\ Within(table[j].cols, writes)
      BY <1>1 DEF TablesBounds
    <3> QED BY <1>1, <1>7, <2>2, <3>1, RowLater
  <2> QED BY <2>1, <2>2
<1>9. ASSUME NEW d \in Callers, Saving(d)', tcall'[d].id # 0 PROVE Within(tcall'[d].row.cols, writes + 1)
  <2>1. tcall'[d] = tcall[d] /\ Saving(d)
    BY <1>1, <1>3, <1>9 DEF Saving, NoTableCall
  <2>2. tcall[d].row.cols \in [Columns -> Nat]
    BY <1>1 DEF TableCalls, Rows
  <2>3. Within(tcall[d].row.cols, writes)
    BY <1>9, <2>1 DEF TablesBounds
  <2> QED BY <1>1, <2>1, <2>2, <2>3, BoundsLater
<1>10. i \in 1..MaxRows
  BY <1>1, <1>4, EntityAssumption DEF TablesBounds
<1>11. writes + 1 <= MaxWrites
  BY <1>1, <1>3, EntityAssumption
<1> QED BY <1>3, <1>7, <1>8, <1>9, <1>10, <1>11 DEF TablesBounds

LEMMA SaveNewBounds ==
  ASSUME TablesInv, TablesBounds, NEW c \in Callers, SaveNew(c) PROVE TablesBounds'
<1>1. /\ tcall \in [Callers -> TableCalls] /\ table \in Seq(Rows) /\ writes \in Nat
      /\ DOMAIN table = 1..Len(table) /\ Len(table) \in Nat
  BY DEF TablesInv, TablesTypes
<1>2. PICK k, r : k = tcall[c] /\ r = Fresh(k)
  OBVIOUS
<1>3. /\ writes < MaxWrites /\ writes' = writes + 1 /\ UNCHANGED <<client, source>> /\ Len(table) < MaxRows
      /\ table' = Append(table, r) /\ tcall' = [tcall EXCEPT ![c] = NoTableCall]
      /\ stale' = stale \/ stale' = stale \cup {k.key}
  BY <1>2 DEF SaveNew, EndCall
<1>4. k \in TableCalls /\ k.key \in Keys /\ k.col \in Columns
  BY <1>1, <1>2 DEF TableCalls
<1>5. r.ver = writes + 1 /\ r.cols = [x \in Columns |-> IF x = k.col THEN writes + 1 ELSE 0]
  BY <1>2 DEF Fresh
<1>6. Within(r.cols, writes + 1) /\ r \in Rows
  <2>1. Within(r.cols, writes + 1)
    BY <1>1, <1>5 DEF Within
  <2>2. r \in Rows
    BY <1>1, <1>2, <1>4 DEF Fresh, Rows
  <2> QED BY <2>1, <2>2
<1>7. /\ DOMAIN table' = 1..(Len(table) + 1) /\ Len(table') = Len(table) + 1
      /\ table'[Len(table) + 1] = r /\ \A j \in DOMAIN table : table'[j] = table[j]
  BY <1>1, <1>3, <1>6
<1>8. ASSUME NEW j \in DOMAIN table' PROVE table'[j].ver \in 1..(writes + 1) /\ Within(table'[j].cols, writes + 1)
  <2>1. CASE j = Len(table) + 1
    BY <1>1, <1>5, <1>6, <1>7, <2>1
  <2>2. CASE j \in DOMAIN table
    <3>1. table[j] \in Rows /\ table[j].ver \in 1..writes /\ Within(table[j].cols, writes)
      BY <1>1, <2>2 DEF TablesBounds
    <3> QED BY <1>1, <1>7, <2>2, <3>1, RowLater
  <2> QED BY <1>1, <1>7, <2>1, <2>2
<1>9. ASSUME NEW d \in Callers, Saving(d)', tcall'[d].id # 0 PROVE Within(tcall'[d].row.cols, writes + 1)
  <2>1. tcall'[d] = tcall[d] /\ Saving(d)
    BY <1>1, <1>3, <1>9 DEF Saving, NoTableCall
  <2>2. tcall[d].row.cols \in [Columns -> Nat]
    BY <1>1 DEF TableCalls, Rows
  <2>3. Within(tcall[d].row.cols, writes)
    BY <1>9, <2>1 DEF TablesBounds
  <2> QED BY <1>1, <2>1, <2>2, <2>3, BoundsLater
<1>10. Len(table') <= MaxRows
  BY <1>1, <1>3, <1>7, EntityAssumption
<1>11. writes + 1 <= MaxWrites
  BY <1>1, <1>3, EntityAssumption
<1> QED BY <1>3, <1>4, <1>8, <1>9, <1>10, <1>11 DEF TablesBounds

LEMMA BoundsNext == TablesInv /\ TablesBounds /\ [TablesNext]_tableVars => TablesBounds'
<1> SUFFICES ASSUME TablesInv, TablesBounds, [TablesNext]_tableVars PROVE TablesBounds'
  OBVIOUS
<1>1. tcall \in [Callers -> TableCalls] /\ source \in {"none", "starting", "ready"}
  BY DEF TablesInv, TablesTypes, TablesBounds
<1>2. ASSUME NEW c \in Callers, UNCHANGED rowVars, source' \in {"none", "starting", "ready"},
             \A d \in Callers : d # c => tcall'[d] = tcall[d],
             Saving(c)' /\ tcall'[c].id # 0 => tcall'[c].id \in DOMAIN table /\ tcall'[c].row = table[tcall'[c].id]
      PROVE  TablesBounds'
  <2>1. \A d \in Callers : Saving(d)' /\ tcall'[d].id # 0 =>
           \/ Saving(d) /\ tcall'[d] = tcall[d]
           \/ tcall'[d].id \in DOMAIN table /\ tcall'[d].row = table[tcall'[d].id]
    BY <1>2 DEF Saving
  <2> QED BY <1>2, <2>1, BoundsStay
<1>3. ASSUME NEW c \in Callers, NEW kind, NEW id, NEW theKey, NEW x, TableCall(c, kind, id, theKey, x)
      PROVE  TablesBounds'
  <2>1. UNCHANGED rowVars /\ source' = source
    BY <1>3 DEF TableCall
  <2>2. /\ \A d \in Callers : d # c => tcall'[d] = tcall[d]
        /\ tcall'[c].at = "connect"
    BY <1>1, <1>3 DEF TableCall, NoTableCall
  <2> QED BY <1>1, <1>2, <2>1, <2>2 DEF Saving
<1>4. ASSUME NEW c \in Callers, Connect(c) PROVE TablesBounds'
  <2>1. UNCHANGED rowVars /\ source' \in {"none", "starting", "ready"}
    BY <1>1, <1>4 DEF Connect
  <2>2. /\ \A d \in Callers : d # c => tcall'[d] = tcall[d]
        /\ tcall'[c].at # "save"
    BY <1>1, <1>4 DEF Connect, TableCalls
  <2> QED BY <1>2, <2>1, <2>2 DEF Saving
<1>5. ASSUME NEW c \in Callers, FindRow(c) PROVE TablesBounds'
  <2>1. UNCHANGED rowVars /\ source' = source
    BY <1>5 DEF FindRow
  <2>2. CASE tcall' = [tcall EXCEPT ![c] = NoTableCall]
    <3>1. /\ \A d \in Callers : d # c => tcall'[d] = tcall[d]
          /\ tcall'[c].at # "save"
      BY <1>1, <2>2 DEF NoTableCall
    <3> QED BY <1>1, <1>2, <2>1, <3>1 DEF Saving
  <2>3. ASSUME NEW id, NEW theRow, id # 0 => id \in DOMAIN table /\ theRow = table[id],
               tcall' = [tcall EXCEPT ![c].at = "save", ![c].id = id, ![c].row = theRow, ![c].seen = DOMAIN table]
        PROVE  TablesBounds'
    <3>1. /\ \A d \in Callers : d # c => tcall'[d] = tcall[d]
          /\ tcall'[c].id = id /\ tcall'[c].row = theRow
      BY <1>1, <2>3 DEF TableCalls
    <3> QED BY <1>1, <1>2, <2>1, <2>3, <3>1
  <2>4. LiveRows(tcall[c].key) \subseteq DOMAIN table
    BY DEF LiveRows
  <2>5. \/ tcall' = [tcall EXCEPT ![c] = NoTableCall]
        \/ tcall' = [tcall EXCEPT ![c].at = "save", ![c].id = 0, ![c].row = NoRow, ![c].seen = DOMAIN table]
        \/ \E id \in DOMAIN table :
             tcall' = [tcall EXCEPT ![c].at = "save", ![c].id = id, ![c].row = table[id], ![c].seen = DOMAIN table]
    BY <1>5, <2>4 DEF FindRow
  <2> QED BY <2>2, <2>3, <2>5
<1>6. ASSUME NEW c \in Callers, Refused(c) PROVE TablesBounds'
  <2>1. UNCHANGED rowVars /\ source' = source /\ tcall' = [tcall EXCEPT ![c] = NoTableCall]
    BY <1>6 DEF Refused, EndCall
  <2>2. /\ \A d \in Callers : d # c => tcall'[d] = tcall[d]
        /\ tcall'[c].at # "save"
    BY <1>1, <2>1 DEF NoTableCall
  <2> QED BY <1>1, <1>2, <2>1, <2>2 DEF Saving
<1>7. ASSUME NEW ok \in BOOLEAN, Initialized(ok) PROVE TablesBounds'
  <2>1. UNCHANGED rowVars /\ source' \in {"none", "starting", "ready"}
    BY <1>7 DEF Initialized
  <2>2. ASSUME NEW d \in Callers PROVE tcall'[d] = tcall[d] \/ tcall'[d].at # "save"
    BY <1>1, <1>7 DEF Initialized, TableCalls, NoTableCall
  <2> QED BY <2>1, <2>2, BoundsStay DEF Saving
<1>8. CASE Disconnect
  <2>1. UNCHANGED rowVars /\ source' = "none" /\ \A d \in Callers : tcall'[d].at # "save"
    BY <1>8 DEF Disconnect, NoTableCall
  <2> QED BY <2>1, BoundsStay DEF Saving
<1>9. CASE UNCHANGED tableVars
  <2>1. UNCHANGED rowVars /\ source' = source /\ tcall' = tcall
    BY <1>9 DEF tableVars, rowVars
  <2> QED BY <1>1, <2>1, BoundsStay DEF Saving
<1> QED BY <1>3, <1>4, <1>5, <1>6, <1>7, <1>8, <1>9, SaveFoundBounds, SaveNewBounds DEF TablesNext

LEMMA BoundsInit == TablesInit => TablesBounds
<1> SUFFICES ASSUME TablesInit PROVE TablesBounds
  OBVIOUS
<1>1. NoTableCall.at = "idle"
  BY DEF NoTableCall
<1>2. \A c \in Callers : ~Saving(c)
  BY <1>1 DEF TablesInit, Saving
<1> QED BY <1>2, EntityAssumption DEF TablesInit, TablesBounds

LEMMA RowWithin ==
  ASSUME NEW r \in Rows, NEW n \in Nat, NEW m \in Nat, n <= m, r.ver \in 1..n, Within(r.cols, n)
  PROVE  r \in [key : Keys, state : {"live", "deleted", "gone"}, cols : [Columns -> 0..m], ver : 1..m]
<1>1. PICK cols : cols = r.cols
  OBVIOUS
<1>2. cols \in [Columns -> 0..m]
  BY <1>1 DEF Rows, Within
<1> QED BY <1>1, <1>2 DEF Rows

\* Rows, calls and the history of saves stay within their bounds (db-clients.ts).
THEOREM TablesAreTyped == TablesSpec => []TablesTypeOK
<1>1. TablesInv /\ TablesBounds => TablesTypeOK
  <2> SUFFICES ASSUME TablesInv, TablesBounds PROVE TablesTypeOK
    OBVIOUS
  <2>1. writes \in Nat /\ MaxWrites \in Nat /\ writes <= MaxWrites /\ table \in Seq(Rows) /\ client \in Clients
    BY EntityAssumption DEF TablesInv, TablesTypes, TablesBounds
  <2>2. ASSUME NEW i \in DOMAIN table
        PROVE  table[i] \in [key : Keys, state : {"live", "deleted", "gone"}, cols : [Columns -> 0..MaxWrites],
                             ver : 1..MaxWrites]
    <3>1. table[i] \in Rows /\ table[i].ver \in 1..writes /\ Within(table[i].cols, writes)
      BY <2>1 DEF TablesBounds
    <3> QED BY <2>1, <3>1, RowWithin
  <2>3. \A c \in Callers : tcall[c].at \in {"idle", "connect", "wait", "find", "save"}
    BY DEF TablesInv, TablesTypes, TableCalls
  <2> QED BY <2>1, <2>2, <2>3 DEF TablesTypeOK, TablesBounds
<1> QED BY <1>1, BoundsInit, BoundsNext, TablesInOrder, PTL DEF TablesSpec

-----------------------------------------------------------------------------
(* Lists *)

\* How many indices in keep come before k.
Rank(keep, k) == Cardinality({j \in keep : j < k})

LEMMA RanksDiffer ==
  ASSUME NEW keep, keep \subseteq Nat, IsFiniteSet(keep)
  PROVE  /\ Cardinality(keep) \in Nat
         /\ \A k \in keep : Rank(keep, k) \in 0..(Cardinality(keep) - 1)
         /\ \A k, l \in keep : k < l => Rank(keep, k) < Rank(keep, l)
<1>1. Cardinality(keep) \in Nat
  BY FS_CardinalityType
<1>2. \A k \in Nat : IsFiniteSet({j \in keep : j < k}) /\ Rank(keep, k) \in Nat
  BY FS_Subset, FS_CardinalityType DEF Rank
<1>3. ASSUME NEW k \in keep PROVE Rank(keep, k) \in 0..(Cardinality(keep) - 1)
  <2> DEFINE before == {j \in keep : j < k}
  <2>1. before \subseteq keep \ {k}
    OBVIOUS
  <2>2. IsFiniteSet(keep \ {k}) /\ Cardinality(keep \ {k}) = Cardinality(keep) - 1
    BY FS_RemoveElement
  <2>3. Cardinality(before) <= Cardinality(keep) - 1
    BY <2>1, <2>2, FS_Subset
  <2>4. Rank(keep, k) = Cardinality(before) /\ Rank(keep, k) \in Nat
    BY <1>2 DEF Rank
  <2> QED BY <1>1, <2>3, <2>4
<1>4. ASSUME NEW k \in keep, NEW l \in keep, k < l PROVE Rank(keep, k) < Rank(keep, l)
  <2> DEFINE less == {j \in keep : j < k}
             more == {j \in keep : j < l}
  <2>1. less \subseteq more \ {k} /\ k \in more
    <3>1. \A j \in keep : j \in Nat
      OBVIOUS
    <3>2. \A j \in keep : j < k => j < l /\ j # k
      BY <1>4, <3>1
    <3>3. \A j \in less : j \in keep /\ j < k
      OBVIOUS
    <3>4. k \in more
      BY <1>4
    <3>5. \A j \in less : j \in more
      BY <3>2, <3>3
    <3> QED BY <3>2, <3>3, <3>4, <3>5
  <2>2. IsFiniteSet(more)
    BY <1>2
  <2>3. IsFiniteSet(more \ {k}) /\ Cardinality(more \ {k}) = Cardinality(more) - 1
    BY <2>1, <2>2, FS_RemoveElement
  <2>4. Cardinality(less) <= Cardinality(more) - 1
    BY <2>1, <2>3, FS_Subset
  <2>5. Rank(keep, k) = Cardinality(less) /\ Rank(keep, l) = Cardinality(more)
    BY DEF Rank
  <2>6. Rank(keep, k) \in Nat /\ Rank(keep, l) \in Nat
    BY <1>2
  <2> QED BY <2>4, <2>5, <2>6
<1> QED BY <1>1, <1>3, <1>4

IsChosen(list, s, keep) ==
  /\ DOMAIN list = 1..Cardinality(keep) /\ Cardinality(keep) \in Nat
  /\ \A n \in 1..Cardinality(keep) : \E k \in keep : list[n] = s[k]
  /\ \A k \in keep : \E n \in 1..Cardinality(keep) : list[n] = s[k]

\* A list that is chosen from another has the elements that were to be kept, in order.
LEMMA KeptElements ==
  ASSUME NEW s, NEW keep, keep \subseteq Nat, IsFiniteSet(keep)
  PROVE  IsChosen(Kept(s, keep), s, keep)
<1> DEFINE C == Cardinality(keep)
           rank == [k \in keep |-> Rank(keep, k)]
<1>1. C \in Nat /\ (\A k \in keep : Rank(keep, k) \in 0..(C - 1))
      /\ \A k, l \in keep : k < l => Rank(keep, k) < Rank(keep, l)
  BY RanksDiffer
<1>2. rank \in [keep -> 0..(C - 1)]
  BY <1>1
<1>3. ASSUME NEW k \in keep, NEW l \in keep, rank[k] = rank[l] PROVE k = l
  <2>1. k \in Nat /\ l \in Nat /\ rank[k] \in Nat /\ rank[l] \in Nat
    BY <1>1
  <2>2. ~(k < l) /\ ~(l < k)
    BY <1>1, <1>3, <2>1
  <2> QED BY <2>1, <2>2
<1>4. rank \in Injection(keep, 0..(C - 1))
  BY <1>2, <1>3 DEF Injection, IsInjective
<1>5. IsFiniteSet(0..(C - 1)) /\ Cardinality(0..(C - 1)) = C
  BY <1>1, FS_Interval
<1>6. rank \in Surjection(keep, 0..(C - 1))
  BY <1>4, <1>5, FS_Injection
<1>7. ASSUME NEW n \in 1..C PROVE \E k \in keep : Rank(keep, k) = n - 1
  <2>1. n - 1 \in 0..(C - 1)
    BY <1>1
  <2>2. PICK k \in keep : rank[k] = n - 1
    BY <1>6, <2>1 DEF Surjection
  <2> QED BY <2>2
<1>8. \A n \in 1..C : Kept(s, keep)[n] = s[CHOOSE k \in keep : Rank(keep, k) = n - 1]
  BY DEF Kept, Rank
<1>9. \A n \in 1..C : \E k \in keep : Kept(s, keep)[n] = s[k]
  BY <1>7, <1>8
<1>10. ASSUME NEW k \in keep PROVE \E n \in 1..C : Kept(s, keep)[n] = s[k]
  <2>1. Rank(keep, k) \in 0..(C - 1)
    BY <1>1
  <2> DEFINE n == Rank(keep, k) + 1
  <2>2. n \in 1..C /\ n - 1 = Rank(keep, k)
    BY <1>1, <2>1
  <2> HIDE DEF n
  <2>3. \A l \in keep : Rank(keep, l) = n - 1 => l = k
    BY <1>3, <2>2
  <2>4. (CHOOSE l \in keep : Rank(keep, l) = n - 1) = k
    BY <2>2, <2>3
  <2> QED BY <1>8, <2>2, <2>4
<1>11. DOMAIN Kept(s, keep) = 1..C
  BY DEF Kept
<1> QED BY <1>1, <1>9, <1>10, <1>11 DEF IsChosen

LEMMA KeptIsAList ==
  ASSUME NEW s, NEW keep, keep \subseteq Nat, IsFiniteSet(keep), NEW T, \A k \in keep : s[k] \in T
  PROVE  Kept(s, keep) \in Seq(T) /\ ToSet(Kept(s, keep)) = {s[k] : k \in keep}
<1>1. PICK list : list = Kept(s, keep)
  OBVIOUS
<1>2. IsChosen(list, s, keep) /\ list = [n \in 1..Cardinality(keep) |-> list[n]]
  <2>1. IsChosen(Kept(s, keep), s, keep)
    BY KeptElements
  <2>2. list = [n \in 1..Cardinality(keep) |->
           s[CHOOSE k \in keep : Cardinality({j \in keep : j < k}) = n - 1]]
    BY <1>1 DEF Kept
  <2> QED BY <1>1, <2>1, <2>2
<1>3. \A n \in 1..Cardinality(keep) : list[n] \in T
  BY <1>2 DEF IsChosen
<1>4. list \in Seq(T)
  BY <1>2, <1>3, IsASeq DEF IsChosen
<1>5. ToSet(list) = {s[k] : k \in keep}
  BY <1>2 DEF ToSet, IsChosen
<1> QED BY <1>1, <1>4, <1>5

(* The schema scripts *)

Schemas == {"public", "api", "admin", "runner"}
Made(m) == m.makes \cup m.fresh
\* The one migration that makes what has a name.
Maker ==
  [businesses |-> <<"app", 1>>, Subscription |-> <<"app", 3>>,
   GoogleBusinessConnection |-> <<"app", 4>>, GoogleBusinessReview |-> <<"app", 4>>,
   IDX_GoogleBusinessConnection |-> <<"app", 4>>, IDX_GoogleBusinessReview |-> <<"app", 4>>,
   SocialAccount |-> <<"app", 5>>, SocialPost |-> <<"app", 5>>, SocialPostMedia |-> <<"app", 5>>,
   AiGeneration |-> <<"app", 5>>, PublishingLog |-> <<"app", 5>>, McpApiKey |-> <<"app", 6>>,
   MobileApp |-> <<"app", 7>>, MobileAppStoreStatus |-> <<"app", 8>>, AiUsagePeriod |-> <<"app", 9>>,
   AiUsageEvent |-> <<"app", 9>>, AdminUser |-> <<"admin", 1>>, AdminAuditLog |-> <<"admin", 1>>,
   GOOGLE_REVIEW_REPLY |-> <<"runner", 1>>, PENDING_APPROVAL |-> <<"runner", 2>>,
   SOCIAL_POST_PUBLISH |-> <<"runner", 3>>, MOBILE_APP_GENERATION |-> <<"runner", 4>>]

LEMMA LegacyTables ==
  Legacy = {"User", "Business", "BusinessUser", "Website", "Product", "SocialMediaPost", "Template", "AgentTask"}
BY DEF Legacy, Moves

MigrationStands(d, i, m) ==
  /\ \A x \in Made(m) :
       x[1] \in Schemas /\ x[2] \in DOMAIN Maker /\ Maker[x[2]] = <<d, i>> /\ x[2] \notin Legacy
  /\ m.undo \subseteq Made(m)
  /\ \A x \in m.drops : x[2] \in Legacy

LEMMA DatabasesAre == Databases = {"app", "admin", "runner"}
BY DEF Databases, Migrations

LEMMA EnumValueIs ==
  ASSUME NEW type, NEW x, NEW m, m = EnumValue(type, x)
  PROVE  Made(m) = {<<"runner", x>>} /\ m.undo = {} /\ m.drops = {}
BY DEF EnumValue, Migration, Made

\* Each migration makes its own things, none of them a legacy table, drops legacy
\* tables only, and undoes only what it has made.
LEMMA MigrationFacts ==
  ASSUME NEW d \in Databases, NEW i \in DOMAIN Migrations[d], NEW m, m = Migrations[d][i]
  PROVE  MigrationStands(d, i, m)
<1>1. CASE d = "admin"
  <2>1. i = 1 /\ m = AddAdminUsersAndAuditLogs
    BY <1>1 DEF Migrations
  <2>2. Made(m) = {<<"admin", "AdminUser">>, <<"admin", "AdminAuditLog">>} /\ m.undo = Made(m) /\ m.drops = {}
    BY <2>1 DEF AddAdminUsersAndAuditLogs, Migration, Made
  <2> QED BY <1>1, <2>1, <2>2, LegacyTables DEF MigrationStands, Schemas, Maker
<1>2. CASE d = "runner"
  <2>1. \/ i = 1 /\ m = AddGoogleReviewReplyTaskType
        \/ i = 2 /\ m = AddPendingApprovalTaskStatus
        \/ i = 3 /\ m = AddSocialPostPublishTaskType
        \/ i = 4 /\ m = AddMobileAppGenerationTaskType
    BY <1>2 DEF Migrations
  <2>2. PICK x, type : m = EnumValue(type, x) /\ x \in DOMAIN Maker /\ Maker[x] = <<"runner", i>>
    <3>1. CASE i = 1
      BY <2>1, <3>1 DEF AddGoogleReviewReplyTaskType, Maker
    <3>2. CASE i = 2
      BY <2>1, <3>2 DEF AddPendingApprovalTaskStatus, Maker
    <3>3. CASE i = 3
      BY <2>1, <3>3 DEF AddSocialPostPublishTaskType, Maker
    <3>4. CASE i = 4
      BY <2>1, <3>4 DEF AddMobileAppGenerationTaskType, Maker
    <3> QED BY <2>1, <3>1, <3>2, <3>3, <3>4
  <2>3. Made(m) = {<<"runner", x>>} /\ m.undo = {} /\ m.drops = {}
    BY <2>2, EnumValueIs
  <2>4. \A y \in Legacy : y \notin DOMAIN Maker
    BY LegacyTables DEF Maker
  <2>5. x \notin Legacy
    BY <2>2, <2>4
  <2> QED BY <1>2, <2>2, <2>3, <2>5 DEF MigrationStands, Schemas
<1>3. CASE d = "app"
  <2>1. \/ i = 1 /\ m = CreateApiBusinessesTable
        \/ i = 2 /\ m = FixBusinessTableName
        \/ i = 3 /\ m = AddAdminControlFields
        \/ i = 4 /\ m = CreateGoogleBusinessReviewTables
        \/ i = 5 /\ m = CreateSocialMediaAgentTables
        \/ i = 6 /\ m = CreateMcpApiKeyTable
        \/ i = 7 /\ m = CreateMobileAppTable
        \/ i = 8 /\ m = AddMobileAppStoreFields
        \/ i = 9 /\ m = AddAiUsageQuotas
    BY <1>3 DEF Migrations
  <2>2. ASSUME NEW names, Made(m) = Api(names), m.undo = Made(m), \A x \in m.drops : x[2] \in Legacy,
               \A x \in names : x \in DOMAIN Maker /\ Maker[x] = <<"app", i>> /\ x \notin Legacy
        PROVE  MigrationStands(d, i, m)
    BY <1>3, <2>2 DEF MigrationStands, Schemas, Api
  <2>3. CASE i = 1 /\ m = CreateApiBusinessesTable
    <3> DEFINE names == {"businesses"}
    <3>1. Made(m) = Api(names) /\ m.undo = Made(m) /\ m.drops = {}
      BY <2>3 DEF CreateApiBusinessesTable, Migration, Made, Api
    <3>2. \A x \in names : x \in DOMAIN Maker /\ Maker[x] = <<"app", i>> /\ x \notin Legacy
      BY <2>3, LegacyTables DEF Maker
    <3> QED BY <2>2, <3>1, <3>2
  <2>4. CASE i = 2 /\ m = FixBusinessTableName
    <3> DEFINE names == {}
    <3>1. Made(m) = Api(names) /\ m.undo = Made(m) /\ m.drops = Api({"Business"})
      BY <2>4 DEF FixBusinessTableName, Migration, Made, Api
    <3>2. \A x \in names : x \in DOMAIN Maker /\ Maker[x] = <<"app", i>> /\ x \notin Legacy
      BY <2>4, LegacyTables DEF Maker
    <3> QED BY <2>2, <3>1, <3>2, LegacyTables DEF Api
  <2>5. CASE i = 3 /\ m = AddAdminControlFields
    <3> DEFINE names == {"Subscription"}
    <3>1. Made(m) = Api(names) /\ m.undo = Made(m) /\ m.drops = {}
      BY <2>5 DEF AddAdminControlFields, Migration, Made, Api
    <3>2. \A x \in names : x \in DOMAIN Maker /\ Maker[x] = <<"app", i>> /\ x \notin Legacy
      BY <2>5, LegacyTables DEF Maker
    <3> QED BY <2>2, <3>1, <3>2
  <2>6. CASE i = 4 /\ m = CreateGoogleBusinessReviewTables
    <3> DEFINE names == {"GoogleBusinessConnection", "GoogleBusinessReview",
                             "IDX_GoogleBusinessConnection", "IDX_GoogleBusinessReview"}
    <3>1. Made(m) = Api(names) /\ m.undo = Made(m) /\ m.drops = {}
      <4>1. /\ m.makes = Api({"GoogleBusinessConnection", "GoogleBusinessReview"})
            /\ m.fresh = GoogleIndexes /\ m.undo = m.makes \cup GoogleIndexes /\ m.drops = {}
        BY <2>6 DEF CreateGoogleBusinessReviewTables, Migration
      <4>2. m.makes \cup GoogleIndexes = Api(names)
        BY <4>1 DEF GoogleIndexes, Api
      <4> QED BY <4>1, <4>2 DEF Made
    <3>2. \A x \in names : x \in DOMAIN Maker /\ Maker[x] = <<"app", i>> /\ x \notin Legacy
      BY <2>6, LegacyTables DEF Maker
    <3> QED BY <2>2, <3>1, <3>2
  <2>7. CASE i = 5 /\ m = CreateSocialMediaAgentTables
    <3> DEFINE names == {"SocialAccount", "SocialPost", "SocialPostMedia", "AiGeneration", "PublishingLog"}
    <3>1. Made(m) = Api(names) /\ m.undo = Made(m) /\ m.drops = {}
      BY <2>7 DEF CreateSocialMediaAgentTables, Migration, Made, Api, SocialTables
    <3>2. \A x \in names : x \in DOMAIN Maker /\ Maker[x] = <<"app", i>> /\ x \notin Legacy
      BY <2>7, LegacyTables DEF Maker
    <3> QED BY <2>2, <3>1, <3>2
  <2>8. CASE i = 6 /\ m = CreateMcpApiKeyTable
    <3> DEFINE names == {"McpApiKey"}
    <3>1. Made(m) = Api(names) /\ m.undo = Made(m) /\ m.drops = {}
      BY <2>8 DEF CreateMcpApiKeyTable, Migration, Made, Api
    <3>2. \A x \in names : x \in DOMAIN Maker /\ Maker[x] = <<"app", i>> /\ x \notin Legacy
      BY <2>8, LegacyTables DEF Maker
    <3> QED BY <2>2, <3>1, <3>2
  <2>9. CASE i = 7 /\ m = CreateMobileAppTable
    <3> DEFINE names == {"MobileApp"}
    <3>1. Made(m) = Api(names) /\ m.undo = Made(m) /\ m.drops = {}
      BY <2>9 DEF CreateMobileAppTable, Migration, Made, Api
    <3>2. \A x \in names : x \in DOMAIN Maker /\ Maker[x] = <<"app", i>> /\ x \notin Legacy
      BY <2>9, LegacyTables DEF Maker
    <3> QED BY <2>2, <3>1, <3>2
  <2>10. CASE i = 8 /\ m = AddMobileAppStoreFields
    <3> DEFINE names == {"MobileAppStoreStatus"}
    <3>1. Made(m) = Api(names) /\ m.undo = Made(m) /\ m.drops = {}
      BY <2>10 DEF AddMobileAppStoreFields, Migration, Made, Api
    <3>2. \A x \in names : x \in DOMAIN Maker /\ Maker[x] = <<"app", i>> /\ x \notin Legacy
      BY <2>10, LegacyTables DEF Maker
    <3> QED BY <2>2, <3>1, <3>2
  <2>11. CASE i = 9 /\ m = AddAiUsageQuotas
    <3> DEFINE names == {"AiUsagePeriod", "AiUsageEvent"}
    <3>1. Made(m) = Api(names) /\ m.undo = Made(m) /\ m.drops = {}
      BY <2>11 DEF AddAiUsageQuotas, Migration, Made, Api
    <3>2. \A x \in names : x \in DOMAIN Maker /\ Maker[x] = <<"app", i>> /\ x \notin Legacy
      BY <2>11, LegacyTables DEF Maker
    <3> QED BY <2>2, <3>1, <3>2
  <2> QED
    BY <2>1, <2>3, <2>4, <2>5, <2>6, <2>7, <2>8, <2>9, <2>10, <2>11
<1> QED BY <1>1, <1>2, <1>3, DatabasesAre

\* Induction, as a fact about the set of numbers that have a property.
LEMMA AllNumbers ==
  ASSUME NEW S, 0 \in S, \A n \in Nat : n \in S => n + 1 \in S
  PROVE  Nat \subseteq S
<1>1. SUFFICES ASSUME Nat \ S # {} PROVE FALSE
  OBVIOUS
<1>2. PICK x \in Nat \ S : \A y \in Nat \ S : ~(<<y, x>> \in OpToRel(<, Nat))
  BY <1>1, WFMin, NatLessThanWellFounded
<1>3. \A y \in Nat : y < x => y \in S
  BY <1>2 DEF OpToRel
<1>4. x \in Nat /\ x \notin S
  OBVIOUS
<1>5. x # 0 /\ x - 1 \in Nat /\ x - 1 < x
  BY <1>4
<1> QED BY <1>3, <1>4, <1>5

LEMMA AllUpTo ==
  ASSUME NEW n \in Nat, NEW S, 0 \in S, \A i \in 1..n : i - 1 \in S => i \in S
  PROVE  0..n \subseteq S
<1> DEFINE T == {k \in Nat : k \in S \/ k > n}
<1>1. 0 \in T
  OBVIOUS
<1>2. ASSUME NEW k \in Nat, k \in T PROVE k + 1 \in T
  <2>1. CASE k + 1 > n
    BY <2>1
  <2>2. CASE k + 1 <= n
    BY <1>2, <2>2
  <2> QED BY <2>1, <2>2
<1>3. Nat \subseteq T
  BY <1>1, <1>2, AllNumbers
<1> QED BY <1>3

\* f is the state of the database after each of the first n migrations.
StatesOf(all, pending, there, n, f) ==
  f = [i \in 0..n |-> IF i = 0 THEN there
                      ELSE IF i \in pending THEN After(all[i], f[i - 1]) ELSE f[i - 1]]
\* The recursion in Upto is well-founded.
LEMMA StatesExist ==
  ASSUME NEW all, NEW pending, NEW there, NEW n \in Nat
  PROVE  \E f : StatesOf(all, pending, there, n, f)
<1> DEFINE S == {k \in Nat : \E f : StatesOf(all, pending, there, k, f)}
<1>1. 0 \in S
  <2>1. StatesOf(all, pending, there, 0, [i \in 0..0 |-> there])
    BY DEF StatesOf
  <2> QED BY <2>1
<1>2. ASSUME NEW k \in Nat, k \in S PROVE k + 1 \in S
  <2>1. PICK f : StatesOf(all, pending, there, k, f)
    BY <1>2
  <2> DEFINE g == [i \in 0..(k + 1) |-> IF i \in 0..k THEN f[i]
                     ELSE IF i \in pending THEN After(all[i], f[k]) ELSE f[k]]
  <2>2. \A i \in 0..(k + 1) : i # 0 => i - 1 \in 0..k /\ (i \notin 0..k => i - 1 = k)
    OBVIOUS
  <2>3. \A i \in 0..(k + 1) :
          g[i] = IF i = 0 THEN there
                 ELSE IF i \in pending THEN After(all[i], g[i - 1]) ELSE g[i - 1]
    <3>1. \A i \in 0..k : g[i] = f[i]
      OBVIOUS
    <3>2. \A i \in 0..k : f[i] = IF i = 0 THEN there
                 ELSE IF i \in pending THEN After(all[i], f[i - 1]) ELSE f[i - 1]
      BY <2>1 DEF StatesOf
    <3> QED BY <2>2, <3>1, <3>2
  <2>4. StatesOf(all, pending, there, k + 1, g)
    BY <2>3 DEF StatesOf
  <2> QED BY <2>4
<1> HIDE DEF S
<1>3. Nat \subseteq S
  BY <1>1, <1>2, AllNumbers
<1> QED BY <1>3 DEF S

LEMMA MigrationsAreCounted ==
  ASSUME NEW d \in Databases
  PROVE  /\ Len(Migrations[d]) \in Nat /\ DOMAIN Migrations[d] = 1..Len(Migrations[d])
         /\ IsFiniteSet(DOMAIN Migrations[d])
<1>1. Len(Migrations[d]) \in Nat /\ DOMAIN Migrations[d] = 1..Len(Migrations[d])
  BY DatabasesAre DEF Migrations
<1> QED BY <1>1, FS_Interval

LEMMA UptoSteps ==
  ASSUME NEW o, op[o].db \in Databases, NEW n, n = Len(All(o))
  PROVE  /\ n \in Nat /\ Upto(o)[0] = objects
         /\ \A i \in 1..n : Upto(o)[i] = IF i \in Pending(o) THEN After(All(o)[i], Upto(o)[i - 1])
                                         ELSE Upto(o)[i - 1]
<1>1. n \in Nat
  BY MigrationsAreCounted DEF All
<1>2. PICK f : StatesOf(All(o), Pending(o), objects, n, f)
  BY <1>1, StatesExist
<1>3. StatesOf(All(o), Pending(o), objects, n, Upto(o))
  BY <1>2 DEF Upto, StatesOf
<1>4. \A i \in 0..n : Upto(o)[i] = IF i = 0 THEN objects
        ELSE IF i \in Pending(o) THEN After(All(o)[i], Upto(o)[i - 1]) ELSE Upto(o)[i - 1]
  BY <1>3 DEF StatesOf
<1> QED BY <1>1, <1>4

\* What a list of migrations leaves: its objects are in one of the schemas, only
\* legacy tables go, and what a pending migration makes stays.
LEMMA MigrationsLeave ==
  ASSUME NEW o, op[o].db \in Databases, NEW last, last = Upto(o)[Len(All(o))]
  PROVE  /\ (\A x \in objects : x[1] \in Schemas) => \A x \in last : x[1] \in Schemas
         /\ \A x \in objects : x[2] \notin Legacy => x \in last
         /\ \A j \in Pending(o) : Made(All(o)[j]) \subseteq last
<1> DEFINE n == Len(All(o))
           state == Upto(o)
<1>1. /\ n \in Nat /\ state[0] = objects
      /\ \A i \in 1..n : state[i] = IF i \in Pending(o) THEN After(All(o)[i], state[i - 1])
                                         ELSE state[i - 1]
  BY UptoSteps
<1>2. /\ \A i \in Pending(o) : MigrationStands(op[o].db, i, All(o)[i])
      /\ Pending(o) \subseteq 1..n
  BY MigrationFacts, MigrationsAreCounted DEF All, Pending
<1> HIDE DEF n, state
<1>3. ASSUME \A x \in objects : x[1] \in Schemas
      PROVE  \A x \in state[n] : x[1] \in Schemas
  <2> DEFINE S == {i \in 0..n : \A x \in state[i] : x[1] \in Schemas}
  <2>1. 0 \in S
    BY <1>1, <1>3
  <2>2. ASSUME NEW i \in 1..n, i - 1 \in S PROVE i \in S
    <3>1. state[i] = IF i \in Pending(o) THEN After(All(o)[i], state[i - 1]) ELSE state[i - 1]
      BY <1>1
    <3>2. \A x \in state[i - 1] : x[1] \in Schemas
      BY <2>2
    <3>3. i \in Pending(o) => \A x \in Made(All(o)[i]) : x[1] \in Schemas
      BY <1>2 DEF MigrationStands
    <3>4. \A x \in state[i] : x[1] \in Schemas
      BY <3>1, <3>2, <3>3 DEF After, Made
    <3> QED BY <3>4
  <2> HIDE DEF S
  <2>3. 0..n \subseteq S
    BY <1>1, <2>1, <2>2, AllUpTo
  <2> QED BY <1>1, <2>3 DEF S
<1>4. ASSUME NEW x \in objects, x[2] \notin Legacy PROVE x \in state[n]
  <2> DEFINE S == {i \in 0..n : x \in state[i]}
  <2>1. 0 \in S
    BY <1>1, <1>4
  <2>2. ASSUME NEW i \in 1..n, i - 1 \in S PROVE i \in S
    <3>1. state[i] = IF i \in Pending(o) THEN After(All(o)[i], state[i - 1]) ELSE state[i - 1]
      BY <1>1
    <3>2. i \in Pending(o) => x \notin All(o)[i].drops
      BY <1>2, <1>4 DEF MigrationStands
    <3>3. x \in state[i]
      BY <2>2, <3>1, <3>2 DEF After
    <3> QED BY <3>3
  <2> HIDE DEF S
  <2>3. 0..n \subseteq S
    BY <1>1, <2>1, <2>2, AllUpTo
  <2> QED BY <1>1, <2>3 DEF S
<1>5. ASSUME NEW j \in Pending(o), NEW x \in Made(All(o)[j]) PROVE x \in state[n]
  <2> DEFINE S == {i \in 0..n : j <= i => x \in state[i]}
  <2>1. j \in 1..n /\ x[2] \notin Legacy
    BY <1>2 DEF MigrationStands
  <2>2. 0 \in S
    BY <1>1, <2>1
  <2>3. ASSUME NEW i \in 1..n, i - 1 \in S PROVE i \in S
    <3>1. CASE i = j
      <4>1. state[i] = After(All(o)[j], state[i - 1])
        BY <3>1, <1>1
      <4>2. x \notin All(o)[j].drops
        BY <1>2, <2>1 DEF MigrationStands
      <4> QED BY <4>1, <4>2 DEF After, Made
    <3>2. CASE i < j
      BY <3>2, <2>1
    <3>3. CASE i > j
      <4>1. x \in state[i - 1]
        BY <3>3, <2>1, <2>3
      <4>2. i \in Pending(o) => x \notin All(o)[i].drops
        BY <1>2, <2>1 DEF MigrationStands
      <4>3. state[i] = IF i \in Pending(o) THEN After(All(o)[i], state[i - 1]) ELSE state[i - 1]
        BY <1>1
      <4> QED BY <4>1, <4>2, <4>3 DEF After
    <3> QED BY <3>1, <3>2, <3>3, <2>1
  <2> HIDE DEF S
  <2>4. 0..n \subseteq S
    BY <1>1, <2>2, <2>3, AllUpTo
  <2> QED BY <1>1, <2>1, <2>4 DEF S
<1> QED BY <1>3, <1>4, <1>5 DEF n, state

Movers == {"split", "rollback"}
RunFields == {"name", "db", "step", "found", "moved", "seen", "began"}
Endings == {"done", "failed", "died"}
\* A script in progress, n scripts having ended.
ScriptStands(k, n) ==
  /\ DOMAIN k = RunFields
  /\ k.name \in Scripts \cup {"none"} /\ k.db \in Databases
  /\ k.step \in 0..9 /\ (k.found # "" => k.step \in DOMAIN Moves)
  /\ k.found \in Schemas \cup {""} /\ k.moved \in [Legacy -> Schemas \cup {""}]
  /\ k.seen \in Seq(DOMAIN Migrations[k.db]) /\ k.began \in 0..n
SchemaTypes ==
  /\ \A x \in objects : x[1] \in Schemas
  /\ DOMAIN applied = Databases /\ \A d \in Databases : applied[d] \in Seq(DOMAIN Migrations[d])
  /\ DOMAIN op = Operators /\ \A o \in Operators : ScriptStands(op[o], Len(ended))
  /\ locked \in [Legacy -> SUBSET Operators]
  /\ ended \in Seq(Scripts \X Databases \X Endings \X Nat)
\* Who has moved a table has locked it, alone.
MoversLock ==
  /\ \A t \in Legacy : \A o, p \in locked[t] : o = p
  /\ \A o \in Operators, t \in Legacy : op[o].moved[t] # "" => o \in locked[t]
SchemaInv == SchemaTypes /\ MoversLock /\ RecordedIsThere

LEMMA RecordedAreMade ==
  RecordedIsThere <=>
    \A d \in Databases : \A i \in ToSet(applied[d]) : Made(Migrations[d][i]) \subseteq objects
BY DEF RecordedIsThere, Made

LEMMA MovesAre == DOMAIN Moves = 1..8 /\ Len(Moves) = 8 /\ \A i \in 1..8 : Moves[i].table \in Legacy /\ Moves[i].target \in Schemas
BY DEF Moves, Legacy, Schemas

LEMMA NextStep == ASSUME NEW i \in 1..8 PROVE i + 1 \in 0..9
OBVIOUS

LEMMA Before == ASSUME NEW n \in Nat, NEW i \in 0..n PROVE i \in Nat /\ i \in 0..(n + 1) /\ i < n + 1
OBVIOUS

LEMMA NoScriptStands ==
  ASSUME NEW n \in Nat
  PROVE  ScriptStands(NoScript, n) /\ NoScript.name = "none" /\ \A t \in Legacy : NoScript.moved[t] = ""
<1>1. DOMAIN NoScript = RunFields
  BY DEF NoScript, RunFields
<1>2. /\ NoScript.name = "none" /\ NoScript.db = "app" /\ NoScript.seen = << >> /\ NoScript.began = 0
      /\ NoScript.found = "" /\ NoScript.step = 0 /\ NoScript.moved = [t \in Legacy |-> ""]
  BY DEF NoScript
<1>3. << >> \in Seq(DOMAIN Migrations["app"])
  BY EmptySeq
<1>4. 0 \in 0..9 /\ 0 \in 0..n /\ "app" \in Databases
  BY DatabasesAre
<1>5. NoScript.moved \in [Legacy -> Schemas \cup {""}]
  BY <1>2
<1> HIDE DEF NoScript
<1> QED BY <1>1, <1>2, <1>3, <1>4, <1>5 DEF ScriptStands

LEMMA EndedIsCounted ==
  ASSUME SchemaTypes
  PROVE  Len(ended) \in Nat /\ DOMAIN ended = 1..Len(ended)
BY LenProperties DEF SchemaTypes

\* A script goes on and nothing else changes.
LEMMA ScriptGoesOn ==
  ASSUME SchemaInv, NEW o \in Operators, NEW k, op' = [op EXCEPT ![o] = k],
         UNCHANGED <<objects, applied, locked, ended, born>>,
         ScriptStands(k, Len(ended)), \A t \in Legacy : k.moved[t] # "" => o \in locked[t]
  PROVE  SchemaInv'
<1>1. DOMAIN op' = Operators /\ \A p \in Operators : op'[p] = IF p = o THEN k ELSE op[p]
  BY DEF SchemaInv, SchemaTypes
<1>2. SchemaTypes'
  BY <1>1 DEF SchemaInv, SchemaTypes
<1>3. MoversLock'
  <2>1. \A t \in Legacy : \A p, q \in locked'[t] : p = q
    BY DEF SchemaInv, MoversLock
  <2>2. ASSUME NEW p \in Operators, NEW t \in Legacy, op'[p].moved[t] # "" PROVE p \in locked'[t]
    <3>1. CASE p = o
      BY <1>1, <2>2, <3>1
    <3>2. CASE p # o
      <4>1. op'[p] = op[p]
        BY <1>1, <3>2
      <4> QED BY <2>2, <4>1 DEF SchemaInv, MoversLock
    <3> QED BY <3>1, <3>2
  <2> QED BY <2>1, <2>2 DEF MoversLock
<1> QED BY <1>2, <1>3 DEF SchemaInv, RecordedIsThere

LEMMA OneMoreEnds ==
  ASSUME NEW n \in Nat, NEW k, ScriptStands(k, n)
  PROVE  ScriptStands(k, n + 1)
<1>1. k.began \in 0..n
  BY DEF ScriptStands
<1>2. k.began \in 0..(n + 1)
  BY <1>1, Before
<1> QED BY <1>2 DEF ScriptStands

\* A script ends, with what it leaves in the database.
LEMMA ScriptEnds ==
  ASSUME SchemaInv, NEW o \in Operators, NEW how \in Endings, End(o, how), op[o].name # "none",
         \A x \in objects' : x[1] \in Schemas,
         DOMAIN applied' = Databases, \A d \in Databases : applied'[d] \in Seq(DOMAIN Migrations[d]),
         RecordedIsThere'
  PROVE  SchemaInv'
<1>1. /\ ended' = Append(ended, <<op[o].name, op[o].db, how, op[o].began>>)
      /\ op' = [op EXCEPT ![o] = NoScript]
      /\ locked' = [t \in Legacy |-> locked[t] \ {o}]
  BY DEF End
<1>2. <<op[o].name, op[o].db, how, op[o].began>> \in Scripts \X Databases \X Endings \X Nat
  <2>1. ScriptStands(op[o], Len(ended))
    BY DEF SchemaInv, SchemaTypes
  <2>2. Len(ended) \in Nat
    BY EndedIsCounted DEF SchemaInv
  <2>3. op[o].began \in Nat
    <3>1. op[o].began \in 0..Len(ended)
      BY <2>1 DEF ScriptStands
    <3> QED BY <2>2, <3>1, Before
  <2> QED BY <2>1, <2>3 DEF ScriptStands
<1>3. Len(ended) \in Nat /\ Len(ended') = Len(ended) + 1 /\ ended' \in Seq(Scripts \X Databases \X Endings \X Nat)
  BY <1>1, <1>2, EndedIsCounted, AppendProperties DEF SchemaInv, SchemaTypes
<1>4. ScriptStands(NoScript, Len(ended)) /\ NoScript.name = "none" /\ \A t \in Legacy : NoScript.moved[t] = ""
  BY <1>3, NoScriptStands
<1>5. \A p \in Operators : ScriptStands(op[p], Len(ended))
  BY DEF SchemaInv, SchemaTypes
<1>6. DOMAIN op' = Operators /\ \A p \in Operators : op'[p] = IF p = o THEN NoScript ELSE op[p]
  BY <1>1 DEF SchemaInv, SchemaTypes
<1>7. locked' \in [Legacy -> SUBSET Operators] /\ \A t \in Legacy : locked'[t] = locked[t] \ {o}
  BY <1>1 DEF SchemaInv, SchemaTypes
<1>8. SchemaTypes'
  <2>1. ASSUME NEW k, ScriptStands(k, Len(ended)) PROVE ScriptStands(k, Len(ended'))
    BY <1>3, <2>1, OneMoreEnds
  <2> QED BY <1>3, <1>4, <1>5, <1>6, <1>7, <2>1 DEF SchemaTypes
<1>9. MoversLock'
  <2>1. ASSUME NEW t \in Legacy, NEW p \in locked'[t], NEW q \in locked'[t] PROVE p = q
    BY <1>7 DEF SchemaInv, MoversLock
  <2>2. ASSUME NEW p \in Operators, NEW t \in Legacy, op'[p].moved[t] # "" PROVE p \in locked'[t]
    <3>1. p # o
      BY <1>4, <1>6, <2>2
    <3>2. op'[p] = op[p]
      BY <1>6, <3>1
    <3>3. p \in locked[t]
      BY <2>2, <3>2 DEF SchemaInv, MoversLock
    <3> QED BY <1>7, <3>1, <3>3
  <2> QED BY <2>1, <2>2 DEF MoversLock
<1> QED BY <1>8, <1>9 DEF SchemaInv

LEMMA FoundIsASchema == ASSUME NEW o, NEW t PROVE Found(o, t) \subseteq Schemas
<1>1. \A k \in DOMAIN SearchOrder(o) : SearchOrder(o)[k] \in Schemas
  BY DEF SearchOrder, Schemas
<1> QED BY <1>1 DEF Found

LEMMA LooksGoOn ==
  ASSUME SchemaInv, NEW o \in Operators, Skip(o) \/ Look(o)
  PROVE  SchemaInv'
<1>1. ScriptStands(op[o], Len(ended)) /\ \A t \in Legacy : op[o].moved[t] # "" => o \in locked[t]
  BY DEF SchemaInv, SchemaTypes, MoversLock
<1>2. CASE Skip(o)
  <2> DEFINE k == [op[o] EXCEPT !.step = op[o].step + 1]
  <2>1. /\ op' = [op EXCEPT ![o] = k] /\ UNCHANGED <<objects, applied, locked, ended, born>>
        /\ op[o].step \in 1..8 /\ op[o].found = ""
    BY <1>2, MovesAre DEF Skip, Looking
  <2>2. /\ DOMAIN k = RunFields /\ k.name = op[o].name /\ k.db = op[o].db /\ k.step = op[o].step + 1
        /\ k.found = op[o].found /\ k.moved = op[o].moved /\ k.seen = op[o].seen /\ k.began = op[o].began
    BY <1>1 DEF ScriptStands, RunFields
  <2>3. op[o].step + 1 \in 0..9
    BY <2>1, NextStep
  <2> HIDE DEF k
  <2>4. ScriptStands(k, Len(ended))
    BY <1>1, <2>1, <2>2, <2>3 DEF ScriptStands
  <2> QED BY <1>1, <2>1, <2>2, <2>4, ScriptGoesOn
<1>3. CASE Look(o)
  <2>1. PICK s \in Schemas : op' = [op EXCEPT ![o].found = s]
    BY <1>3, FoundIsASchema DEF Look
  <2> DEFINE k == [op[o] EXCEPT !.found = s]
  <2>2. /\ op' = [op EXCEPT ![o] = k] /\ UNCHANGED <<objects, applied, locked, ended, born>>
        /\ op[o].step \in DOMAIN Moves
    BY <1>3, <2>1 DEF Look, Looking
  <2>3. /\ DOMAIN k = RunFields /\ k.name = op[o].name /\ k.db = op[o].db /\ k.step = op[o].step
        /\ k.found = s /\ k.moved = op[o].moved /\ k.seen = op[o].seen /\ k.began = op[o].began
    BY <1>1 DEF ScriptStands, RunFields
  <2> HIDE DEF k
  <2>4. ScriptStands(k, Len(ended))
    BY <1>1, <2>2, <2>3 DEF ScriptStands
  <2> QED BY <1>1, <2>2, <2>3, <2>4, ScriptGoesOn
<1> QED BY <1>2, <1>3

LEMMA ScriptStarts ==
  ASSUME SchemaInv, NEW o \in Operators, NEW name \in Scripts, NEW d \in Databases, Start(o, name, d)
  PROVE  SchemaInv'
<1> DEFINE k == [NoScript EXCEPT !.name = name, !.db = d, !.step = 1, !.seen = applied[d], !.began = Len(ended)]
<1>1. op' = [op EXCEPT ![o] = k] /\ UNCHANGED <<objects, applied, locked, ended, born>>
  BY DEF Start
<1>2. Len(ended) \in Nat
  BY EndedIsCounted DEF SchemaInv
<1>3. applied[d] \in Seq(DOMAIN Migrations[d])
  BY DEF SchemaInv, SchemaTypes
<1>4. /\ DOMAIN k = RunFields /\ k.name = name /\ k.db = d /\ k.step = 1
      /\ k.found = "" /\ k.moved = [t \in Legacy |-> ""] /\ k.seen = applied[d] /\ k.began = Len(ended)
  BY DEF NoScript, RunFields
<1>5. Len(ended) \in 0..Len(ended) /\ 1 \in 0..9
  BY <1>2
<1> HIDE DEF k
<1>6. k.moved \in [Legacy -> Schemas \cup {""}]
  BY <1>4
<1>7. ScriptStands(k, Len(ended))
  BY <1>3, <1>4, <1>5, <1>6 DEF ScriptStands
<1>8. \A t \in Legacy : k.moved[t] # "" => o \in locked[t]
  BY <1>4
<1> QED BY <1>1, <1>7, <1>8, ScriptGoesOn

LEMMA CountsAreFinite == ASSUME NEW n \in Nat PROVE IsFiniteSet(1..n)
BY FS_Interval

LEMMA RecordedExist ==
  ASSUME SchemaInv, NEW d \in Databases, NEW i \in ToSet(applied[d])
  PROVE  i \in DOMAIN Migrations[d]
<1>1. applied[d] \in Seq(DOMAIN Migrations[d])
  BY DEF SchemaInv, SchemaTypes
<1> QED BY <1>1, ElementOfSeq, LenProperties DEF ToSet

LEMMA BootstrapsSchemas == \A x \in Bootstrapped : x[1] \in Schemas
BY DEF Bootstrapped, ApiTables, GoogleIndexes, AdminTables, RunnerTables, BaseEnums, Api, Schemas

LEMMA FreshOnesAreIndexes ==
  ASSUME NEW d \in Databases, NEW i \in DOMAIN Migrations[d]
  PROVE  Migrations[d][i].fresh \subseteq GoogleIndexes
<1> DEFINE m == Migrations[d][i]
<1>1. CASE d = "admin"
  BY <1>1 DEF Migrations, AddAdminUsersAndAuditLogs, Migration
<1>2. CASE d = "runner"
  <2>1. m \in {AddGoogleReviewReplyTaskType, AddPendingApprovalTaskStatus,
               AddSocialPostPublishTaskType, AddMobileAppGenerationTaskType}
    BY <1>2 DEF Migrations
  <2>2. m.fresh = {}
    BY <2>1 DEF EnumValue, AddGoogleReviewReplyTaskType, AddPendingApprovalTaskStatus,
        AddSocialPostPublishTaskType, AddMobileAppGenerationTaskType, Migration
  <2> QED BY <2>2
<1>3. CASE d = "app"
  <2>1. m \in {CreateApiBusinessesTable, FixBusinessTableName, AddAdminControlFields,
               CreateGoogleBusinessReviewTables, CreateSocialMediaAgentTables, CreateMcpApiKeyTable,
               CreateMobileAppTable, AddMobileAppStoreFields, AddAiUsageQuotas}
    BY <1>3 DEF Migrations
  <2>2. CASE m \in {CreateApiBusinessesTable, FixBusinessTableName, AddAdminControlFields}
    BY <2>2 DEF CreateApiBusinessesTable, FixBusinessTableName, AddAdminControlFields, Migration
  <2>3. CASE m = CreateGoogleBusinessReviewTables
    BY <2>3 DEF CreateGoogleBusinessReviewTables, Migration
  <2>4. CASE m \in {CreateSocialMediaAgentTables, CreateMcpApiKeyTable, CreateMobileAppTable}
    BY <2>4 DEF CreateSocialMediaAgentTables, CreateMcpApiKeyTable, CreateMobileAppTable, Migration
  <2>5. CASE m \in {AddMobileAppStoreFields, AddAiUsageQuotas}
    BY <2>5 DEF AddMobileAppStoreFields, AddAiUsageQuotas, Migration
  <2> QED BY <2>1, <2>2, <2>3, <2>4, <2>5
<1> QED BY <1>1, <1>2, <1>3, DatabasesAre

LEMMA InUseHasAll ==
  /\ \A x \in InUse : x[1] \in Schemas
  /\ \A d \in Databases : \A i \in DOMAIN Migrations[d] : Made(Migrations[d][i]) \subseteq InUse
<1>1. ASSUME NEW d \in Databases, NEW i \in DOMAIN Migrations[d]
      PROVE  /\ \A x \in Migrations[d][i].makes : x[1] \in Schemas
             /\ Made(Migrations[d][i]) \subseteq InUse
  <2>1. \A x \in Migrations[d][i].makes : x[1] \in Schemas
    BY MigrationFacts DEF MigrationStands, Made
  <2>2. Migrations[d][i].makes \subseteq InUse
    BY DEF InUse, Databases
  <2>3. Migrations[d][i].fresh \subseteq InUse
    BY FreshOnesAreIndexes DEF InUse, Bootstrapped
  <2> QED BY <2>1, <2>2, <2>3 DEF Made
<1>2. ASSUME NEW x \in InUse PROVE x[1] \in Schemas
  BY <1>1, <1>2, BootstrapsSchemas DEF InUse, Databases
<1> QED BY <1>1, <1>2

LEMMA SchemaInvInit == SchemaInit => SchemaInv
<1> SUFFICES ASSUME SchemaInit PROVE SchemaInv
  OBVIOUS
<1>1. /\ op = [o \in Operators |-> NoScript] /\ locked = [t \in Legacy |-> {}] /\ ended = << >>
  BY DEF SchemaInit
<1>2. ended \in Seq(Scripts \X Databases \X Endings \X Nat) /\ Len(ended) \in Nat
  BY <1>1, EmptySeq
<1>3. ScriptStands(NoScript, Len(ended)) /\ NoScript.name = "none" /\ \A t \in Legacy : NoScript.moved[t] = ""
  BY <1>2, NoScriptStands
<1>4. /\ \A x \in objects : x[1] \in Schemas
      /\ DOMAIN applied = Databases /\ \A d \in Databases : applied[d] \in Seq(DOMAIN Migrations[d])
      /\ \A d \in Databases : \A i \in ToSet(applied[d]) : Made(Migrations[d][i]) \subseteq objects
  <2>1. CASE objects \in {{}, {<<"public", t>> : t \in Legacy}} /\ applied = [d \in Databases |-> << >>]
    <3>1. \A x \in objects : x[1] \in Schemas
      BY <2>1 DEF Schemas
    <3>2. \A d \in Databases : applied[d] = << >>
      BY <2>1
    <3>3. \A d \in Databases : applied[d] \in Seq(DOMAIN Migrations[d]) /\ ToSet(applied[d]) = {}
      <4>1. ToSet(<< >>) = {}
        BY DEF ToSet
      <4> QED BY <3>2, <4>1, EmptySeq
    <3> QED BY <2>1, <3>1, <3>3
  <2>2. CASE objects = InUse /\ applied = [d \in Databases |-> [i \in DOMAIN Migrations[d] |-> i]]
    <3>1. ASSUME NEW d \in Databases
          PROVE  applied[d] \in Seq(DOMAIN Migrations[d]) /\ ToSet(applied[d]) \subseteq DOMAIN Migrations[d]
      <4>1. Len(Migrations[d]) \in Nat /\ DOMAIN Migrations[d] = 1..Len(Migrations[d])
        BY MigrationsAreCounted
      <4>2. applied[d] = [i \in 1..Len(Migrations[d]) |-> i]
        BY <2>2, <4>1
      <4>3. applied[d] \in Seq(1..Len(Migrations[d]))
        BY <4>1, <4>2, IsASeq
      <4> QED BY <4>1, <4>2, <4>3 DEF ToSet
    <3> QED BY <2>2, <3>1, InUseHasAll
  <2> QED BY <2>1, <2>2 DEF SchemaInit
<1>5. SchemaTypes
  BY <1>1, <1>2, <1>3, <1>4 DEF SchemaTypes
<1>6. MoversLock
  BY <1>1, <1>3 DEF MoversLock
<1> QED BY <1>4, <1>5, <1>6, RecordedAreMade DEF SchemaInv

LEMMA TableIsMoved ==
  ASSUME SchemaInv, NEW o \in Operators, MoveTable(o)
  PROVE  SchemaInv'
<1> DEFINE t == Moves[op[o].step].table
           moved == [op[o].moved EXCEPT ![t] = op[o].found]
           k == [op[o] EXCEPT !.moved = moved, !.found = "", !.step = op[o].step + 1]
<1>1. ScriptStands(op[o], Len(ended)) /\ \A u \in Legacy : op[o].moved[u] # "" => o \in locked[u]
  BY DEF SchemaInv, SchemaTypes, MoversLock
<1>2. /\ op' = [op EXCEPT ![o] = k] /\ locked' = [locked EXCEPT ![t] = {o}] /\ locked[t] = {}
      /\ UNCHANGED <<objects, applied, ended, born>> /\ op[o].found # ""
  BY DEF MoveTable, Altering
<1>3. op[o].step \in 1..8 /\ t \in Legacy
  BY <1>1, <1>2, MovesAre DEF ScriptStands
<1>4. /\ DOMAIN k = RunFields /\ k.name = op[o].name /\ k.db = op[o].db /\ k.step = op[o].step + 1
      /\ k.found = "" /\ k.moved = moved /\ k.seen = op[o].seen /\ k.began = op[o].began
  BY <1>1 DEF ScriptStands, RunFields
<1>5. op[o].step + 1 \in 0..9
  BY <1>3, NextStep
<1>6. moved \in [Legacy -> Schemas \cup {""}] /\ \A u \in Legacy \ {t} : moved[u] = op[o].moved[u]
  BY <1>1, <1>3 DEF ScriptStands
<1> HIDE DEF k, moved, t
<1>7. ScriptStands(k, Len(ended))
  BY <1>1, <1>4, <1>5, <1>6 DEF ScriptStands
<1>8. DOMAIN op' = Operators /\ \A p \in Operators : op'[p] = IF p = o THEN k ELSE op[p]
  BY <1>2 DEF SchemaInv, SchemaTypes
<1>9. locked' \in [Legacy -> SUBSET Operators] /\ \A u \in Legacy : locked'[u] = IF u = t THEN {o} ELSE locked[u]
  BY <1>2, <1>3 DEF SchemaInv, SchemaTypes
<1>10. SchemaTypes'
  BY <1>2, <1>7, <1>8, <1>9 DEF SchemaInv, SchemaTypes
<1>11. MoversLock'
  <2>1. ASSUME NEW u \in Legacy, NEW p \in locked'[u], NEW q \in locked'[u] PROVE p = q
    <3>1. CASE u = t
      <4>1. locked'[u] = {o}
        BY <1>9, <3>1
      <4> QED BY <4>1
    <3>2. CASE u # t
      <4>1. locked'[u] = locked[u]
        BY <1>9, <3>2
      <4> QED BY <4>1 DEF SchemaInv, MoversLock
    <3> QED BY <3>1, <3>2
  <2>2. ASSUME NEW p \in Operators, NEW u \in Legacy, op'[p].moved[u] # "" PROVE p \in locked'[u]
    <3>1. CASE p = o
      <4>1. u = t \/ op[o].moved[u] # ""
        BY <1>4, <1>6, <1>8, <2>2, <3>1
      <4> QED BY <1>1, <1>2, <1>9, <3>1, <4>1
    <3>2. CASE p # o
      <4>1. op[p].moved[u] # ""
        BY <1>8, <2>2, <3>2
      <4>2. p \in locked[u]
        BY <4>1 DEF SchemaInv, MoversLock
      <4> QED BY <1>2, <1>9, <4>2
    <3> QED BY <3>1, <3>2
  <2> QED BY <2>1, <2>2 DEF MoversLock
<1> QED BY <1>2, <1>10, <1>11 DEF SchemaInv, RecordedIsThere

\* Objects that are not legacy tables stay, and what is recorded with them.
LEMMA RecordedStays ==
  ASSUME SchemaInv, \A x \in objects : x[2] \notin Legacy => x \in objects', applied' = applied
  PROVE  RecordedIsThere'
<1>1. ASSUME NEW d \in Databases, NEW i \in ToSet(applied[d]) PROVE Made(Migrations[d][i]) \subseteq objects'
  <2>1. i \in DOMAIN Migrations[d]
    BY RecordedExist
  <2>2. Made(Migrations[d][i]) \subseteq objects
    BY RecordedAreMade DEF SchemaInv
  <2>3. \A x \in Made(Migrations[d][i]) : x[2] \notin Legacy
    BY <2>1, MigrationFacts DEF MigrationStands
  <2> QED BY <2>2, <2>3
<1> QED BY <1>1 DEF RecordedIsThere, Made

LEMMA NothingRecorded ==
  ASSUME SchemaInv, applied' = applied
  PROVE  DOMAIN applied' = Databases /\ \A d \in Databases : applied'[d] \in Seq(DOMAIN Migrations[d])
BY DEF SchemaInv, SchemaTypes

\* A commit moves legacy tables only, to schemas that there are.
LEMMA MovesAreMade ==
  ASSUME SchemaInv, NEW o \in Operators, MoveCommits(o)
  PROVE  SchemaInv'
<1> DEFINE moved == {i \in DOMAIN Moves : op[o].moved[Moves[i].table] # ""}
<1>1. /\ objects' = AllMoved(o) /\ End(o, "done") /\ applied' = applied /\ op[o].name # "none"
  BY DEF MoveCommits
<1>2. objects' = (objects \ {<<op[o].moved[Moves[i].table], Moves[i].table>> : i \in moved})
                   \cup {<<Target(o, i), Moves[i].table>> : i \in moved}
  BY <1>1 DEF AllMoved
<1>3. \A i \in moved : Target(o, i) \in Schemas /\ Moves[i].table \in Legacy
  BY MovesAre DEF Target, Schemas
<1> HIDE DEF moved
<1>4. \A x \in objects' : x[1] \in Schemas
  BY <1>2, <1>3 DEF SchemaInv, SchemaTypes
<1>5. \A x \in objects : x[2] \notin Legacy => x \in objects'
  BY <1>2, <1>3
<1> QED BY <1>1, <1>4, <1>5, RecordedStays, NothingRecorded, ScriptEnds DEF Endings

LEMMA NothingIsLeft ==
  ASSUME SchemaInv, NEW o \in Operators, NEW how \in Endings, End(o, how), op[o].name # "none",
         UNCHANGED <<objects, applied>>
  PROVE  SchemaInv'
<1>1. \A x \in objects' : x[1] \in Schemas
  BY DEF SchemaInv, SchemaTypes
<1> QED BY <1>1, RecordedStays, NothingRecorded, ScriptEnds

LEMMA IsBootstrapped ==
  ASSUME SchemaInv, NEW o \in Operators, Bootstrap(o)
  PROVE  SchemaInv'
<1>1. /\ objects' = objects \cup Bootstrapped /\ End(o, "done") /\ applied' = applied /\ op[o].name # "none"
  BY DEF Bootstrap
<1>2. \A x \in objects' : x[1] \in Schemas
  BY <1>1, BootstrapsSchemas DEF SchemaInv, SchemaTypes
<1> QED BY <1>1, <1>2, RecordedStays, NothingRecorded, ScriptEnds DEF Endings

\* Of what is recorded afterwards, the tables of the old records stay and those
\* of the new ones have been made.
LEMMA IsMigrated ==
  ASSUME SchemaInv, NEW o \in Operators, Migrate(o)
  PROVE  SchemaInv'
<1> DEFINE d == op[o].db
           last == Upto(o)[Len(All(o))]
           numbers == [i \in DOMAIN All(o) |-> i]
<1>1. CASE AllRun(o)
  <2>1. /\ objects' = last /\ applied' = [applied EXCEPT ![d] = Recorded(o)]
        /\ End(o, "done") /\ op[o].name # "none"
    BY <1>1 DEF Migrate
  <2>2. ScriptStands(op[o], Len(ended))
    BY DEF SchemaInv, SchemaTypes
  <2>3. d \in Databases /\ All(o) = Migrations[d]
    BY <2>2 DEF ScriptStands, All
  <2>4. /\ (\A x \in objects : x[1] \in Schemas) => \A x \in last : x[1] \in Schemas
        /\ \A x \in objects : x[2] \notin Legacy => x \in last
        /\ \A j \in Pending(o) : Made(All(o)[j]) \subseteq last
    BY <2>3, MigrationsLeave
  <2>5. Pending(o) \subseteq DOMAIN Migrations[d] /\ Pending(o) \subseteq Nat /\ IsFiniteSet(Pending(o))
    <3>1. Pending(o) \subseteq DOMAIN Migrations[d]
      BY <2>3 DEF Pending
    <3>2. IsFiniteSet(DOMAIN Migrations[d]) /\ DOMAIN Migrations[d] \subseteq Nat
      BY <2>3, MigrationsAreCounted
    <3> QED BY <3>1, <3>2, FS_Subset
  <2> HIDE DEF last
  <2>6. /\ Kept(numbers, Pending(o)) \in Seq(DOMAIN Migrations[d])
        /\ ToSet(Kept(numbers, Pending(o))) = Pending(o)
    <3>1. \A i \in Pending(o) : numbers[i] = i
      BY <2>3, <2>5
    <3>2. \A i \in Pending(o) : numbers[i] \in DOMAIN Migrations[d]
      BY <2>5, <3>1
    <3> HIDE DEF numbers
    <3>3. /\ Kept(numbers, Pending(o)) \in Seq(DOMAIN Migrations[d])
          /\ ToSet(Kept(numbers, Pending(o))) = {numbers[k] : k \in Pending(o)}
      BY <2>5, <3>2, KeptIsAList
    <3> QED BY <3>1, <3>3
  <2> HIDE DEF numbers
  <2>7. applied[d] \in Seq(DOMAIN Migrations[d])
    BY <2>3 DEF SchemaInv, SchemaTypes
  <2>8. Recorded(o) = applied[d] \o Kept(numbers, Pending(o))
    BY DEF Recorded, numbers
  <2>9. /\ Recorded(o) \in Seq(DOMAIN Migrations[d])
        /\ \A i \in ToSet(Recorded(o)) : i \in ToSet(applied[d]) \/ i \in Pending(o)
    <3> DEFINE old == applied[d]
               new == Kept(numbers, Pending(o))
    <3>1. old \in Seq(DOMAIN Migrations[d]) /\ new \in Seq(DOMAIN Migrations[d])
      BY <2>6, <2>7
    <3> HIDE DEF old, new
    <3>2. /\ old \o new \in Seq(DOMAIN Migrations[d]) /\ Len(old \o new) = Len(old) + Len(new)
          /\ \A i \in 1..(Len(old) + Len(new)) :
               (old \o new)[i] = IF i <= Len(old) THEN old[i] ELSE new[i - Len(old)]
      BY <3>1, ConcatProperties
    <3>3. Len(old) \in Nat /\ Len(new) \in Nat /\ DOMAIN old = 1..Len(old) /\ DOMAIN new = 1..Len(new)
          /\ DOMAIN (old \o new) = 1..Len(old \o new)
      BY <3>1, <3>2, LenProperties
    <3>4. ASSUME NEW j \in 1..(Len(old) + Len(new))
          PROVE  (old \o new)[j] \in ToSet(old) \/ (old \o new)[j] \in ToSet(new)
      <4>1. CASE j <= Len(old)
        BY <3>2, <3>3, <4>1 DEF ToSet
      <4>2. CASE ~(j <= Len(old))
        <5>1. j - Len(old) \in 1..Len(new)
          BY <3>3, <4>2
        <5> QED BY <3>2, <3>3, <4>2, <5>1 DEF ToSet
      <4> QED BY <4>1, <4>2
    <3>5. \A i \in ToSet(old \o new) : i \in ToSet(old) \/ i \in ToSet(new)
      BY <3>2, <3>3, <3>4 DEF ToSet
    <3> QED BY <2>6, <2>8, <3>2, <3>5 DEF old, new
  <2>10. /\ DOMAIN applied' = Databases /\ \A e \in Databases : applied'[e] = IF e = d THEN Recorded(o) ELSE applied[e]
    BY <2>1, <2>3 DEF SchemaInv, SchemaTypes
  <2>11. \A e \in Databases : applied'[e] \in Seq(DOMAIN Migrations[e])
    BY <2>9, <2>10 DEF SchemaInv, SchemaTypes
  <2>12. ASSUME NEW e \in Databases, NEW i \in ToSet(applied'[e]) PROVE Made(Migrations[e][i]) \subseteq objects'
    <3>1. CASE i \in ToSet(applied[e])
      <4>1. i \in DOMAIN Migrations[e]
        BY <3>1, RecordedExist
      <4>2. Made(Migrations[e][i]) \subseteq objects
        BY <3>1, RecordedAreMade DEF SchemaInv
      <4>3. \A x \in Made(Migrations[e][i]) : x[2] \notin Legacy
        BY <4>1, MigrationFacts DEF MigrationStands
      <4> QED BY <2>1, <2>4, <4>2, <4>3
    <3>2. CASE e = d /\ i \in Pending(o)
      BY <2>1, <2>3, <2>4, <3>2
    <3> QED BY <2>9, <2>10, <2>12, <3>1, <3>2
  <2>13. RecordedIsThere'
    BY <2>12 DEF RecordedIsThere, Made
  <2>14. \A x \in objects' : x[1] \in Schemas
    BY <2>1, <2>4 DEF SchemaInv, SchemaTypes
  <2> QED BY <2>1, <2>10, <2>11, <2>13, <2>14, ScriptEnds DEF Endings
<1>2. CASE ~AllRun(o)
  <2>1. End(o, "failed") /\ UNCHANGED <<objects, applied>> /\ op[o].name # "none"
    BY <1>2 DEF Migrate
  <2> QED BY <2>1, NothingIsLeft DEF Endings
<1> QED BY <1>1, <1>2

\* No two migrations make the same thing.
LEMMA MakersDiffer ==
  ASSUME NEW d \in Databases, NEW i \in DOMAIN Migrations[d],
         NEW e \in Databases, NEW j \in DOMAIN Migrations[e], <<d, i>> # <<e, j>>
  PROVE  Migrations[d][i].undo \cap Made(Migrations[e][j]) = {}
<1>1. MigrationStands(d, i, Migrations[d][i]) /\ MigrationStands(e, j, Migrations[e][j])
  BY MigrationFacts
<1> QED BY <1>1 DEF MigrationStands

\* A revert drops what its migration made, and nobody else made that.
LEMMA IsReverted ==
  ASSUME SchemaInv, NEW o \in Operators, Revert(o)
  PROVE  SchemaInv'
<1> DEFINE d == op[o].db
           l == Last(op[o].seen)
           m == Migrations[d][l]
           keep == {k \in DOMAIN applied[d] : applied[d][k] # l}
           goes == op[o].seen # << >> /\ m.undoNeeds \subseteq objects /\ m.refers \cap objects = {}
<1>1. CASE goes
  <2>1. /\ objects' = objects \ m.undo /\ End(o, "done") /\ op[o].name # "none"
        /\ applied' = [applied EXCEPT ![d] = Kept(applied[d], keep)]
    BY <1>1 DEF Revert
  <2>2. ScriptStands(op[o], Len(ended))
    BY DEF SchemaInv, SchemaTypes
  <2>3. d \in Databases /\ op[o].seen \in Seq(DOMAIN Migrations[d]) /\ op[o].seen # << >>
    BY <1>1, <2>2 DEF ScriptStands
  <2>4. l \in DOMAIN Migrations[d]
    BY <2>3, EmptySeq, LenProperties, ElementOfSeq DEF Last
  <2>5. applied[d] \in Seq(DOMAIN Migrations[d]) /\ DOMAIN applied = Databases
    BY <2>3 DEF SchemaInv, SchemaTypes
  <2> HIDE DEF l, m, d
  <2>6. keep \subseteq DOMAIN applied[d] /\ keep \subseteq Nat /\ IsFiniteSet(keep)
    <3>1. DOMAIN applied[d] = 1..Len(applied[d]) /\ Len(applied[d]) \in Nat
      BY <2>5, LenProperties
    <3>2. IsFiniteSet(1..Len(applied[d]))
      BY <3>1, CountsAreFinite
    <3>3. keep \subseteq 1..Len(applied[d])
      BY <3>1
    <3> QED BY <3>1, <3>2, <3>3, FS_Subset
  <2>7. \A k \in keep : applied[d][k] \in DOMAIN Migrations[d]
    BY <2>5, <2>6, ElementOfSeq, LenProperties
  <2>8. /\ Kept(applied[d], keep) \in Seq(DOMAIN Migrations[d])
        /\ ToSet(Kept(applied[d], keep)) = {applied[d][k] : k \in keep}
    <3> HIDE DEF keep
    <3> QED BY <2>6, <2>7, KeptIsAList
  <2>9. \A i \in ToSet(Kept(applied[d], keep)) : i \in ToSet(applied[d]) /\ i # l
    BY <2>8 DEF ToSet
  <2> HIDE DEF keep
  <2>10. /\ DOMAIN applied' = Databases
         /\ \A e \in Databases : applied'[e] = IF e = d THEN Kept(applied[d], keep) ELSE applied[e]
    BY <2>1, <2>3, <2>5
  <2>11. \A e \in Databases : applied'[e] \in Seq(DOMAIN Migrations[e])
    BY <2>8, <2>10 DEF SchemaInv, SchemaTypes
  <2>12. ASSUME NEW e \in Databases, NEW i \in ToSet(applied'[e]) PROVE Made(Migrations[e][i]) \subseteq objects'
    <3>1. i \in ToSet(applied[e]) /\ ~(e = d /\ i = l)
      BY <2>9, <2>10, <2>12
    <3>2. i \in DOMAIN Migrations[e]
      BY <3>1, RecordedExist
    <3>3. Made(Migrations[e][i]) \subseteq objects
      BY <3>1, RecordedAreMade DEF SchemaInv
    <3>4. m.undo \cap Made(Migrations[e][i]) = {}
      BY <2>3, <2>4, <3>1, <3>2, MakersDiffer DEF m
    <3> QED BY <2>1, <3>3, <3>4
  <2>13. RecordedIsThere'
    BY <2>12 DEF RecordedIsThere, Made
  <2>14. \A x \in objects' : x[1] \in Schemas
    BY <2>1 DEF SchemaInv, SchemaTypes
  <2> QED BY <2>1, <2>10, <2>11, <2>13, <2>14, ScriptEnds DEF Endings
<1>2. CASE ~goes
  <2>1. End(o, "failed") /\ UNCHANGED <<objects, applied>> /\ op[o].name # "none"
    BY <1>2 DEF Revert
  <2> QED BY <2>1, NothingIsLeft DEF Endings
<1> QED BY <1>1, <1>2

LEMMA SchemaInvNext == SchemaInv /\ [SchemaNext]_schemaVars => SchemaInv'
<1> SUFFICES ASSUME SchemaInv, [SchemaNext]_schemaVars PROVE SchemaInv'
  OBVIOUS
<1>1. ASSUME NEW o \in Operators, NEW name \in Scripts, NEW d \in Databases, Start(o, name, d) PROVE SchemaInv'
  BY <1>1, ScriptStarts
<1>2. ASSUME NEW o \in Operators, Skip(o) \/ Look(o) PROVE SchemaInv'
  BY <1>2, LooksGoOn
<1>3. ASSUME NEW o \in Operators, MoveTable(o) PROVE SchemaInv'
  BY <1>3, TableIsMoved
<1>4. ASSUME NEW o \in Operators, MoveFails(o) PROVE SchemaInv'
  <2>1. End(o, "failed") /\ UNCHANGED <<objects, applied>> /\ op[o].name # "none"
    BY <1>4 DEF MoveFails, Looking, Altering
  <2> QED BY <2>1, NothingIsLeft DEF Endings
<1>5. ASSUME NEW o \in Operators, MoveCommits(o) PROVE SchemaInv'
  BY <1>5, MovesAreMade
<1>6. ASSUME NEW o \in Operators, Bootstrap(o) PROVE SchemaInv'
  BY <1>6, IsBootstrapped
<1>7. ASSUME NEW o \in Operators, Migrate(o) PROVE SchemaInv'
  BY <1>7, IsMigrated
<1>8. ASSUME NEW o \in Operators, Revert(o) PROVE SchemaInv'
  BY <1>8, IsReverted
<1>9. ASSUME NEW o \in Operators, ScriptDies(o) PROVE SchemaInv'
  <2>1. End(o, "died") /\ UNCHANGED <<objects, applied>> /\ op[o].name # "none"
    BY <1>9 DEF ScriptDies
  <2> QED BY <2>1, NothingIsLeft DEF Endings
<1>10. CASE UNCHANGED schemaVars
  BY <1>10 DEF schemaVars, SchemaInv, SchemaTypes, MoversLock, RecordedIsThere
<1> QED
  <2>1. CASE SchemaNext
    BY <2>1, <1>1, <1>2, <1>3, <1>4, <1>5, <1>6, <1>7, <1>8, <1>9 DEF SchemaNext
  <2> QED BY <2>1, <1>10

\* The types of the scripts and their records, that whoever has moved a table and
\* not committed has locked it alone, and that what is recorded is there.
THEOREM SchemaInvHolds == SchemaSpec => []SchemaInv
<1>1. SchemaInit => SchemaInv
  BY SchemaInvInit
<1>2. SchemaInv /\ [SchemaNext]_schemaVars => SchemaInv'
  BY SchemaInvNext
<1> QED BY <1>1, <1>2, PTL DEF SchemaSpec

\* Whatever fails, dies or is reverted, by however many operators at once: what a
\* recorded migration created is in the database.
THEOREM RecordsAreThere == SchemaSpec => []RecordedIsThere
<1>1. SchemaInv => RecordedIsThere
  BY DEF SchemaInv
<1> QED BY <1>1, SchemaInvHolds, PTL

\* Schemas, records and steps are what they are supposed to be, and no two
\* scripts hold the lock of one table.
THEOREM SchemaInOrder == SchemaSpec => []SchemaTypeOK
<1>1. ASSUME SchemaInv PROVE SchemaTypeOK
  <2>1. ASSUME NEW t \in Legacy PROVE locked[t] \subseteq Operators /\ Cardinality(locked[t]) <= 1
    <3>1. \A o, p \in locked[t] : o = p
      BY <1>1 DEF SchemaInv, MoversLock
    <3>2. CASE locked[t] = {}
      BY <3>2, FS_EmptySet
    <3>3. CASE locked[t] # {}
      <4>1. PICK o : locked[t] = {o}
        BY <3>1, <3>3
      <4>2. Cardinality({o}) = 1
        BY FS_Singleton
      <4> QED BY <1>1, <4>1, <4>2 DEF SchemaInv, SchemaTypes
    <3> QED BY <3>2, <3>3
  <2>2. \A o \in Operators : op[o].name \in Scripts \cup {"none"} /\ op[o].step \in 0..(Len(Moves) + 1)
    <3>1. Len(Moves) + 1 = 9
      BY MovesAre
    <3> QED BY <1>1, <3>1 DEF SchemaInv, SchemaTypes, ScriptStands
  <2> QED BY <1>1, <2>1, <2>2 DEF SchemaInv, SchemaTypes, SchemaTypeOK, Schemas
<1> QED BY <1>1, SchemaInvHolds, PTL

\* Where the move of a legacy database starts and where it leads.
InPublic == {<<"public", t>> : t \in Legacy}
AtHome == {<<Moves[i].target, Moves[i].table>> : i \in DOMAIN Moves}
From(name, i) == IF name = "split" THEN "public" ELSE Moves[i].target
BeforeMove(name) == IF name = "split" THEN InPublic ELSE AtHome
AfterMove(name) == IF name = "split" THEN AtHome ELSE InPublic
\* No script of the other direction has ended since k began.
Undisturbed(k, list) == \A i \in DOMAIN list : i > k.began => {list[i][1], k.name} # Movers
\* What a script has moved was where it starts; what it has skipped, where it leads.
MovesInOrder(k, there) ==
  /\ \A i \in 1..8 :
       /\ i < k.step /\ k.moved[Moves[i].table] = "" => there = AfterMove(k.name)
       /\ k.moved[Moves[i].table] # "" =>
            i < k.step /\ k.moved[Moves[i].table] = From(k.name, i) /\ there = BeforeMove(k.name)
  /\ k.found # "" => k.found = From(k.name, k.step)
Bare == born = InPublic /\ ~Ended("bootstrap") /\ ~Ended("migrate") /\ ~Crossed
MovesTogether ==
  /\ objects \in {InPublic, AtHome}
  /\ \A d \in Databases : applied[d] = << >>
  /\ \A o \in Operators : op[o].seen = << >>
  /\ \A o \in Operators : op[o].name \in Movers /\ Undisturbed(op[o], ended) => MovesInOrder(op[o], objects)
SplitInv == SchemaInv /\ (Bare => MovesTogether)

LEMMA TablesDiffer == \A i, j \in 1..8 : Moves[i].table = Moves[j].table => i = j
BY DEF Moves

LEMMA LegacyIsMoved == Legacy = {Moves[i].table : i \in 1..8}
BY MovesAre DEF Legacy

LEMMA PlacesAre ==
  ASSUME NEW i \in 1..8, NEW s \in Schemas, NEW t, t = Moves[i].table
  PROVE  /\ <<s, t>> \in InPublic <=> s = "public"
         /\ <<s, t>> \in AtHome <=> s = Moves[i].target
         /\ Moves[i].target # "public"
<1>1. DOMAIN Moves = 1..8 /\ t \in Legacy
  BY MovesAre
<1>2. <<s, t>> \in InPublic <=> s = "public"
  BY <1>1 DEF InPublic
<1>3. <<s, t>> \in AtHome <=> s = Moves[i].target
  BY <1>1, TablesDiffer DEF AtHome
<1>4. Moves[i].target # "public"
  BY DEF Moves
<1> QED BY <1>2, <1>3, <1>4

LEMMA PlacesDiffer == InPublic # AtHome
<1>1. 1 \in 1..8 /\ "public" \in Schemas
  BY DEF Schemas
<1>2. PICK t : t = Moves[1].table
  OBVIOUS
<1>3. <<"public", t>> \in InPublic /\ <<"public", t>> \notin AtHome
  BY <1>1, <1>2, PlacesAre
<1> QED BY <1>3

LEMMA FoundIs ==
  ASSUME NEW o, NEW t, NEW s \in Schemas, \A r \in Schemas : <<r, t>> \in objects <=> r = s
  PROVE  Found(o, t) = {s}
<1> DEFINE order == SearchOrder(o)
           there == {k \in DOMAIN order : <<order[k], t>> \in objects}
<1>1. /\ DOMAIN order = 1..4 /\ \A k \in 1..4 : order[k] \in Schemas
      /\ \A k, l \in 1..4 : order[k] = order[l] => k = l
      /\ \E k \in 1..4 : order[k] = s
  BY DEF SearchOrder, Schemas
<1>2. Found(o, t) = {order[k] : k \in {i \in there : \A j \in there : i <= j}}
  BY DEF Found
<1> HIDE DEF order
<1>3. PICK k \in 1..4 : order[k] = s
  BY <1>1
<1>4. there = {k}
  BY <1>1, <1>3
<1>5. {i \in there : \A j \in there : i <= j} = {k}
  BY <1>4
<1> QED BY <1>2, <1>3, <1>5

\* In one piece, a table is found where the piece is.
LEMMA FoundInPlace ==
  ASSUME NEW o, NEW i \in 1..8, NEW t, t = Moves[i].table
  PROVE  /\ objects = InPublic => Found(o, t) = {"public"}
         /\ objects = AtHome => Found(o, t) = {Moves[i].target}
<1>1. "public" \in Schemas /\ Moves[i].target \in Schemas
  BY MovesAre DEF Schemas
<1>2. ASSUME objects = InPublic PROVE Found(o, t) = {"public"}
  <2>1. \A r \in Schemas : <<r, t>> \in objects <=> r = "public"
    BY <1>2, PlacesAre
  <2> QED BY <1>1, <2>1, FoundIs
<1>3. ASSUME objects = AtHome PROVE Found(o, t) = {Moves[i].target}
  <2>1. \A r \in Schemas : <<r, t>> \in objects <=> r = Moves[i].target
    BY <1>3, PlacesAre
  <2> QED BY <1>1, <2>1, FoundIs
<1> QED BY <1>2, <1>3

\* One more script has ended; the others stay where they were in the history.
LEMMA HistoryGrows ==
  ASSUME SchemaInv, NEW o \in Operators, NEW how \in Endings, End(o, how)
  PROVE  /\ Len(ended) \in Nat /\ DOMAIN ended = 1..Len(ended) /\ DOMAIN ended' = 1..(Len(ended) + 1)
         /\ \A i \in DOMAIN ended : ended'[i] = ended[i]
         /\ ended'[Len(ended) + 1] = <<op[o].name, op[o].db, how, op[o].began>>
<1> DEFINE e == <<op[o].name, op[o].db, how, op[o].began>>
<1>1. ended' = Append(ended, e)
  BY DEF End
<1>2. ended \in Seq(Scripts \X Databases \X Endings \X Nat) /\ Len(ended) \in Nat
      /\ DOMAIN ended = 1..Len(ended)
  BY EndedIsCounted DEF SchemaInv, SchemaTypes
<1> HIDE DEF e
<1>3. ended \in Seq(Scripts \X Databases \X Endings \X Nat \cup {e})
  BY <1>2, SeqMonotonic
<1>4. PICK S : ended \in Seq(S) /\ e \in S
  BY <1>3
<1>5. /\ ended' \in Seq(S) /\ Len(ended') = Len(ended) + 1
      /\ \A i \in 1..Len(ended) : ended'[i] = ended[i]
      /\ ended'[Len(ended) + 1] = e
  BY <1>1, <1>4, AppendProperties
<1>6. DOMAIN ended' = 1..Len(ended')
  BY <1>5, LenProperties
<1> QED BY <1>2, <1>5, <1>6 DEF e

\* What had happened, has happened.
LEMMA BareWasBare ==
  ASSUME SchemaInv, NEW o \in Operators, NEW how \in Endings, End(o, how), Bare'
  PROVE  /\ Bare /\ Undisturbed(op[o], ended)
         /\ how = "done" => op[o].name # "bootstrap" /\ op[o].name # "migrate"
<1> DEFINE n == Len(ended)
<1>1. /\ n \in Nat /\ DOMAIN ended = 1..n /\ DOMAIN ended' = 1..(n + 1)
      /\ \A i \in DOMAIN ended : ended'[i] = ended[i]
      /\ ended'[n + 1] = <<op[o].name, op[o].db, how, op[o].began>> /\ born' = born
  BY HistoryGrows DEF End
<1> HIDE DEF n
<1>2. n + 1 \in DOMAIN ended' /\ \A i \in DOMAIN ended : i \in DOMAIN ended' /\ i < n + 1
  BY <1>1
<1>3. ASSUME NEW name, Ended(name) PROVE Ended(name)'
  BY <1>1, <1>2, <1>3 DEF Ended
<1>4. ~Crossed
  <2> SUFFICES ASSUME Crossed PROVE Crossed'
    BY DEF Bare
  <2>1. PICK i, k \in DOMAIN ended : Overlap(i, k) /\ {ended[i][1], ended[k][1]} = {"split", "rollback"}
    BY DEF Crossed
  <2>2. i \in DOMAIN ended' /\ k \in DOMAIN ended' /\ ended'[i] = ended[i] /\ ended'[k] = ended[k]
    BY <1>1, <1>2, <2>1
  <2> QED BY <2>1, <2>2 DEF Crossed, Overlap
<1>5. Bare
  BY <1>1, <1>3, <1>4 DEF Bare
<1>6. ASSUME NEW i \in DOMAIN ended, i > op[o].began, {ended[i][1], op[o].name} = Movers PROVE FALSE
  <2>1. i \in DOMAIN ended' /\ ended'[i] = ended[i] /\ ended'[n + 1][1] = op[o].name
        /\ ended'[n + 1][4] = op[o].began /\ i < n + 1
    BY <1>1, <1>2
  <2>2. op[o].began < i
    <3>1. ScriptStands(op[o], n)
      BY DEF SchemaInv, SchemaTypes, n
    <3>2. op[o].began \in 0..n
      BY <3>1 DEF ScriptStands
    <3> QED BY <1>1, <1>6, <3>2
  <2>3. Crossed'
    BY <1>2, <1>6, <2>1, <2>2 DEF Crossed, Overlap, Movers
  <2> QED BY <2>3 DEF Bare
<1>7. ASSUME how = "done", NEW name, name = op[o].name PROVE Ended(name)'
  BY <1>1, <1>2, <1>7 DEF Ended
<1>8. ~Ended("bootstrap")' /\ ~Ended("migrate")'
  BY DEF Bare
<1>9. Undisturbed(op[o], ended)
  BY <1>6 DEF Undisturbed
<1>10. ASSUME how = "done" PROVE op[o].name # "bootstrap" /\ op[o].name # "migrate"
  <2>1. PICK name : name = op[o].name
    OBVIOUS
  <2>2. Ended(name)'
    BY <1>7, <1>10, <2>1
  <2> QED BY <1>8, <2>1, <2>2
<1> QED BY <1>5, <1>9, <1>10

\* Nothing but this script's own progress changes.
LEMMA MovesGoOn ==
  ASSUME SplitInv, SchemaInv', NEW o \in Operators, NEW k, op' = [op EXCEPT ![o] = k],
         UNCHANGED <<objects, applied, ended, born>>,
         Bare => k.seen = << >>,
         Bare /\ k.name \in Movers /\ Undisturbed(k, ended) => MovesInOrder(k, objects)
  PROVE  SplitInv'
<1>1. \A p \in Operators : op'[p] = IF p = o THEN k ELSE op[p]
  BY DEF SplitInv, SchemaInv, SchemaTypes
<1>2. Bare' => Bare
  BY DEF Bare, Ended, Crossed, Overlap
<1>3. ASSUME Bare PROVE MovesTogether'
  <2>1. MovesTogether
    BY <1>3 DEF SplitInv
  <2>2. ASSUME NEW p \in Operators, op'[p].name \in Movers, Undisturbed(op'[p], ended)
        PROVE  MovesInOrder(op'[p], objects)
    <3>1. CASE p = o
      BY <1>1, <1>3, <2>2, <3>1
    <3>2. CASE p # o
      <4>1. op'[p] = op[p]
        BY <1>1, <3>2
      <4> QED BY <2>1, <2>2, <4>1 DEF MovesTogether
    <3> QED BY <3>1, <3>2
  <2>3. \A p \in Operators : op'[p].seen = << >>
    BY <1>1, <1>3, <2>1 DEF MovesTogether
  <2> QED BY <2>1, <2>2, <2>3 DEF MovesTogether
<1> QED BY <1>2, <1>3 DEF SplitInv

LEMMA NextComesLater == ASSUME NEW i \in 1..8, NEW n \in 1..8, i < n PROVE i < n + 1
OBVIOUS

\* A script ends, with the tables in one piece.
LEMMA MovesEnd ==
  ASSUME SplitInv, SchemaInv', NEW o \in Operators, NEW how \in Endings, End(o, how),
         Bare' => /\ objects' \in {InPublic, AtHome}
                  /\ \A d \in Databases : applied'[d] = << >>
                  /\ \A p \in Operators \ {o} :
                       op[p].name \in Movers /\ Undisturbed(op[p], ended') => MovesInOrder(op[p], objects')
  PROVE  SplitInv'
<1>1. \A p \in Operators : op'[p] = IF p = o THEN NoScript ELSE op[p]
  BY DEF SplitInv, SchemaInv, SchemaTypes, End
<1>2. NoScript.name \notin Movers /\ NoScript.seen = << >>
  BY DEF NoScript, Movers
<1>3. ASSUME Bare' PROVE MovesTogether'
  <2>1. MovesTogether
    BY <1>3, BareWasBare DEF SplitInv
  <2>2. ASSUME NEW p \in Operators, op'[p].name \in Movers, Undisturbed(op'[p], ended')
        PROVE  MovesInOrder(op'[p], objects')
    <3>1. p # o /\ op'[p] = op[p]
      BY <1>1, <1>2, <2>2
    <3> QED BY <1>3, <2>2, <3>1
  <2>3. \A p \in Operators : op'[p].seen = << >>
    BY <1>1, <1>2, <2>1 DEF MovesTogether
  <2> QED BY <1>3, <2>2, <2>3 DEF MovesTogether
<1> QED BY <1>3 DEF SplitInv

\* Who is undisturbed afterwards was so before.
LEMMA WasUndisturbed ==
  ASSUME SchemaInv, NEW o \in Operators, NEW how \in Endings, End(o, how),
         NEW p \in Operators, Undisturbed(op[p], ended')
  PROVE  Undisturbed(op[p], ended) /\ {op[o].name, op[p].name} # Movers
<1> DEFINE n == Len(ended)
<1>1. /\ n \in Nat /\ DOMAIN ended = 1..n /\ DOMAIN ended' = 1..(n + 1)
      /\ \A i \in DOMAIN ended : ended'[i] = ended[i]
      /\ ended'[n + 1] = <<op[o].name, op[o].db, how, op[o].began>>
  BY HistoryGrows
<1>2. op[p].began \in 0..n
  <2>1. ScriptStands(op[p], n)
    BY DEF SchemaInv, SchemaTypes
  <2> QED BY <2>1 DEF ScriptStands
<1> HIDE DEF n
<1>3. n + 1 \in DOMAIN ended' /\ n + 1 > op[p].began /\ \A i \in DOMAIN ended : i \in DOMAIN ended'
  BY <1>1, <1>2
<1> QED BY <1>1, <1>3 DEF Undisturbed

LEMMA NothingMoves ==
  ASSUME SplitInv, SchemaInv', NEW o \in Operators, NEW how \in Endings, End(o, how),
         UNCHANGED <<objects, applied>>
  PROVE  SplitInv'
<1>1. Bare' => MovesTogether
  BY BareWasBare DEF SplitInv
<1>2. ASSUME Bare', NEW p \in Operators \ {o}, op[p].name \in Movers, Undisturbed(op[p], ended')
      PROVE  MovesInOrder(op[p], objects')
  <2>1. Undisturbed(op[p], ended)
    BY <1>2, WasUndisturbed DEF SplitInv
  <2> QED BY <1>1, <1>2, <2>1 DEF MovesTogether
<1>3. Bare' => objects' \in {InPublic, AtHome} /\ \A d \in Databases : applied'[d] = << >>
  BY <1>1 DEF MovesTogether
<1> QED BY <1>2, <1>3, MovesEnd

LEMMA SplitInvInit == SchemaInit => SplitInv
<1> SUFFICES ASSUME SchemaInit, Bare PROVE MovesTogether
  BY SchemaInvInit DEF SplitInv
<1>1. objects = InPublic
  BY DEF SchemaInit, Bare
<1>2. InUse # InPublic
  <2>1. <<"admin", "Template">> \in InUse
    BY DEF InUse, Bootstrapped, AdminTables
  <2>2. <<"admin", "Template">> \notin InPublic
    BY DEF InPublic
  <2> QED BY <2>1, <2>2
<1>3. \A d \in Databases : applied[d] = << >>
  BY <1>1, <1>2 DEF SchemaInit
<1>4. \A o \in Operators : op[o].seen = << >> /\ op[o].name \notin Movers
  BY DEF SchemaInit, NoScript, Movers
<1> QED BY <1>1, <1>3, <1>4 DEF MovesTogether

LEMMA MoveStarts ==
  ASSUME SplitInv, SchemaInv', NEW o \in Operators, NEW name \in Scripts, NEW d \in Databases, Start(o, name, d)
  PROVE  SplitInv'
<1> DEFINE k == [NoScript EXCEPT !.name = name, !.db = d, !.step = 1, !.seen = applied[d], !.began = Len(ended)]
<1>1. op' = [op EXCEPT ![o] = k] /\ UNCHANGED <<objects, applied, ended, born>>
  BY DEF Start
<1>2. k.name = name /\ k.step = 1 /\ k.found = "" /\ k.moved = [t \in Legacy |-> ""] /\ k.seen = applied[d]
  BY DEF NoScript
<1> HIDE DEF k
<1>3. Bare => k.seen = << >>
  BY <1>2 DEF SplitInv, MovesTogether
<1>4. MovesInOrder(k, objects)
  <2>1. ASSUME NEW i \in 1..8 PROVE k.moved[Moves[i].table] = "" /\ ~(i < k.step)
    <3>1. Moves[i].table \in Legacy
      BY MovesAre
    <3>2. ~(i < 1)
      OBVIOUS
    <3> QED BY <1>2, <3>1, <3>2
  <2> QED BY <1>2, <2>1 DEF MovesInOrder
<1> QED BY <1>1, <1>3, <1>4, MovesGoOn

LEMMA MoveSkips ==
  ASSUME SplitInv, SchemaInv', NEW o \in Operators, Skip(o)
  PROVE  SplitInv'
<1> DEFINE k == [op[o] EXCEPT !.step = op[o].step + 1]
           step == op[o].step
           t == Moves[step].table
<1>1. /\ op' = [op EXCEPT ![o] = k] /\ UNCHANGED <<objects, applied, ended, born>>
      /\ step \in 1..8 /\ op[o].found = "" /\ op[o].name \in Movers
      /\ IF Found(o, t) = {} THEN op[o].name = "rollback" ELSE Found(o, t) = {Target(o, step)}
  BY MovesAre DEF Skip, Looking, Movers
<1>2. ScriptStands(op[o], Len(ended))
  BY DEF SplitInv, SchemaInv, SchemaTypes
<1>3. /\ k.name = op[o].name /\ k.step = step + 1 /\ k.found = "" /\ k.moved = op[o].moved
      /\ k.seen = op[o].seen /\ k.began = op[o].began
  BY <1>1, <1>2 DEF ScriptStands, RunFields
<1> HIDE DEF k, step, t
<1>4. ASSUME Bare, Undisturbed(k, ended) PROVE MovesInOrder(k, objects)
  <2>1. MovesTogether /\ MovesInOrder(op[o], objects)
    BY <1>1, <1>3, <1>4 DEF SplitInv, MovesTogether, Undisturbed
  <2>2. objects = AfterMove(op[o].name)
    <3>1. /\ objects = InPublic => Found(o, t) = {"public"}
          /\ objects = AtHome => Found(o, t) = {Moves[step].target}
      BY <1>1, FoundInPlace DEF t
    <3>2. Moves[step].target # "public"
      BY <1>1, MovesAre, PlacesAre DEF Schemas
    <3>3. objects \in {InPublic, AtHome}
      BY <2>1 DEF MovesTogether
    <3> QED BY <1>1, <3>1, <3>2, <3>3 DEF AfterMove, Target, Movers
  <2>3. ASSUME NEW i \in 1..8, k.moved[Moves[i].table] # ""
        PROVE  i < k.step /\ k.moved[Moves[i].table] = From(k.name, i) /\ objects = BeforeMove(k.name)
    <3>1. i < step /\ k.moved[Moves[i].table] = From(k.name, i) /\ objects = BeforeMove(k.name)
      BY <1>3, <2>1, <2>3 DEF MovesInOrder, step
    <3>2. i < step + 1
      BY <1>1, <3>1, NextComesLater
    <3> QED BY <1>3, <3>1, <3>2
  <2> QED BY <1>3, <2>2, <2>3 DEF MovesInOrder
<1>5. Bare => k.seen = << >>
  BY <1>3 DEF SplitInv, MovesTogether
<1> QED BY <1>1, <1>4, <1>5, MovesGoOn

LEMMA MoveLooks ==
  ASSUME SplitInv, SchemaInv', NEW o \in Operators, Look(o)
  PROVE  SplitInv'
<1> DEFINE step == op[o].step
           t == Moves[step].table
<1>1. PICK s \in Found(o, t) \ {Target(o, step)} : op' = [op EXCEPT ![o].found = s]
  BY DEF Look
<1> DEFINE k == [op[o] EXCEPT !.found = s]
<1>2. /\ op' = [op EXCEPT ![o] = k] /\ UNCHANGED <<objects, applied, ended, born>>
      /\ step \in 1..8 /\ op[o].name \in Movers
  BY <1>1, MovesAre DEF Look, Looking, Movers
<1>3. ScriptStands(op[o], Len(ended))
  BY DEF SplitInv, SchemaInv, SchemaTypes
<1>4. /\ k.name = op[o].name /\ k.step = step /\ k.found = s /\ k.moved = op[o].moved
      /\ k.seen = op[o].seen /\ k.began = op[o].began
  BY <1>3 DEF ScriptStands, RunFields
<1> HIDE DEF k, step, t
<1>5. ASSUME Bare, Undisturbed(k, ended) PROVE MovesInOrder(k, objects)
  <2>1. MovesTogether /\ MovesInOrder(op[o], objects)
    BY <1>2, <1>4, <1>5 DEF SplitInv, MovesTogether, Undisturbed
  <2>2. s = From(op[o].name, step)
    <3>1. /\ objects = InPublic => Found(o, t) = {"public"}
          /\ objects = AtHome => Found(o, t) = {Moves[step].target}
      BY <1>2, FoundInPlace DEF t
    <3>2. objects \in {InPublic, AtHome}
      BY <2>1 DEF MovesTogether
    <3> QED BY <1>1, <1>2, <3>1, <3>2 DEF From, Target, Movers
  <2> QED BY <1>4, <2>1, <2>2 DEF MovesInOrder, step
<1>6. Bare => k.seen = << >>
  BY <1>4 DEF SplitInv, MovesTogether
<1> QED BY <1>2, <1>5, <1>6, MovesGoOn

LEMMA MoveMoves ==
  ASSUME SplitInv, SchemaInv', NEW o \in Operators, MoveTable(o)
  PROVE  SplitInv'
<1> DEFINE step == op[o].step
           t == Moves[step].table
           moved == [op[o].moved EXCEPT ![t] = op[o].found]
           k == [op[o] EXCEPT !.moved = moved, !.found = "", !.step = step + 1]
<1>1. /\ op' = [op EXCEPT ![o] = k] /\ UNCHANGED <<objects, applied, ended, born>>
      /\ op[o].name \in Movers /\ op[o].found # "" /\ <<op[o].found, t>> \in objects
  BY DEF MoveTable, Altering, Movers
<1>2. ScriptStands(op[o], Len(ended))
  BY DEF SplitInv, SchemaInv, SchemaTypes
<1>3. /\ k.name = op[o].name /\ k.step = step + 1 /\ k.found = "" /\ k.moved = moved
      /\ k.seen = op[o].seen /\ k.began = op[o].began
  BY <1>2 DEF ScriptStands, RunFields
<1>4. step \in 1..8 /\ op[o].found \in Schemas /\ DOMAIN op[o].moved = Legacy
  BY <1>1, <1>2, MovesAre DEF ScriptStands
<1>5. t \in Legacy /\ \A i \in 1..8 : Moves[i].table \in Legacy /\ (Moves[i].table = t => i = step)
  BY <1>4, MovesAre, TablesDiffer
<1>6. /\ moved[t] = op[o].found
      /\ \A i \in 1..8 : i # step => moved[Moves[i].table] = op[o].moved[Moves[i].table]
  BY <1>4, <1>5
<1> HIDE DEF k, moved
<1>7. ASSUME Bare, Undisturbed(k, ended) PROVE MovesInOrder(k, objects)
  <2>1. MovesTogether /\ MovesInOrder(op[o], objects)
    BY <1>1, <1>3, <1>7 DEF SplitInv, MovesTogether, Undisturbed
  <2>2. op[o].found = From(op[o].name, step)
    BY <1>1, <2>1 DEF MovesInOrder
  <2>3. objects = BeforeMove(op[o].name)
    <3>1. /\ <<op[o].found, t>> \in InPublic <=> op[o].found = "public"
          /\ <<op[o].found, t>> \in AtHome <=> op[o].found = Moves[step].target
          /\ Moves[step].target # "public"
      BY <1>4, PlacesAre
    <3>2. objects \in {InPublic, AtHome}
      BY <2>1 DEF MovesTogether
    <3> HIDE DEF step, t
    <3> QED BY <1>1, <2>2, <3>1, <3>2 DEF From, BeforeMove
  <2> HIDE DEF step
  <2>4. \A i \in 1..8 : (i < step + 1 => i < step \/ i = step) /\ (i < step => i < step + 1) /\ step < step + 1
    BY <1>4
  <2>5. ASSUME NEW i \in 1..8, i < k.step, k.moved[Moves[i].table] = "" PROVE objects = AfterMove(k.name)
    <3>1. i # step
      BY <1>1, <1>3, <1>6, <2>5 DEF step
    <3>2. i < step /\ op[o].moved[Moves[i].table] = ""
      BY <1>3, <1>6, <2>4, <2>5, <3>1
    <3> QED BY <1>3, <2>1, <3>2 DEF MovesInOrder, step
  <2>6. ASSUME NEW i \in 1..8, k.moved[Moves[i].table] # ""
        PROVE  i < k.step /\ k.moved[Moves[i].table] = From(k.name, i) /\ objects = BeforeMove(k.name)
    <3>1. CASE i = step
      BY <1>3, <1>6, <2>2, <2>3, <2>4, <3>1 DEF step
    <3>2. CASE i # step
      <4>1. op[o].moved[Moves[i].table] # "" /\ k.moved[Moves[i].table] = op[o].moved[Moves[i].table]
        BY <1>3, <1>6, <2>6, <3>2
      <4>2. i < step /\ op[o].moved[Moves[i].table] = From(op[o].name, i)
        BY <2>1, <4>1 DEF MovesInOrder, step
      <4> QED BY <1>3, <2>3, <2>4, <4>1, <4>2
    <3> QED BY <3>1, <3>2
  <2> QED BY <1>3, <2>5, <2>6 DEF MovesInOrder
<1>8. Bare => k.seen = << >>
  BY <1>3 DEF SplitInv, MovesTogether
<1> QED BY <1>1, <1>7, <1>8, MovesGoOn

\* A commit leaves the tables together where the script was to bring them, and
\* no other script of its direction has moved one.
LEMMA MoveIsCommitted ==
  ASSUME SplitInv, SchemaInv', NEW o \in Operators, MoveCommits(o)
  PROVE  SplitInv'
<1> DEFINE moved == {i \in DOMAIN Moves : op[o].moved[Moves[i].table] # ""}
           name == op[o].name
<1>1. /\ End(o, "done") /\ applied' = applied /\ name \in Movers /\ op[o].step = 9
      /\ objects' = (objects \ {<<op[o].moved[Moves[i].table], Moves[i].table>> : i \in moved})
                       \cup {<<Target(o, i), Moves[i].table>> : i \in moved}
  <2>1. Len(Moves) + 1 = 9
    BY MovesAre
  <2>2. objects' = AllMoved(o) /\ End(o, "done") /\ applied' = applied /\ name \in Movers /\ op[o].step = 9
    BY <2>1 DEF MoveCommits, Movers
  <2> QED BY <2>2 DEF AllMoved
<1>2. moved \subseteq 1..8
  BY MovesAre
<1> SUFFICES ASSUME Bare'
             PROVE  /\ objects' \in {InPublic, AtHome}
                    /\ \A d \in Databases : applied'[d] = << >>
                    /\ \A p \in Operators \ {o} :
                         op[p].name \in Movers /\ Undisturbed(op[p], ended') => MovesInOrder(op[p], objects')
  BY <1>1, MovesEnd DEF Endings
<1>3. Bare /\ Undisturbed(op[o], ended)
  BY <1>1, BareWasBare DEF SplitInv, Endings
<1>4. MovesTogether /\ MovesInOrder(op[o], objects)
  BY <1>1, <1>3 DEF SplitInv, MovesTogether
<1>5. /\ \A i \in (1..8) \ moved : objects = AfterMove(name)
      /\ \A i \in moved : op[o].moved[Moves[i].table] = From(name, i) /\ objects = BeforeMove(name)
  <2>1. \A i \in 1..8 : i < 9
    OBVIOUS
  <2> QED BY <1>1, <1>2, <1>4, <2>1, MovesAre DEF MovesInOrder
<1>6. BeforeMove(name) # AfterMove(name)
  BY PlacesDiffer DEF BeforeMove, AfterMove
<1>7. (moved = {} /\ objects = AfterMove(name)) \/ (moved = 1..8 /\ objects = BeforeMove(name))
  <2>1. CASE moved = {}
    <3> HIDE DEF moved
    <3>1. 1 \in 1..8 /\ 1 \notin moved
      BY <2>1
    <3>2. objects = AfterMove(name)
      BY <1>5, <3>1
    <3> QED BY <2>1, <3>2
  <2>2. CASE moved # {}
    <3>1. objects = BeforeMove(name)
      BY <1>5, <2>2
    <3>2. (1..8) \ moved = {}
      BY <1>5, <1>6, <3>1
    <3> QED BY <1>2, <3>1, <3>2
  <2> QED BY <2>1, <2>2
<1> HIDE DEF moved
<1>8. objects' = AfterMove(name)
  <2>1. CASE moved = {}
    BY <1>1, <1>7, <2>1
  <2>2. CASE moved = 1..8 /\ objects = BeforeMove(name)
    <3>1. BeforeMove(name) = {<<From(name, i), Moves[i].table>> : i \in 1..8}
      BY MovesAre, LegacyIsMoved DEF BeforeMove, From, InPublic, AtHome
    <3>2. AfterMove(name) = {<<Target(o, i), Moves[i].table>> : i \in 1..8}
      BY <1>1, MovesAre, LegacyIsMoved DEF AfterMove, Target, InPublic, AtHome, Movers
    <3>3. objects \ {<<op[o].moved[Moves[i].table], Moves[i].table>> : i \in moved} = {}
      BY <1>5, <2>2, <3>1
    <3> QED BY <1>1, <2>2, <3>2, <3>3
  <2> QED BY <1>7, <2>1, <2>2
<1>9. ASSUME NEW p \in Operators \ {o}, op[p].name \in Movers, Undisturbed(op[p], ended')
      PROVE  MovesInOrder(op[p], objects')
  <2>1. Undisturbed(op[p], ended) /\ {name, op[p].name} # Movers
    BY <1>1, <1>9, WasUndisturbed DEF SplitInv, Endings
  <2>2. op[p].name = name
    BY <1>1, <1>9, <2>1 DEF Movers
  <2>3. MovesInOrder(op[p], objects)
    BY <1>4, <1>9, <2>1 DEF MovesTogether
  <2>4. \A i \in 1..8 : op[p].moved[Moves[i].table] = ""
    <3> SUFFICES ASSUME NEW i \in 1..8, op[p].moved[Moves[i].table] # "" PROVE FALSE
      OBVIOUS
    <3>1. objects = BeforeMove(name)
      BY <2>2, <2>3 DEF MovesInOrder
    <3>2. moved = 1..8 /\ Moves[i].table \in Legacy
      BY <1>6, <1>7, <3>1, MovesAre
    <3>3. op[o].moved[Moves[i].table] # ""
      BY <3>2 DEF moved
    <3>4. o \in locked[Moves[i].table] /\ p \in locked[Moves[i].table]
      BY <3>2, <3>3 DEF SplitInv, SchemaInv, MoversLock
    <3> QED BY <3>2, <3>4 DEF SplitInv, SchemaInv, MoversLock
  <2> QED BY <1>8, <2>2, <2>3, <2>4 DEF MovesInOrder
<1>10. objects' \in {InPublic, AtHome}
  BY <1>8 DEF AfterMove
<1>11. \A d \in Databases : applied'[d] = << >>
  BY <1>1, <1>4 DEF MovesTogether
<1> QED BY <1>9, <1>10, <1>11

LEMMA SplitInvNext == SplitInv /\ [SchemaNext]_schemaVars => SplitInv'
<1> SUFFICES ASSUME SplitInv, [SchemaNext]_schemaVars PROVE SplitInv'
  OBVIOUS
<1>0. SchemaInv'
  BY SchemaInvNext DEF SplitInv
<1>1. ASSUME NEW o \in Operators, NEW name \in Scripts, NEW d \in Databases, Start(o, name, d) PROVE SplitInv'
  BY <1>0, <1>1, MoveStarts
<1>2. ASSUME NEW o \in Operators, Skip(o) PROVE SplitInv'
  BY <1>0, <1>2, MoveSkips
<1>3. ASSUME NEW o \in Operators, Look(o) PROVE SplitInv'
  BY <1>0, <1>3, MoveLooks
<1>4. ASSUME NEW o \in Operators, MoveTable(o) PROVE SplitInv'
  BY <1>0, <1>4, MoveMoves
<1>5. ASSUME NEW o \in Operators, MoveFails(o) PROVE SplitInv'
  <2>1. End(o, "failed") /\ UNCHANGED <<objects, applied>>
    BY <1>5 DEF MoveFails
  <2> QED BY <1>0, <2>1, NothingMoves DEF Endings
<1>6. ASSUME NEW o \in Operators, MoveCommits(o) PROVE SplitInv'
  BY <1>0, <1>6, MoveIsCommitted
<1>7. ASSUME NEW o \in Operators, Bootstrap(o) PROVE SplitInv'
  <2>1. End(o, "done") /\ op[o].name = "bootstrap"
    BY <1>7 DEF Bootstrap
  <2>2. ~Bare'
    BY <2>1, BareWasBare DEF SplitInv, Endings
  <2> QED BY <1>0, <2>2 DEF SplitInv
<1>8. ASSUME NEW o \in Operators, Migrate(o) PROVE SplitInv'
  <2>1. CASE AllRun(o)
    <3>1. End(o, "done") /\ op[o].name = "migrate"
      BY <1>8, <2>1 DEF Migrate
    <3>2. ~Bare'
      BY <3>1, BareWasBare DEF SplitInv, Endings
    <3> QED BY <1>0, <3>2 DEF SplitInv
  <2>2. CASE ~AllRun(o)
    <3>1. End(o, "failed") /\ UNCHANGED <<objects, applied>>
      BY <1>8, <2>2 DEF Migrate
    <3> QED BY <1>0, <3>1, NothingMoves DEF Endings
  <2> QED BY <2>1, <2>2
<1>9. ASSUME NEW o \in Operators, Revert(o) PROVE SplitInv'
  <2>1. CASE op[o].seen = << >>
    <3>1. End(o, "failed") /\ UNCHANGED <<objects, applied>>
      BY <1>9, <2>1 DEF Revert
    <3> QED BY <1>0, <3>1, NothingMoves DEF Endings
  <2>2. CASE op[o].seen # << >>
    <3>1. PICK how \in Endings : End(o, how)
      BY <1>9 DEF Revert, Endings
    <3>2. ~Bare'
      BY <2>2, <3>1, BareWasBare DEF SplitInv, MovesTogether
    <3> QED BY <1>0, <3>2 DEF SplitInv
  <2> QED BY <2>1, <2>2
<1>10. ASSUME NEW o \in Operators, ScriptDies(o) PROVE SplitInv'
  <2>1. End(o, "died") /\ UNCHANGED <<objects, applied>>
    BY <1>10 DEF ScriptDies
  <2> QED BY <1>0, <2>1, NothingMoves DEF Endings
<1>11. CASE UNCHANGED schemaVars
  BY <1>0, <1>11 DEF schemaVars, SplitInv, Bare, Ended, Crossed, Overlap, MovesTogether
<1> QED
  <2>1. CASE SchemaNext
    BY <2>1, <1>1, <1>2, <1>3, <1>4, <1>5, <1>6, <1>7, <1>8, <1>9, <1>10 DEF SchemaNext
  <2> QED BY <2>1, <1>11

\* However many splits and rollbacks start, fail, die and commit, a legacy
\* database stays in one piece unless a split and a rollback ran at the same time.
THEOREM LegacyMovesAsAWhole == SchemaSpec => []LegacyStaysTogether
<1>1. SchemaInit => SplitInv
  BY SplitInvInit
<1>2. SplitInv /\ [SchemaNext]_schemaVars => SplitInv'
  BY SplitInvNext
<1>3. SplitInv => LegacyStaysTogether
  <2> SUFFICES ASSUME SplitInv, Bare
               PROVE  \/ \A t \in Legacy : {x \in objects : x[2] = t} = {<<"public", t>>}
                      \/ \A t \in Legacy : {x \in objects : x[2] = t} = {<<s, t>> : s \in HomeOf(t)}
    BY DEF LegacyStaysTogether, Bare, InPublic
  <2>1. CASE objects = InPublic
    BY <2>1 DEF InPublic
  <2>2. CASE objects = AtHome
    BY <2>2 DEF AtHome, HomeOf
  <2> QED BY <2>1, <2>2 DEF SplitInv, MovesTogether
<1> QED BY <1>1, <1>2, <1>3, PTL DEF SchemaSpec

-----------------------------------------------------------------------------
(* The plan settings *)


IsList(l) == \E T : l \in Seq(T)

LEMMA ListLength == ASSUME NEW l, IsList(l) PROVE Len(l) \in Nat /\ DOMAIN l = 1..Len(l)
BY LenProperties DEF IsList

LEMMA ListOf ==
  ASSUME NEW n \in Nat, NEW l, DOMAIN l = 1..n, l = [i \in 1..n |-> l[i]]
  PROVE  IsList(l) /\ Len(l) = n
<1> DEFINE T == {l[i] : i \in 1..n}
<1>1. \A i \in 1..n : l[i] \in T
  OBVIOUS
<1> HIDE DEF T
<1>2. [i \in 1..n |-> l[i]] \in Seq(T)
  BY <1>1, IsASeq
<1>3. l \in Seq(T)
  BY <1>2
<1>4. Len(l) = n
  BY <1>3, LenProperties
<1> QED BY <1>3, <1>4 DEF IsList

Appended(l, e) == Append(l, e)
LEMMA ListAppended ==
  ASSUME NEW l, IsList(l), NEW e, NEW m, m = Appended(l, e)
  PROVE  /\ IsList(m) /\ Len(m) = Len(l) + 1 /\ DOMAIN m = 1..(Len(l) + 1)
         /\ m[Len(l) + 1] = e /\ \A i \in 1..Len(l) : m[i] = l[i]
<1>1. PICK T : l \in Seq(T)
  BY DEF IsList
<1>2. l \in Seq(T \cup {e})
  BY <1>1, SeqMonotonic
<1>3. /\ m \in Seq(T \cup {e}) /\ Len(m) = Len(l) + 1
      /\ m[Len(l) + 1] = e /\ \A i \in 1..Len(l) : m[i] = l[i]
  BY <1>2, AppendProperties DEF Appended
<1>4. DOMAIN m = 1..Len(m)
  BY <1>3, LenProperties
<1> QED BY <1>3, <1>4 DEF IsList

LEMMA ListChanged ==
  ASSUME NEW l, IsList(l), NEW k \in DOMAIN l, NEW e, NEW m, m = [l EXCEPT ![k] = e]
  PROVE  /\ IsList(m) /\ Len(m) = Len(l) /\ DOMAIN m = DOMAIN l
         /\ m[k] = e /\ \A i \in DOMAIN l : i # k => m[i] = l[i]
<1>1. Len(l) \in Nat /\ DOMAIN l = 1..Len(l)
  BY ListLength
<1>2. m = [i \in DOMAIN l |-> IF i = k THEN e ELSE l[i]]
  OBVIOUS
<1>3. DOMAIN m = 1..Len(l) /\ m = [i \in 1..Len(l) |-> m[i]]
  BY <1>1, <1>2
<1> QED BY <1>1, <1>2, <1>3, ListOf

Joined(l, m) == l \o m
LEMMA ListJoined ==
  ASSUME NEW l, IsList(l), NEW m, IsList(m), NEW j, j = Joined(l, m)
  PROVE  /\ IsList(j)
         /\ \A i \in DOMAIN j : (\E k \in DOMAIN l : j[i] = l[k]) \/ (\E k \in DOMAIN m : j[i] = m[k])
         /\ \A k \in DOMAIN l : \E i \in DOMAIN j : j[i] = l[k]
         /\ \A k \in DOMAIN m : \E i \in DOMAIN j : j[i] = m[k]
<1>1. PICK T : l \in Seq(T)
  BY DEF IsList
<1>2. PICK U : m \in Seq(U)
  BY DEF IsList
<1>3. l \in Seq(T \cup U) /\ m \in Seq(T \cup U)
  BY <1>1, <1>2, SeqMonotonic
<1>4. /\ j \in Seq(T \cup U) /\ Len(j) = Len(l) + Len(m)
      /\ \A i \in 1..(Len(l) + Len(m)) : j[i] = IF i <= Len(l) THEN l[i] ELSE m[i - Len(l)]
  BY <1>3, ConcatProperties DEF Joined
<1>5. /\ Len(l) \in Nat /\ DOMAIN l = 1..Len(l) /\ Len(m) \in Nat /\ DOMAIN m = 1..Len(m)
      /\ DOMAIN j = 1..(Len(l) + Len(m))
  BY <1>3, <1>4, LenProperties
<1>6. IsList(j)
  BY <1>4 DEF IsList
<1>7. ASSUME NEW i \in DOMAIN j
      PROVE  (\E k \in DOMAIN l : j[i] = l[k]) \/ (\E k \in DOMAIN m : j[i] = m[k])
  <2>1. CASE i <= Len(l)
    BY <1>4, <1>5, <2>1
  <2>2. CASE ~(i <= Len(l))
    <3>1. i - Len(l) \in 1..Len(m)
      BY <1>5, <2>2
    <3> QED BY <1>4, <1>5, <2>2, <3>1
  <2> QED BY <2>1, <2>2
<1>8. ASSUME NEW k \in DOMAIN l PROVE \E i \in DOMAIN j : j[i] = l[k]
  BY <1>4, <1>5
<1>9. ASSUME NEW k \in DOMAIN m PROVE \E i \in DOMAIN j : j[i] = m[k]
  <2>1. Len(l) + k \in 1..(Len(l) + Len(m)) /\ ~(Len(l) + k <= Len(l)) /\ (Len(l) + k) - Len(l) = k
    BY <1>5
  <2> QED BY <1>4, <1>5, <2>1
<1> QED BY <1>6, <1>7, <1>8, <1>9

LEMMA ListKept ==
  ASSUME NEW l, IsList(l), NEW keep, keep \subseteq DOMAIN l, NEW m, m = Kept(l, keep)
  PROVE  /\ IsList(m)
         /\ \A i \in DOMAIN m : \E k \in keep : m[i] = l[k]
         /\ \A k \in keep : \E i \in DOMAIN m : m[i] = l[k]
<1>1. Len(l) \in Nat /\ DOMAIN l = 1..Len(l)
  BY ListLength
<1>2. IsFiniteSet(1..Len(l))
  BY <1>1, FS_Interval
<1>3. keep \subseteq Nat /\ IsFiniteSet(keep)
  BY <1>1, <1>2, FS_Subset
<1> DEFINE T == {l[k] : k \in keep}
<1>4. \A k \in keep : l[k] \in T
  OBVIOUS
<1> HIDE DEF T
<1>5. m \in Seq(T)
  BY <1>3, <1>4, KeptIsAList
<1>6. IsChosen(m, l, keep)
  BY <1>3, KeptElements
<1> QED BY <1>5, <1>6 DEF IsList, IsChosen

LEMMA ListLeast ==
  ASSUME NEW found, found \subseteq Nat, found # {}
  PROVE  Min(found) \in found /\ \A j \in found : ~(j < Min(found))
<1>1. PICK x \in found : \A y \in found : ~(<<y, x>> \in OpToRel(<, Nat))
  BY WFMin, NatLessThanWellFounded
<1>2. \A y \in found : ~(y < x)
  BY <1>1 DEF OpToRel
<1>3. \A y \in found : x <= y
  <2> SUFFICES ASSUME NEW y \in found PROVE x <= y
    OBVIOUS
  <2>1. x \in Nat /\ y \in Nat /\ ~(y < x)
    BY <1>2
  <2> QED BY <2>1
<1>4. PICK m : m = Min(found)
  OBVIOUS
<1>5. m \in found /\ \A j \in found : m <= j
  BY <1>3, <1>4 DEF Min
<1>6. ASSUME NEW j \in found PROVE ~(j < m)
  <2>1. m \in Nat /\ j \in Nat /\ m <= j
    BY <1>5
  <2> QED BY <2>1
<1> QED BY <1>4, <1>5, <1>6

(* The catalogue *)

DefaultTier == [starter |-> "FREE", growth |-> "PRO", pro |-> "PRO", business |-> "AGENCY"]
PlanFields == {"id", "tier", "price", "status", "starts", "ends", "quotas"}
IsPlan(p) == p = [f \in PlanFields |-> p[f]] /\ p.status \in Statuses /\ p.id \in StoredIds
ArePlans(plans) == IsList(plans) /\ \A i \in DOMAIN plans : IsPlan(plans[i])
\* The default plans have their codes, and the added ones have none of those.
HasItsCode(p) ==
  IF p.id \in DOMAIN DefaultTier THEN p.tier = DefaultTier[p.id] ELSE p.tier \notin SubscriptionTiers
Coded(plans) == \A i \in DOMAIN plans : HasItsCode(plans[i])

\* The defaults that settings keep, and what stands for one.
IsDefault(d) == \E i \in DOMAIN DefaultPlans : d = DefaultPlans[i]
Stays(s, d) == IsDefault(d) /\ d.id \notin s.deleted
Regular(s, d) == NormalizePlan(Override(s.plans, d), d)
Standing(s, p) == \A d : Stays(s, d) => ~(p.id = Regular(s, d).id) /\ ~(p.tier = Regular(s, d).tier)
Matches(s, d) == {i \in DOMAIN s.plans : s.plans[i].id = d.id \/ s.plans[i].tier = d.tier}

LEMMA DefaultsAre ==
  /\ DOMAIN DefaultTier = {"starter", "growth", "pro", "business"} /\ DOMAIN DefaultQuotas = DOMAIN DefaultTier
  /\ DOMAIN DefaultPlans = 1..4 /\ IsList(DefaultPlans)
  /\ \A d : IsDefault(d) =>
       /\ IsPlan(d) /\ d.id \in DOMAIN DefaultTier
       /\ d.tier = DefaultTier[d.id] /\ d.tier \in SubscriptionTiers
<1>1. DOMAIN DefaultTier = {"starter", "growth", "pro", "business"} /\ DOMAIN DefaultQuotas = DOMAIN DefaultTier
  BY DEF DefaultTier, DefaultQuotas
<1>2. DOMAIN DefaultPlans = 1..4
  BY DEF DefaultPlans
<1>3. DefaultPlans = [i \in 1..4 |-> DefaultPlans[i]]
  BY DEF DefaultPlans
<1>4. IsList(DefaultPlans)
  BY <1>2, <1>3, ListOf
<1>5. ASSUME NEW i \in 1..4, NEW d, d = DefaultPlans[i]
      PROVE  /\ IsPlan(d) /\ d.id \in DOMAIN DefaultTier
             /\ d.tier = DefaultTier[d.id] /\ d.tier \in SubscriptionTiers
  <2>1. PICK id, tier, price : d = DefaultPlan(id, tier, price) /\ <<id, tier>> \in
            {<<"starter", "FREE">>, <<"growth", "PRO">>, <<"pro", "PRO">>, <<"business", "AGENCY">>}
    BY <1>5 DEF DefaultPlans
  <2>2. d = [f \in PlanFields |-> d[f]] /\ d.id = id /\ d.tier = tier /\ d.status \in Statuses
    BY <2>1 DEF DefaultPlan, PlanFields, Statuses
  <2>3. id \in DOMAIN DefaultTier /\ tier = DefaultTier[id]
    <3>1. /\ DefaultTier["starter"] = "FREE" /\ DefaultTier["growth"] = "PRO"
          /\ DefaultTier["pro"] = "PRO" /\ DefaultTier["business"] = "AGENCY"
      BY DEF DefaultTier
    <3>2. \/ id = "starter" /\ tier = "FREE"
          \/ id = "growth" /\ tier = "PRO"
          \/ id = "pro" /\ tier = "PRO"
          \/ id = "business" /\ tier = "AGENCY"
      BY <2>1
    <3> QED BY <1>1, <3>1, <3>2
  <2>4. tier \in SubscriptionTiers
    BY <2>1 DEF SubscriptionTiers
  <2> QED BY <1>1, <2>2, <2>3, <2>4 DEF IsPlan, StoredIds
<1> QED BY <1>1, <1>2, <1>4, <1>5 DEF IsDefault

\* A plan with all its fields is normalized to itself, and a missing one to the
\* fallback.
LEMMA NormalizedPlan ==
  ASSUME NEW p, NEW d, NEW n, n = NormalizePlan(p, d)
  PROVE  /\ IsPlan(p) /\ DOMAIN d \subseteq PlanFields => n = p
         /\ p = Nothing /\ IsPlan(d) => n = d
<1> DEFINE given == [f \in {g \in DOMAIN p : g # "status" \/ p[g] \in Statuses} |-> p[f]]
           known == Over(given, d)
           rest == [tier |-> known.id, price |-> 0, status |-> "DRAFT", starts |-> NoDate, ends |-> NoDate,
                    quotas |-> IF known.id \in DOMAIN DefaultQuotas THEN DefaultQuotas[known.id]
                               ELSE DefaultQuotas.starter]
<1>1. n = Over(known, rest)
  BY DEF NormalizePlan
<1>2. DOMAIN rest \subseteq PlanFields
  BY DEF PlanFields
<1>3. ASSUME IsPlan(p)
      PROVE  DOMAIN given = DOMAIN p /\ \A f \in DOMAIN p : given[f] = p[f]
  BY <1>3 DEF IsPlan
<1>4. p = Nothing => DOMAIN given = {}
  BY DEF Nothing
<1>5. known = Over(given, d)
  OBVIOUS
<1> HIDE DEF given, known, rest
<1>6. /\ DOMAIN known = DOMAIN given \cup DOMAIN d
      /\ \A x \in DOMAIN given : known[x] = given[x]
      /\ \A x \in DOMAIN d \ DOMAIN given : known[x] = d[x]
  BY <1>5 DEF Over
<1>7. /\ DOMAIN n = DOMAIN known \cup DOMAIN rest
      /\ \A x \in DOMAIN known : n[x] = known[x]
      /\ n = [x \in DOMAIN n |-> n[x]]
  BY <1>1 DEF Over
<1>8. ASSUME IsPlan(p), DOMAIN d \subseteq PlanFields PROVE n = p
  <2>1. DOMAIN p = PlanFields /\ p = [x \in PlanFields |-> p[x]]
    BY <1>8 DEF IsPlan
  <2>2. DOMAIN n = PlanFields /\ \A x \in PlanFields : n[x] = p[x]
    BY <1>2, <1>3, <1>6, <1>7, <1>8, <2>1
  <2> QED BY <1>7, <2>1, <2>2
<1>9. ASSUME p = Nothing, IsPlan(d) PROVE n = d
  <2>1. DOMAIN d = PlanFields /\ d = [x \in PlanFields |-> d[x]]
    BY <1>9 DEF IsPlan
  <2>2. DOMAIN n = PlanFields /\ \A x \in PlanFields : n[x] = d[x]
    BY <1>2, <1>4, <1>6, <1>7, <1>9, <2>1
  <2> QED BY <1>7, <2>1, <2>2
<1> QED BY <1>8, <1>9

\* What stands for a default is the first plan with its id or its tier, if there
\* is one, and the default itself if not.
LEMMA RegularOf ==
  ASSUME NEW s, ArePlans(s.plans), NEW d, IsDefault(d), NEW r, r = Regular(s, d)
  PROVE  /\ IsPlan(r)
         /\ r = d \/ \E j \in Matches(s, d) : r = s.plans[j]
<1>1. IsPlan(d) /\ DOMAIN d \subseteq PlanFields
  BY DefaultsAre DEF IsPlan
<1>2. Override(s.plans, d) = IF Matches(s, d) = {} THEN Nothing ELSE s.plans[Min(Matches(s, d))]
  BY DEF Override, Matches
<1>3. CASE Matches(s, d) = {}
  <2>1. r = NormalizePlan(Nothing, d)
    BY <1>2, <1>3 DEF Regular
  <2> QED BY <1>1, <2>1, NormalizedPlan
<1>4. CASE Matches(s, d) # {}
  <2>1. Matches(s, d) \subseteq Nat
    BY ListLength DEF Matches, ArePlans
  <2>2. PICK m : m = Min(Matches(s, d))
    OBVIOUS
  <2>3. m \in Matches(s, d)
    BY <1>4, <2>1, <2>2, ListLeast
  <2>4. r = NormalizePlan(s.plans[m], d)
    BY <1>2, <1>4, <2>2 DEF Regular
  <2>5. IsPlan(s.plans[m])
    BY <2>3 DEF ArePlans, Matches
  <2> QED BY <1>1, <2>3, <2>4, <2>5, NormalizedPlan
<1> QED BY <1>3, <1>4

\* As long as the codes are in order it is a default plan with the code of one.
LEMMA RegularHasTier ==
  ASSUME NEW s, ArePlans(s.plans), Coded(s.plans), NEW d, IsDefault(d), NEW r, r = Regular(s, d)
  PROVE  r.tier = d.tier /\ r.id \in DOMAIN DefaultTier /\ HasItsCode(r)
<1>1. d.id \in DOMAIN DefaultTier /\ d.tier = DefaultTier[d.id] /\ d.tier \in SubscriptionTiers
  BY DefaultsAre
<1>2. CASE r = d
  BY <1>1, <1>2 DEF HasItsCode
<1>3. CASE \E j \in Matches(s, d) : r = s.plans[j]
  BY <1>1, <1>3 DEF Matches, Coded, HasItsCode
<1> QED BY <1>2, <1>3, RegularOf

\* What normalized settings consist of: what stands for each default that
\* stays, and the stored plans with neither an id nor a tier of those.
LEMMA NormalFacts ==
  ASSUME NEW s, ArePlans(s.plans), NEW n, n = NormalizeSettings(s)
  PROVE  /\ DOMAIN n = {"plans", "deleted"} /\ n.deleted = s.deleted /\ ArePlans(n.plans)
         /\ \A j \in DOMAIN s.plans : Standing(s, s.plans[j]) => \E i \in DOMAIN n.plans : n.plans[i] = s.plans[j]
         /\ \A i \in DOMAIN n.plans :
              \/ \E d : Stays(s, d) /\ n.plans[i] = Regular(s, d)
              \/ \E j \in DOMAIN s.plans : Standing(s, s.plans[j]) /\ n.plans[i] = s.plans[j]
<1> DEFINE K == {i \in DOMAIN DefaultPlans : DefaultPlans[i].id \notin s.deleted}
           kept == Kept(DefaultPlans, K)
           regular == [i \in DOMAIN kept |-> NormalizePlan(Override(s.plans, kept[i]), kept[i])]
           C == {i \in DOMAIN s.plans : \A r \in ToSet(regular) : s.plans[i].id # r.id /\ s.plans[i].tier # r.tier}
           custom == Kept(s.plans, C)
           others == [i \in DOMAIN custom |-> NormalizePlan(custom[i], Nothing)]
<1>1. n = [plans |-> regular \o others, deleted |-> s.deleted]
  BY DEF NormalizeSettings
<1>2. /\ IsList(kept) /\ \A i \in DOMAIN kept : \E k \in K : kept[i] = DefaultPlans[k]
      /\ \A k \in K : \E i \in DOMAIN kept : kept[i] = DefaultPlans[k]
  <2> HIDE DEF K
  <2>1. K \subseteq DOMAIN DefaultPlans
    BY DEF K
  <2> QED BY <2>1, DefaultsAre, ListKept
<1>3. /\ \A i \in DOMAIN kept : Stays(s, kept[i])
      /\ \A d : Stays(s, d) => \E i \in DOMAIN kept : kept[i] = d
  <2> HIDE DEF kept
  <2> QED BY <1>2 DEF K, Stays, IsDefault
<1>4. DOMAIN regular = DOMAIN kept /\ \A i \in DOMAIN kept : regular[i] = Regular(s, kept[i])
  BY DEF Regular
<1>5. IsList(regular)
  <2>1. Len(kept) \in Nat /\ DOMAIN kept = 1..Len(kept)
    BY <1>2, ListLength
  <2>2. DOMAIN regular = 1..Len(kept) /\ regular = [i \in 1..Len(kept) |-> regular[i]]
    BY <2>1
  <2> HIDE DEF regular, kept
  <2> QED BY <2>1, <2>2, ListOf
<1>6. \A r : r \in ToSet(regular) <=> \E d : Stays(s, d) /\ r = Regular(s, d)
  <2> HIDE DEF regular, kept
  <2> QED BY <1>3, <1>4 DEF ToSet
<1>7. \A j : j \in C <=> j \in DOMAIN s.plans /\ Standing(s, s.plans[j])
  <2> HIDE DEF regular
  <2> QED BY <1>6 DEF Standing
<1>8. /\ IsList(custom) /\ \A i \in DOMAIN custom : \E k \in C : custom[i] = s.plans[k]
      /\ \A k \in C : \E i \in DOMAIN custom : custom[i] = s.plans[k]
  <2> HIDE DEF C
  <2>1. C \subseteq DOMAIN s.plans
    BY <1>7
  <2> QED BY <2>1, ListKept DEF ArePlans
<1>9. DOMAIN others = DOMAIN custom /\ \A i \in DOMAIN custom : others[i] = NormalizePlan(custom[i], Nothing)
  OBVIOUS
<1>10. IsList(others)
  <2>1. Len(custom) \in Nat /\ DOMAIN custom = 1..Len(custom)
    BY <1>8, ListLength
  <2>2. DOMAIN others = 1..Len(custom) /\ others = [i \in 1..Len(custom) |-> others[i]]
    BY <2>1
  <2> HIDE DEF others, custom
  <2> QED BY <2>1, <2>2, ListOf
<1> HIDE DEF K, kept, regular, C, custom, others
<1>11. PICK all : all = regular \o others
  OBVIOUS
<1>12. /\ IsList(all)
       /\ \A i \in DOMAIN all : (\E k \in DOMAIN regular : all[i] = regular[k]) \/ (\E k \in DOMAIN others : all[i] = others[k])
       /\ \A k \in DOMAIN regular : \E i \in DOMAIN all : all[i] = regular[k]
       /\ \A k \in DOMAIN others : \E i \in DOMAIN all : all[i] = others[k]
  <2>1. PICK l, m : l = regular /\ m = others
    OBVIOUS
  <2>2. IsList(l) /\ IsList(m) /\ all = Joined(l, m)
    BY <1>5, <1>10, <1>11, <2>1 DEF Joined
  <2>3. /\ IsList(all)
        /\ \A i \in DOMAIN all : (\E k \in DOMAIN l : all[i] = l[k]) \/ (\E k \in DOMAIN m : all[i] = m[k])
        /\ \A k \in DOMAIN l : \E i \in DOMAIN all : all[i] = l[k]
        /\ \A k \in DOMAIN m : \E i \in DOMAIN all : all[i] = m[k]
    BY <2>2, ListJoined
  <2> QED BY <2>1, <2>3
<1>13. DOMAIN n = {"plans", "deleted"} /\ n.deleted = s.deleted /\ n.plans = all
  BY <1>1, <1>11
<1>14. \A k \in DOMAIN regular : IsPlan(regular[k])
  BY <1>3, <1>4, RegularOf DEF Stays
<1>15. \A k \in DOMAIN others : others[k] = custom[k] /\ IsPlan(others[k])
  <2> SUFFICES ASSUME NEW k \in DOMAIN others PROVE others[k] = custom[k] /\ IsPlan(others[k])
    OBVIOUS
  <2>1. PICK j \in C : custom[k] = s.plans[j]
    BY <1>8, <1>9
  <2>2. IsPlan(s.plans[j])
    BY <1>7 DEF ArePlans
  <2>3. others[k] = NormalizePlan(s.plans[j], Nothing) /\ DOMAIN Nothing \subseteq PlanFields
    BY <1>9, <2>1 DEF Nothing
  <2>4. others[k] = s.plans[j]
    BY <2>2, <2>3, NormalizedPlan
  <2> QED BY <2>1, <2>2, <2>4
<1>17. ArePlans(n.plans)
  BY <1>12, <1>13, <1>14, <1>15 DEF ArePlans
<1>19. ASSUME NEW j \in DOMAIN s.plans, Standing(s, s.plans[j])
       PROVE  \E i \in DOMAIN n.plans : n.plans[i] = s.plans[j]
  <2>1. PICK k \in DOMAIN others : others[k] = s.plans[j]
    BY <1>7, <1>8, <1>9, <1>15, <1>19
  <2> QED BY <1>12, <1>13, <2>1
<1>20. ASSUME NEW i \in DOMAIN n.plans
       PROVE  \/ \E d : Stays(s, d) /\ n.plans[i] = Regular(s, d)
              \/ \E j \in DOMAIN s.plans : Standing(s, s.plans[j]) /\ n.plans[i] = s.plans[j]
  <2>1. CASE \E k \in DOMAIN regular : all[i] = regular[k]
    BY <1>3, <1>4, <1>13, <2>1
  <2>2. CASE \E k \in DOMAIN others : all[i] = others[k]
    BY <1>7, <1>8, <1>9, <1>13, <1>15, <2>2
  <2> QED BY <1>12, <1>13, <2>1, <2>2
<1> QED BY <1>13, <1>17, <1>19, <1>20

\* The id is none that a plan gets which is created from time n on.
Taken(id, n) == \A t \in NewTiers, a \in Admins, m \in n..MaxSaves : id # NewId(t, a, m)
IsSettings(s, n) ==
  /\ DOMAIN s = {"plans", "deleted"} /\ s.deleted \subseteq StoredIds
  /\ ArePlans(s.plans) /\ \A i \in DOMAIN s.plans : Taken(s.plans[i].id, n)
\* Settings t have of every other id the plans that s has.
KeepsOthers(s, t, id) == \A x : x # id => Named(t.plans, x) = Named(s.plans, x)
Lacks(s, id) == id \in s.deleted /\ \A i \in DOMAIN s.plans : s.plans[i].id # id

LEMMA DefaultIsTaken ==
  ASSUME NEW id \in DOMAIN DefaultTier, NEW n \in Nat PROVE Taken(id, n) /\ id \in StoredIds
<1>1. id \in DOMAIN DefaultQuotas
  BY DefaultsAre
<1>2. \A m \in n..MaxSaves : m \in 0..MaxSaves
  BY PlanSettingsAssumption
<1>3. ASSUME NEW t \in NewTiers, NEW a \in Admins, NEW m \in n..MaxSaves PROVE id # NewId(t, a, m)
  <2>1. m \in 0..MaxSaves
    BY <1>2
  <2> QED BY <1>1, <2>1, NewIdsAssumption
<1> QED BY <1>1, <1>3 DEF Taken, StoredIds

LEMMA TakenLater ==
  ASSUME NEW n \in Nat, NEW m \in Nat, n <= m, NEW id, Taken(id, n) PROVE Taken(id, m)
<1>1. \A k \in m..MaxSaves : k \in n..MaxSaves
  BY PlanSettingsAssumption
<1> QED BY <1>1 DEF Taken

\* What stands for a default that stays has its id or that of a stored plan.
LEMMA RegularId ==
  ASSUME NEW s, ArePlans(s.plans), NEW d, Stays(s, d)
  PROVE  Regular(s, d).id = d.id \/ \E j \in DOMAIN s.plans : Regular(s, d).id = s.plans[j].id
<1>1. PICK r : r = Regular(s, d)
  OBVIOUS
<1>2. r = d \/ \E j \in Matches(s, d) : r = s.plans[j]
  BY <1>1, RegularOf DEF Stays
<1> QED BY <1>1, <1>2 DEF Matches

\* What is deleted and not stored is not offered.
LEMMA NormalLacks ==
  ASSUME NEW s, ArePlans(s.plans), NEW id, Lacks(s, id) PROVE Lacks(NormalizeSettings(s), id)
<1>1. PICK n : n = NormalizeSettings(s)
  OBVIOUS
<1>2. /\ n.deleted = s.deleted
      /\ \A i \in DOMAIN n.plans :
              \/ \E d : Stays(s, d) /\ n.plans[i] = Regular(s, d)
              \/ \E j \in DOMAIN s.plans : Standing(s, s.plans[j]) /\ n.plans[i] = s.plans[j]
  BY <1>1, NormalFacts
<1>3. ASSUME NEW d, Stays(s, d) PROVE Regular(s, d).id # id
  <2>1. d.id # id
    BY <1>3 DEF Stays, Lacks
  <2> QED BY <1>3, <2>1, RegularId DEF Lacks
<1>4. \A i \in DOMAIN n.plans : n.plans[i].id # id
  BY <1>2, <1>3 DEF Lacks
<1> QED BY <1>1, <1>2, <1>4 DEF Lacks

LEMMA NormalIsSettings ==
  ASSUME NEW s, NEW m \in Nat, IsSettings(s, m) PROVE IsSettings(NormalizeSettings(s), m)
<1>1. PICK n : n = NormalizeSettings(s)
  OBVIOUS
<1>2. ArePlans(s.plans)
  BY DEF IsSettings
<1>3. /\ DOMAIN n = {"plans", "deleted"} /\ n.deleted = s.deleted /\ ArePlans(n.plans)
      /\ \A i \in DOMAIN n.plans :
              \/ \E d : Stays(s, d) /\ n.plans[i] = Regular(s, d)
              \/ \E j \in DOMAIN s.plans : Standing(s, s.plans[j]) /\ n.plans[i] = s.plans[j]
  BY <1>1, <1>2, NormalFacts
<1>4. ASSUME NEW d, Stays(s, d) PROVE Taken(Regular(s, d).id, m)
  <2>1. Taken(d.id, m)
    BY <1>4, DefaultsAre, DefaultIsTaken DEF Stays
  <2> QED BY <1>2, <1>4, <2>1, RegularId DEF IsSettings
<1>5. \A i \in DOMAIN n.plans : Taken(n.plans[i].id, m)
  BY <1>3, <1>4 DEF IsSettings
<1> QED BY <1>1, <1>3, <1>5 DEF IsSettings

\* Settings whose codes are in order stay so when they are normalized, and keep
\* every plan that was added.
LEMMA NormalKeepsAdded ==
  ASSUME NEW s, ArePlans(s.plans), Coded(s.plans)
  PROVE  /\ Coded(NormalizeSettings(s).plans)
         /\ \A x : x \notin DOMAIN DefaultTier => Named(NormalizeSettings(s).plans, x) = Named(s.plans, x)
<1>1. PICK n : n = NormalizeSettings(s)
  OBVIOUS
<1>2. /\ \A j \in DOMAIN s.plans : Standing(s, s.plans[j]) => \E i \in DOMAIN n.plans : n.plans[i] = s.plans[j]
      /\ \A i \in DOMAIN n.plans :
              \/ \E d : Stays(s, d) /\ n.plans[i] = Regular(s, d)
              \/ \E j \in DOMAIN s.plans : Standing(s, s.plans[j]) /\ n.plans[i] = s.plans[j]
  BY <1>1, NormalFacts
<1>3. ASSUME NEW d, Stays(s, d)
      PROVE  /\ Regular(s, d).id \in DOMAIN DefaultTier /\ HasItsCode(Regular(s, d))
             /\ Regular(s, d).tier \in SubscriptionTiers
  BY <1>3, RegularHasTier, DefaultsAre DEF Stays
<1>4. Coded(n.plans)
  BY <1>2, <1>3 DEF Coded
<1>5. ASSUME NEW x, x \notin DOMAIN DefaultTier PROVE Named(n.plans, x) = Named(s.plans, x)
  <2>1. ASSUME NEW j \in DOMAIN s.plans, s.plans[j].id = x PROVE Standing(s, s.plans[j])
    <3>1. s.plans[j].tier \notin SubscriptionTiers
      BY <1>5, <2>1 DEF Coded, HasItsCode
    <3> QED BY <1>3, <1>5, <2>1, <3>1 DEF Standing
  <2>2. ASSUME NEW p \in Named(s.plans, x) PROVE p \in Named(n.plans, x)
    BY <1>2, <2>1 DEF Named
  <2>3. ASSUME NEW p \in Named(n.plans, x) PROVE p \in Named(s.plans, x)
    BY <1>2, <1>3, <1>5 DEF Named
  <2> QED BY <2>2, <2>3
<1> QED BY <1>1, <1>4, <1>5

\* Plans that keep their ids stay sound settings, without what was deleted; so do
\* the other plans when only those with one id change.
LEMMA ChangedPlans ==
  ASSUME NEW s, NEW m \in Nat, IsSettings(s, m), NEW t, DOMAIN t = {"plans", "deleted"},
         t.deleted = s.deleted, IsList(t.plans), DOMAIN t.plans = DOMAIN s.plans, NEW id,
         \A i \in DOMAIN s.plans :
           /\ IsPlan(t.plans[i]) /\ t.plans[i].id = s.plans[i].id
           /\ s.plans[i].id # id => t.plans[i] = s.plans[i]
  PROVE  /\ IsSettings(t, m) /\ KeepsOthers(s, t, id) /\ Ids(t.plans) = Ids(s.plans)
         /\ \A x : Lacks(s, x) => Lacks(t, x)
<1>1. ASSUME NEW i \in DOMAIN t.plans PROVE IsPlan(t.plans[i]) /\ Taken(t.plans[i].id, m)
  BY DEF IsSettings
<1>2. IsSettings(t, m)
  BY <1>1 DEF IsSettings, ArePlans
<1>3. \A x : Lacks(s, x) => Lacks(t, x)
  BY DEF Lacks
<1>4. ASSUME NEW x, x # id PROVE Named(t.plans, x) = Named(s.plans, x)
  <2>1. ASSUME NEW p \in Named(t.plans, x) PROVE p \in Named(s.plans, x)
    BY <1>4 DEF Named
  <2>2. ASSUME NEW p \in Named(s.plans, x) PROVE p \in Named(t.plans, x)
    BY <1>4 DEF Named
  <2> QED BY <2>1, <2>2
<1>5. Ids(t.plans) = Ids(s.plans)
  BY DEF Ids
<1> QED BY <1>2, <1>3, <1>4, <1>5 DEF KeepsOthers

\* Without a clash the codes stay in order.
Recoded(p, q) == q.tier = p.tier \/ (p.id \notin DOMAIN DefaultTier /\ q.tier \notin SubscriptionTiers)
LEMMA RecodedPlans ==
  ASSUME NEW s, NEW t, DOMAIN t.plans = DOMAIN s.plans, Coded(s.plans),
         \A i \in DOMAIN s.plans : t.plans[i].id = s.plans[i].id /\ Recoded(s.plans[i], t.plans[i])
  PROVE  Coded(t.plans)
BY DEF Coded, HasItsCode, Recoded

\* A plan that is added comes behind all others.
LEMMA AddedPlan ==
  ASSUME NEW s, NEW m \in Nat, IsSettings(s, m), NEW p, IsPlan(p), Taken(p.id, m + 1),
         NEW t, DOMAIN t = {"plans", "deleted"}, t.deleted = s.deleted, t.plans = Appended(s.plans, p)
  PROVE  /\ IsSettings(t, m + 1) /\ KeepsOthers(s, t, p.id) /\ p.id \in Ids(t.plans)
         /\ Coded(s.plans) /\ HasItsCode(p) => Coded(t.plans)
         /\ \A id : Lacks(s, id) /\ id # p.id => Lacks(t, id)
<1>1. PICK l, q : l = s.plans /\ q = Appended(l, p)
  OBVIOUS
<1>2. IsList(l) /\ DOMAIN s = {"plans", "deleted"}
  BY <1>1 DEF IsSettings, ArePlans
<1>3. DOMAIN t = {"plans", "deleted"} /\ t.deleted = s.deleted /\ t.plans = q
  BY <1>1
<1>4. /\ IsList(q) /\ DOMAIN q = 1..(Len(l) + 1)
      /\ q[Len(l) + 1] = p /\ \A i \in 1..Len(l) : q[i] = l[i]
  BY <1>1, <1>2, ListAppended
<1>5. Len(l) \in Nat /\ DOMAIN l = 1..Len(l)
  BY <1>2, ListLength
<1>6. /\ \A i \in DOMAIN q : i \in DOMAIN l \/ i = Len(l) + 1
      /\ \A i \in DOMAIN l : i \in DOMAIN q
      /\ Len(l) + 1 \in DOMAIN q
  BY <1>4, <1>5
<1>7. \A i \in DOMAIN l : q[i] = l[i]
  BY <1>4, <1>5
<1>8. \A i \in DOMAIN l : Taken(l[i].id, m + 1) /\ IsPlan(l[i])
  <2>1. m + 1 \in Nat /\ m <= m + 1
    OBVIOUS
  <2> QED BY <1>1, <2>1, TakenLater DEF IsSettings, ArePlans
<1>9. IsSettings(t, m + 1)
  BY <1>3, <1>4, <1>6, <1>7, <1>8 DEF IsSettings, ArePlans
<1>10. ASSUME NEW x, x # p.id PROVE Named(q, x) = Named(l, x)
  <2>1. ASSUME NEW e \in Named(q, x) PROVE e \in Named(l, x)
    BY <1>4, <1>6, <1>7, <1>10 DEF Named
  <2>2. ASSUME NEW e \in Named(l, x) PROVE e \in Named(q, x)
    BY <1>6, <1>7 DEF Named
  <2> QED BY <2>1, <2>2
<1>11. \A id : Lacks(s, id) /\ id # p.id => Lacks(t, id)
  BY <1>1, <1>3, <1>4, <1>6, <1>7 DEF Lacks
<1>12. Coded(s.plans) /\ HasItsCode(p) => Coded(t.plans)
  BY <1>1, <1>3, <1>4, <1>6, <1>7 DEF Coded
<1>13. p.id \in Ids(t.plans)
  BY <1>3, <1>4, <1>6 DEF Ids
<1> QED BY <1>1, <1>3, <1>9, <1>10, <1>11, <1>12, <1>13 DEF KeepsOthers

\* What is deleted is noted, and nothing else goes.
LEMMA RemovedPlan ==
  ASSUME NEW s, NEW m \in Nat, IsSettings(s, m), NEW id \in StoredIds,
         NEW t, DOMAIN t = {"plans", "deleted"}, t.plans = Without(s.plans, id), t.deleted = s.deleted \cup {id}
  PROVE  /\ IsSettings(t, m) /\ KeepsOthers(s, t, id) /\ Lacks(t, id)
         /\ Coded(s.plans) => Coded(t.plans)
         /\ \A x : Lacks(s, x) => Lacks(t, x)
<1> DEFINE keep == {i \in DOMAIN s.plans : s.plans[i].id # id}
<1>1. PICK q : q = Kept(s.plans, keep)
  OBVIOUS
<1>2. DOMAIN t = {"plans", "deleted"} /\ t.plans = q /\ t.deleted = s.deleted \cup {id}
  BY <1>1 DEF Without
<1>3. \A k : k \in keep <=> k \in DOMAIN s.plans /\ s.plans[k].id # id
  OBVIOUS
<1> HIDE DEF keep
<1>4. /\ IsList(q)
      /\ \A i \in DOMAIN q : \E k \in keep : q[i] = s.plans[k]
      /\ \A k \in keep : \E i \in DOMAIN q : q[i] = s.plans[k]
  <2>1. IsList(s.plans) /\ keep \subseteq DOMAIN s.plans
    BY <1>3 DEF IsSettings, ArePlans
  <2> QED BY <1>1, <2>1, ListKept
<1>5. IsSettings(t, m)
  BY <1>2, <1>3, <1>4 DEF IsSettings, ArePlans
<1>6. ASSUME NEW x, x # id PROVE Named(q, x) = Named(s.plans, x)
  <2>1. ASSUME NEW e \in Named(q, x) PROVE e \in Named(s.plans, x)
    BY <1>3, <1>4 DEF Named
  <2>2. ASSUME NEW e \in Named(s.plans, x) PROVE e \in Named(q, x)
    BY <1>3, <1>4, <1>6 DEF Named
  <2> QED BY <2>1, <2>2
<1>7. Lacks(t, id)
  BY <1>2, <1>3, <1>4 DEF Lacks
<1>8. \A x : Lacks(s, x) => Lacks(t, x)
  BY <1>2, <1>3, <1>4 DEF Lacks
<1>9. Coded(s.plans) => Coded(t.plans)
  BY <1>2, <1>3, <1>4 DEF Coded
<1> QED BY <1>2, <1>5, <1>6, <1>7, <1>8, <1>9 DEF KeepsOthers

(* The requests *)

CallRecords(T) ==
  [at : {"idle", "save", "record"}, op : {"create", "update", "delete", "toggle"}, id : StoredIds \cup {""},
   clash : BOOLEAN, row : Nat, seen : Nat, after : T]
SavesNow(c) == call[c].at = "save"
\* Nothing that was saved made the codes of plans clash.
Unclashed == \A k \in DOMAIN saved : ~saved[k].clash
\* What a request is about to save: sound settings, with the plan it is about
\* unless that is deleted, and of every other added plan what is current if no
\* save has changed it since the request read.
SavesWell(c) ==
  /\ IsSettings(call[c].after, call[c].seen + 1)
  /\ call[c].op = "delete" => Lacks(call[c].after, call[c].id) /\ Taken(call[c].id, call[c].seen)
  /\ call[c].op = "delete" \/ call[c].id \in DOMAIN DefaultTier \/ call[c].id \in Ids(call[c].after.plans)
  /\ Unclashed /\ ~call[c].clash => Coded(call[c].after.plans)
  /\ \A x : x # call[c].id =>
       \/ Named(call[c].after.plans, x) = Named(Current.plans, x)
       \/ \E k \in (call[c].seen + 1)..Len(saved) : x \in saved[k].changed
PlansTypes ==
  /\ IsList(rows) /\ \A i \in DOMAIN rows : IsSettings(rows[i], Len(saved)) /\ (Unclashed => Coded(rows[i].plans))
  /\ IsList(saved) /\ (saved # << >> => rows # << >>)
  /\ \A i \in DOMAIN saved :
       saved[i].seen \in 0..(i - 1) /\ (saved[i].op = "delete" => Taken(saved[i].id, saved[i].seen))
  /\ \E T : call \in [Admins -> CallRecords(T)]
  /\ \A c \in Admins :
       call[c].row \in 0..Len(rows) /\ call[c].seen \in 0..Len(saved) /\ (SavesNow(c) => SavesWell(c))
\* A deletion that no save was unaware of is in the latest row, and in all that was
\* read since.
Undone(i) == saved[i].behind \/ \E k \in (i + 1)..Len(saved) : saved[k].seen < i
DeletionsHold ==
  \A i \in DOMAIN saved : saved[i].op = "delete" /\ ~Undone(i) =>
    /\ Lacks(rows[Len(rows)], saved[i].id)
    /\ \A c \in Admins : SavesNow(c) /\ call[c].seen >= i => Lacks(call[c].after, saved[i].id)
PlansInv == PlansTypes /\ DeletionsHold /\ AddedPlansAreKept

\* What is offered is sound, and without what was deleted for good.
LEMMA CurrentIsSound ==
  ASSUME PlansInv
  PROVE  /\ IsSettings(Current, Len(saved))
         /\ Unclashed => Coded(Current.plans)
         /\ \A i \in DOMAIN saved : saved[i].op = "delete" /\ ~Undone(i) => Lacks(Current, saved[i].id)
<1> DEFINE r == IF rows = << >> THEN NoSettings ELSE rows[Len(rows)]
<1>1. Current = NormalizeSettings(r)
  BY DEF Current, Latest
<1>2. IsList(rows) /\ IsList(saved)
  BY DEF PlansInv, PlansTypes
<1>3. Len(rows) \in Nat /\ DOMAIN rows = 1..Len(rows) /\ Len(saved) \in Nat /\ DOMAIN saved = 1..Len(saved)
  BY <1>2, ListLength
<1>4. rows # << >> => Len(rows) \in DOMAIN rows
  <2> SUFFICES ASSUME rows # << >> PROVE Len(rows) \in DOMAIN rows
    OBVIOUS
  <2>1. PICK T : rows \in Seq(T)
    BY <1>2 DEF IsList
  <2>2. Len(rows) # 0
    BY <2>1, EmptySeq
  <2> QED BY <1>3, <2>2
<1>5. IsSettings(NoSettings, Len(saved)) /\ Coded(NoSettings.plans)
  <2>1. NoSettings.plans = << >> /\ NoSettings.deleted = {} /\ DOMAIN NoSettings = {"plans", "deleted"}
    BY DEF NoSettings
  <2>2. IsList(<< >>) /\ DOMAIN << >> = {}
    <3>1. << >> \in Seq({})
      OBVIOUS
    <3> QED BY <3>1 DEF IsList
  <2> QED BY <2>1, <2>2 DEF IsSettings, ArePlans, Coded
<1>6. IsSettings(r, Len(saved)) /\ (Unclashed => Coded(r.plans))
  BY <1>4, <1>5 DEF PlansInv, PlansTypes
<1>7. ASSUME NEW i \in DOMAIN saved, saved[i].op = "delete", ~Undone(i) PROVE Lacks(Current, saved[i].id)
  <2>1. saved # << >>
    BY <1>7
  <2>2. Lacks(r, saved[i].id)
    BY <1>7, <2>1 DEF PlansInv, PlansTypes, DeletionsHold
  <2>3. ArePlans(r.plans)
    BY <1>6 DEF IsSettings
  <2> HIDE DEF r
  <2> QED BY <1>1, <2>2, <2>3, NormalLacks
<1> HIDE DEF r
<1>8. ASSUME Unclashed PROVE Coded(Current.plans)
  <2>1. ArePlans(r.plans) /\ Coded(r.plans)
    BY <1>6, <1>8 DEF IsSettings
  <2> QED BY <1>1, <2>1, NormalKeepsAdded
<1> QED BY <1>1, <1>3, <1>6, <1>7, <1>8, NormalIsSettings

\* A request that begins is to save sound settings.
LEMMA BeginKeeps ==
  ASSUME PlansInv, NEW a \in Admins, NEW o \in {"create", "update", "delete", "toggle"},
         NEW id \in StoredIds, NEW clash \in BOOLEAN, NEW after, Begin(a, o, id, clash, after),
         IsSettings(after, Len(saved) + 1),
         Unclashed /\ ~clash => Coded(after.plans), KeepsOthers(Current, after, id),
         o = "delete" \/ id \in DOMAIN DefaultTier \/ id \in Ids(after.plans),
         o = "delete" => Lacks(after, id) /\ Taken(id, Len(saved)),
         \A i \in DOMAIN saved : saved[i].op = "delete" /\ ~Undone(i) => Lacks(after, saved[i].id)
  PROVE  PlansInv'
<1> DEFINE new == [at |-> "save", op |-> o, id |-> id, clash |-> clash, row |-> Len(rows), seen |-> Len(saved), after |-> after]
<1>1. call' = [call EXCEPT ![a] = new] /\ UNCHANGED <<rows, saved, audited>>
  BY DEF Begin
<1>2. PICK T : call \in [Admins -> CallRecords(T)]
  BY DEF PlansInv, PlansTypes
<1>3. Len(rows) \in Nat /\ Len(saved) \in Nat
  BY ListLength DEF PlansInv, PlansTypes
<1>4. /\ new.at = "save" /\ new.op = o /\ new.id = id /\ new.row = Len(rows) /\ new.seen = Len(saved)
      /\ new.after = after /\ new.clash = clash /\ new \in CallRecords(T \cup {after})
  BY <1>3 DEF CallRecords
<1> HIDE DEF new
<1>5. call'[a] = new /\ \A c \in Admins \ {a} : call'[c] = call[c]
  BY <1>1, <1>2
<1>6. call' \in [Admins -> CallRecords(T \cup {after})]
  <2>1. CallRecords(T) \subseteq CallRecords(T \cup {after})
    BY DEF CallRecords
  <2> QED BY <1>1, <1>2, <1>4, <2>1
<1>7. Current' = Current /\ (Unclashed' <=> Unclashed) /\ \A i : Undone(i)' <=> Undone(i)
  BY <1>1 DEF Current, Latest, Unclashed, Undone
<1>8. ASSUME NEW c \in Admins
      PROVE  /\ call'[c].row \in 0..Len(rows) /\ call'[c].seen \in 0..Len(saved)
             /\ SavesNow(c)' => SavesWell(c)'
  <2>1. CASE c = a
    <3>2. SavesWell(c)'
      BY <1>1, <1>4, <1>5, <1>7, <2>1 DEF SavesWell, KeepsOthers
    <3> QED BY <1>3, <1>4, <1>5, <2>1, <3>2
  <2>2. CASE c # a
    <3>1. call'[c] = call[c]
      BY <1>5, <2>2
    <3>2. SavesWell(c)' <=> SavesWell(c)
      BY <1>1, <1>7, <3>1 DEF SavesWell
    <3> QED BY <3>1, <3>2 DEF PlansInv, PlansTypes, SavesNow
  <2> QED BY <2>1, <2>2
<1>9. PlansTypes'
  BY <1>1, <1>6, <1>7, <1>8 DEF PlansInv, PlansTypes
<1>10. DeletionsHold'
  BY <1>1, <1>4, <1>5, <1>7 DEF PlansInv, DeletionsHold, SavesNow
<1>11. AddedPlansAreKept'
  BY <1>1, <1>7 DEF PlansInv, AddedPlansAreKept
<1> QED BY <1>9, <1>10, <1>11 DEF PlansInv

\* Time only adds to the ids that are taken.
LEMMA SettingsLater ==
  ASSUME NEW n \in Nat, NEW m \in Nat, n <= m, NEW s, IsSettings(s, n) PROVE IsSettings(s, m)
<1>1. \A id : Taken(id, n) => Taken(id, m)
  BY TakenLater
<1> QED BY <1>1 DEF IsSettings

\* The rows behind a save: what was saved is the latest row, or the latest stays.
LEMMA RowsAfterSave ==
  ASSUME PlansInv, NEW a \in Admins, NEW stored, stored = Written(a)
  PROVE  /\ IsList(stored) /\ stored # << >> /\ Len(rows) <= Len(stored)
         /\ \A i \in DOMAIN stored : stored[i] = call[a].after \/ (i \in DOMAIN rows /\ stored[i] = rows[i])
         /\ stored[Len(stored)] = call[a].after \/ (rows # << >> /\ stored[Len(stored)] = rows[Len(rows)])
         /\ call[a].row \in {0, Len(rows)} => stored[Len(stored)] = call[a].after
<1>1. IsList(rows) /\ call[a].row \in 0..Len(rows)
  BY DEF PlansInv, PlansTypes
<1>2. Len(rows) \in Nat /\ DOMAIN rows = 1..Len(rows)
  BY <1>1, ListLength
<1>3. \A l : IsList(l) /\ Len(l) # 0 => l # << >>
  <2> SUFFICES ASSUME NEW l, IsList(l), Len(l) # 0 PROVE l # << >>
    OBVIOUS
  <2>1. PICK T : l \in Seq(T)
    BY DEF IsList
  <2> QED BY <2>1, EmptySeq
<1>4. CASE call[a].row > 0
  <2>1. PICK k, e : k = call[a].row /\ e = call[a].after
    OBVIOUS
  <2>2. k \in DOMAIN rows /\ stored = [rows EXCEPT ![k] = e]
    <3>1. k \in 1..Len(rows)
      BY <1>1, <1>2, <1>4, <2>1
    <3>2. Written(a) = [rows EXCEPT ![k] = e]
      BY <1>4, <2>1 DEF Written
    <3> QED BY <1>2, <3>1, <3>2
  <2>3. /\ IsList(stored) /\ Len(stored) = Len(rows) /\ DOMAIN stored = DOMAIN rows
        /\ stored[k] = e /\ \A i \in DOMAIN rows : i # k => stored[i] = rows[i]
    BY <1>1, <2>2, ListChanged
  <2>4. Len(rows) # 0 /\ Len(rows) \in DOMAIN rows /\ Len(rows) <= Len(rows)
    BY <1>2, <2>2
  <2>5. stored # << >> /\ rows # << >>
    BY <1>1, <1>3, <2>3, <2>4
  <2>6. call[a].row \in {0, Len(rows)} => k = Len(rows)
    BY <1>1, <1>2, <1>4, <2>1
  <2>7. stored[Len(stored)] = e \/ (rows # << >> /\ stored[Len(stored)] = rows[Len(rows)])
    BY <2>3, <2>4, <2>5
  <2> QED BY <2>1, <2>3, <2>4, <2>5, <2>6, <2>7
<1>5. CASE ~(call[a].row > 0)
  <2>1. PICK e : e = call[a].after
    OBVIOUS
  <2>2. stored = Appended(rows, e)
    BY <1>5, <2>1 DEF Written, Appended
  <2>3. /\ IsList(stored) /\ Len(stored) = Len(rows) + 1 /\ DOMAIN stored = 1..(Len(rows) + 1)
        /\ stored[Len(rows) + 1] = e /\ \A i \in 1..Len(rows) : stored[i] = rows[i]
    BY <1>1, <2>2, ListAppended
  <2>4. Len(rows) + 1 # 0 /\ Len(rows) <= Len(rows) + 1
        /\ \A i \in 1..(Len(rows) + 1) : i = Len(rows) + 1 \/ i \in 1..Len(rows)
    BY <1>2
  <2>5. stored # << >>
    BY <1>3, <2>3, <2>4
  <2> QED BY <1>2, <2>1, <2>3, <2>4, <2>5
<1> QED BY <1>4, <1>5

\* What a save changes is what it is about, or was changed since its request read.
LEMMA SaveKeeps ==
  ASSUME PlansInv, NEW a \in Admins, Save(a)
  PROVE  PlansInv'
<1> DEFINE after == Latest(Written(a)).plans
           entry == [op |-> call[a].op, id |-> call[a].id, seen |-> call[a].seen, clash |-> call[a].clash,
                     behind |-> call[a].row \notin {0, Len(rows)}, changed |-> ChangedIds(Current.plans, after),
                     kept |-> call[a].id \in Ids(after)]
<1>0. PICK N : N = Len(saved)
  OBVIOUS
<1>1. /\ call[a].at = "save" /\ rows' = Written(a) /\ saved' = Append(saved, entry)
      /\ call' = [call EXCEPT ![a].at = "record"]
  BY DEF Save
<1>2. PICK T : call \in [Admins -> CallRecords(T)]
  BY DEF PlansInv, PlansTypes
<1>3. IsList(rows) /\ IsList(saved) /\ Len(rows) \in Nat /\ N \in Nat /\ DOMAIN saved = 1..N
  BY <1>0, ListLength DEF PlansInv, PlansTypes
<1>4. entry.op = call[a].op /\ entry.id = call[a].id /\ entry.seen = call[a].seen
      /\ entry.clash = call[a].clash /\ (~entry.behind <=> call[a].row \in {0, Len(rows)})
      /\ entry.changed = ChangedIds(Current.plans, after) /\ (entry.kept <=> call[a].id \in Ids(after))
  OBVIOUS
<1>5. SavesWell(a) /\ call[a].seen \in 0..N
  BY <1>0, <1>1 DEF PlansInv, PlansTypes, SavesNow
<1> HIDE DEF after, entry
<1>6. /\ IsList(saved') /\ Len(saved') = N + 1 /\ DOMAIN saved' = 1..(N + 1)
      /\ saved'[N + 1] = entry /\ \A i \in 1..N : saved'[i] = saved[i]
  <2>1. PICK m : m = saved'
    OBVIOUS
  <2>2. m = Appended(saved, entry)
    BY <1>1, <2>1 DEF Appended
  <2>3. /\ IsList(m) /\ Len(m) = N + 1 /\ DOMAIN m = 1..(N + 1)
        /\ m[N + 1] = entry /\ \A i \in 1..N : m[i] = saved[i]
    BY <1>0, <1>3, <2>2, ListAppended
  <2> QED BY <2>1, <2>3
<1>7. PICK stored : stored = rows'
  OBVIOUS
<1>8. /\ IsList(stored) /\ stored # << >> /\ Len(rows) <= Len(stored) /\ Len(stored) \in Nat
      /\ \A i \in DOMAIN stored : stored[i] = call[a].after \/ (i \in DOMAIN rows /\ stored[i] = rows[i])
      /\ stored[Len(stored)] = call[a].after \/ (rows # << >> /\ stored[Len(stored)] = rows[Len(rows)])
      /\ call[a].row \in {0, Len(rows)} => stored[Len(stored)] = call[a].after
  BY <1>1, <1>7, RowsAfterSave, ListLength
<1>9. /\ call'[a].at = "record" /\ call'[a].row = call[a].row /\ call'[a].seen = call[a].seen
      /\ \A c \in Admins \ {a} : call'[c] = call[c]
      /\ call' \in [Admins -> CallRecords(T)]
  BY <1>1, <1>2 DEF CallRecords
<1>10. (N + 1) \in Nat /\ N <= N + 1 /\ N + 1 > 0
  BY <1>3
<1>11. \A i \in 1..(N + 1) : i \in 1..N \/ i = N + 1
  BY <1>3
<1>12. \A i \in 1..N : i \in 1..(N + 1) /\ N + 1 > i /\ i # N + 1
  BY <1>3
\* A deletion that is undone stays so, and one that is not was seen by the new save.
<1>13. ASSUME NEW i \in 1..N PROVE /\ Undone(i) => Undone(i)'
                                   /\ ~Undone(i)' => call[a].seen >= i
  <2>0. /\ N + 1 \in (i + 1)..Len(saved') /\ \A k \in (i + 1)..N : k \in 1..N /\ k \in (i + 1)..Len(saved')
        /\ i \in 1..(N + 1)
    BY <1>3, <1>6
  <2>1. Undone(i) => Undone(i)'
    BY <1>0, <1>6, <2>0 DEF Undone
  <2>2. ~Undone(i)' => ~(saved'[N + 1].seen < i)
    BY <2>0 DEF Undone
  <2>3. saved'[N + 1].seen = call[a].seen /\ call[a].seen \in Nat
    BY <1>4, <1>5, <1>6
  <2> QED BY <1>3, <2>1, <2>2, <2>3
\* The latest settings are then what was saved, or what they were.
<1>14. /\ after = Current'.plans
       /\ Current' = NormalizeSettings(call[a].after) \/ Current' = Current
       /\ call[a].row \in {0, Len(rows)} => Current' = NormalizeSettings(call[a].after)
  <2>1. Current' = NormalizeSettings(stored[Len(stored)])
    BY <1>7, <1>8 DEF Current, Latest
  <2>2. rows # << >> => Current = NormalizeSettings(rows[Len(rows)])
    BY DEF Current, Latest
  <2>3. after = Current'.plans
    BY <1>1 DEF after, Current
  <2> QED BY <1>8, <2>1, <2>2, <2>3
<1>24. \A x : x \in entry.changed <=> Named(Current.plans, x) # Named(Current'.plans, x)
  <2>1. \A l, x : x \notin Ids(l) => Named(l, x) = {}
    BY DEF Ids, Named
  <2>2. \A l, m, x : x \in ChangedIds(l, m) <=> Named(l, x) # Named(m, x)
    BY <2>1 DEF ChangedIds
  <2> QED BY <1>4, <1>14, <2>2
<1>23. Unclashed' => Unclashed /\ ~call[a].clash
  <2>1. N + 1 \in DOMAIN saved' /\ saved'[N + 1].clash = call[a].clash
    BY <1>4, <1>6, <1>10
  <2>2. \A k \in DOMAIN saved : k \in DOMAIN saved' /\ saved'[k] = saved[k]
    BY <1>3, <1>6, <1>12
  <2> QED BY <2>1, <2>2 DEF Unclashed
<1>15. \A i \in DOMAIN stored : IsSettings(stored[i], N + 1) /\ (Unclashed' => Coded(stored[i].plans))
  <2>1. IsSettings(call[a].after, N + 1)
    <3>1. call[a].seen + 1 \in Nat /\ call[a].seen + 1 <= N + 1
      BY <1>3, <1>5
    <3> QED BY <1>5, <1>10, <3>1, SettingsLater DEF SavesWell
  <2>2. \A i \in DOMAIN rows : IsSettings(rows[i], N + 1)
    BY <1>0, <1>3, <1>10, SettingsLater DEF PlansInv, PlansTypes
  <2>3. Unclashed' => Coded(call[a].after.plans) /\ \A i \in DOMAIN rows : Coded(rows[i].plans)
    BY <1>5, <1>23 DEF SavesWell, PlansInv, PlansTypes
  <2> QED BY <1>8, <2>1, <2>2, <2>3
<1>16. ASSUME NEW i \in DOMAIN saved'
       PROVE saved'[i].seen \in 0..(i - 1) /\ (saved'[i].op = "delete" => Taken(saved'[i].id, saved'[i].seen))
  <2>1. CASE i \in 1..N
    BY <1>3, <1>6, <2>1 DEF PlansInv, PlansTypes
  <2>2. CASE i = N + 1
    <3>1. i - 1 = N
      BY <1>3, <2>2
    <3> QED BY <1>4, <1>5, <1>6, <2>2, <3>1 DEF SavesWell
  <2> QED BY <1>6, <1>11, <2>1, <2>2
<1>17. ASSUME NEW c \in Admins
       PROVE  /\ call'[c].row \in 0..Len(stored) /\ call'[c].seen \in 0..(N + 1)
              /\ SavesNow(c)' => SavesWell(c)'
  <2>1. call[c].row \in 0..Len(rows) /\ call[c].seen \in 0..N
    BY <1>0 DEF PlansInv, PlansTypes
  <2>2. call'[c].row = call[c].row /\ call'[c].seen = call[c].seen
    BY <1>9
  <2>3. call'[c].row \in 0..Len(stored) /\ call'[c].seen \in 0..(N + 1)
    BY <1>3, <1>8, <2>1, <2>2
  <2>4. ASSUME SavesNow(c)' PROVE SavesWell(c)'
    <3>1. call'[c] = call[c] /\ SavesWell(c)
      BY <1>9, <2>4 DEF SavesNow, PlansInv, PlansTypes
    <3>2. PICK k, n : k = call[c] /\ n = k.seen
      OBVIOUS
    <3>3. N + 1 \in (n + 1)..Len(saved') /\ \A i \in (n + 1)..N : i \in 1..N /\ i \in (n + 1)..Len(saved')
      BY <1>3, <1>6, <2>1, <3>2
    <3>4. ASSUME NEW x, x # k.id
          PROVE  \/ Named(k.after.plans, x) = Named(Current'.plans, x)
                 \/ \E i \in (n + 1)..Len(saved') : x \in saved'[i].changed
      <4>1. CASE \E i \in (n + 1)..N : x \in saved[i].changed
        BY <1>6, <3>3, <4>1
      <4>2. CASE Named(k.after.plans, x) = Named(Current.plans, x)
        BY <1>6, <1>24, <3>3, <4>2
      <4> QED BY <1>0, <3>1, <3>2, <3>4, <4>1, <4>2 DEF SavesWell
    <3> QED BY <1>23, <3>1, <3>2, <3>4 DEF SavesWell
  <2> QED BY <2>3, <2>4
<1>18. PlansTypes'
  <2>1. saved' # << >> => rows' # << >>
    BY <1>7, <1>8
  <2> QED BY <1>0, <1>6, <1>7, <1>8, <1>9, <1>15, <1>16, <1>17, <2>1 DEF PlansTypes
<1>19. ASSUME NEW i \in DOMAIN saved', saved'[i].op = "delete", ~Undone(i)'
       PROVE  /\ Lacks(stored[Len(stored)], saved'[i].id)
              /\ \A c \in Admins : SavesNow(c)' /\ call'[c].seen >= i => Lacks(call'[c].after, saved'[i].id)
  <2>1. CASE i \in 1..N
    <3>1. /\ saved'[i] = saved[i] /\ i \in DOMAIN saved /\ ~Undone(i) /\ call[a].seen >= i
      BY <1>3, <1>6, <1>13, <1>19, <2>1
    <3>2. /\ Lacks(rows[Len(rows)], saved[i].id)
          /\ \A c \in Admins : SavesNow(c) /\ call[c].seen >= i => Lacks(call[c].after, saved[i].id)
      BY <1>19, <3>1 DEF PlansInv, DeletionsHold
    <3>3. Lacks(call[a].after, saved[i].id)
      BY <1>1, <3>1, <3>2 DEF SavesNow
    <3> QED BY <1>8, <1>9, <3>1, <3>2, <3>3 DEF SavesNow
  <2>2. CASE i = N + 1
    <3>2. stored[Len(stored)] = call[a].after
      BY <1>4, <1>6, <1>8, <1>19, <2>2 DEF Undone
    <3>3. Lacks(call[a].after, saved'[i].id)
      BY <1>4, <1>5, <1>6, <1>19, <2>2 DEF SavesWell
    <3>4. \A c \in Admins : ~(call'[c].seen >= i)
      <4> SUFFICES ASSUME NEW c \in Admins PROVE ~(call'[c].seen >= i)
        OBVIOUS
      <4>1. call[c].seen \in 0..N /\ call'[c].seen = call[c].seen
        BY <1>0, <1>9 DEF PlansInv, PlansTypes
      <4> QED BY <1>3, <2>2, <4>1
    <3> QED BY <3>2, <3>3, <3>4
  <2> QED BY <1>6, <1>11, <2>1, <2>2
<1>20. DeletionsHold'
  BY <1>7, <1>19 DEF DeletionsHold
<1>21. ASSUME NEW i \in DOMAIN saved', \A k \in 1..i : ~saved'[k].clash
       PROVE  /\ \A id \in saved'[i].changed \ DOMAIN DefaultQuotas :
                   id = saved'[i].id \/ \E k \in (saved'[i].seen + 1)..(i - 1) : id \in saved'[k].changed
              /\ \/ saved'[i].id \in DOMAIN DefaultQuotas \/ saved'[i].op = "delete"
                 \/ saved'[i].behind \/ saved'[i].kept
  <2>1. CASE i \in 1..N
    <3>1. saved'[i] = saved[i] /\ i \in DOMAIN saved /\ \A k \in 1..i : saved'[k] = saved[k]
      BY <1>3, <1>6, <2>1
    <3>2. \A k \in (saved[i].seen + 1)..(i - 1) : k \in 1..i
      <4>1. saved[i].seen \in 0..(i - 1)
        BY <3>1 DEF PlansInv, PlansTypes
      <4> QED BY <1>3, <2>1, <4>1
    <3>3. \A k \in 1..i : ~saved[k].clash
      BY <1>21, <3>1
    <3> QED BY <3>1, <3>2, <3>3 DEF PlansInv, AddedPlansAreKept
  <2>2. CASE i = N + 1
    <3>1. Unclashed /\ ~call[a].clash
      BY <1>6, <1>21, <1>23, <2>2 DEF Unclashed
    <3>2. PICK new : new = call[a].after
      OBVIOUS
    <3>3. \A x : x \notin DOMAIN DefaultTier => Named(NormalizeSettings(new).plans, x) = Named(new.plans, x)
      <4>1. ArePlans(new.plans) /\ Coded(new.plans)
        BY <1>5, <3>1, <3>2 DEF SavesWell, IsSettings
      <4> QED BY <4>1, NormalKeepsAdded
    <3>4. ASSUME NEW id \in entry.changed, id \notin DOMAIN DefaultTier, id # call[a].id
          PROVE  \E k \in (entry.seen + 1)..N : id \in saved[k].changed
      <4>1. Current' # Current /\ Named(Current.plans, id) # Named(Current'.plans, id)
        BY <1>24, <3>4
      <4>2. Named(Current'.plans, id) = Named(new.plans, id)
        BY <1>14, <3>2, <3>3, <3>4, <4>1
      <4> QED BY <1>0, <1>4, <1>5, <3>2, <3>4, <4>1, <4>2 DEF SavesWell
    <3>5. ASSUME call[a].id \notin DOMAIN DefaultTier, call[a].op # "delete", ~entry.behind
          PROVE  entry.kept
      <4>1. Current' = NormalizeSettings(new) /\ call[a].id \in Ids(new.plans)
        BY <1>4, <1>5, <1>14, <3>2, <3>5 DEF SavesWell
      <4>2. Named(Current'.plans, call[a].id) = Named(new.plans, call[a].id)
        BY <3>3, <3>5, <4>1
      <4>3. \A l, x : x \in Ids(l) <=> Named(l, x) # {}
        BY DEF Ids, Named
      <4> QED BY <1>4, <1>14, <4>1, <4>2, <4>3
    <3>6. \A k \in (entry.seen + 1)..N : k \in 1..N /\ k \in (entry.seen + 1)..(i - 1)
      BY <1>3, <1>4, <1>5, <2>2
    <3> QED BY <1>4, <1>6, <2>2, <3>4, <3>5, <3>6, DefaultsAre
  <2> QED BY <1>6, <1>11, <2>1, <2>2
<1>22. AddedPlansAreKept'
  BY <1>21 DEF AddedPlansAreKept
<1> QED BY <1>18, <1>20, <1>22 DEF PlansInv

LEMMA RequestEnds ==
  ASSUME PlansInv, NEW a \in Admins, call' = [call EXCEPT ![a] = NoCall], UNCHANGED <<rows, saved>>
  PROVE  PlansInv'
<1>1. PICK T : call \in [Admins -> CallRecords(T)]
  BY DEF PlansInv, PlansTypes
<1>2. /\ NoCall.at = "idle" /\ NoCall.row = 0 /\ NoCall.seen = 0 /\ NoCall \in CallRecords(T \cup {NoSettings})
  BY DEF NoCall, CallRecords
<1>3. CallRecords(T) \subseteq CallRecords(T \cup {NoSettings})
  BY DEF CallRecords
<1>4. /\ call' \in [Admins -> CallRecords(T \cup {NoSettings})]
      /\ call'[a] = NoCall /\ \A c \in Admins \ {a} : call'[c] = call[c]
  BY <1>1, <1>2, <1>3
<1>5. Current' = Current /\ (Unclashed' <=> Unclashed) /\ \A i : Undone(i)' <=> Undone(i)
  BY DEF Current, Latest, Unclashed, Undone
<1>6. Len(rows) \in Nat /\ Len(saved) \in Nat
  BY ListLength DEF PlansInv, PlansTypes
<1>7. ASSUME NEW c \in Admins
      PROVE  /\ call'[c].row \in 0..Len(rows) /\ call'[c].seen \in 0..Len(saved)
             /\ SavesNow(c)' => SavesWell(c)'
  <2>1. CASE c = a
    BY <1>2, <1>4, <1>6, <2>1 DEF SavesNow
  <2>2. CASE c # a
    <3>1. call'[c] = call[c]
      BY <1>4, <2>2
    <3>2. SavesWell(c)' <=> SavesWell(c)
      BY <1>5, <3>1 DEF SavesWell
    <3> QED BY <3>1, <3>2 DEF PlansInv, PlansTypes, SavesNow
  <2> QED BY <2>1, <2>2
<1>8. PlansTypes'
  BY <1>4, <1>5, <1>7 DEF PlansInv, PlansTypes
<1>9. DeletionsHold'
  <2>1. ~SavesNow(a)'
    BY <1>2, <1>4 DEF SavesNow
  <2> QED BY <1>4, <1>5, <2>1 DEF PlansInv, DeletionsHold, SavesNow
<1>10. AddedPlansAreKept'
  BY <1>5 DEF PlansInv, AddedPlansAreKept
<1> QED BY <1>8, <1>9, <1>10 DEF PlansInv

LEMMA CreateKeeps ==
  ASSUME PlansInv, NEW a \in Admins, NEW tier \in NewTiers, BeginCreate(a, tier)
  PROVE  PlansInv'
<1>1. PICK p, t, s, clash : /\ p = NewPlan(a, tier) /\ s = Current /\ t = [s EXCEPT !.plans = Append(@, p)]
                           /\ clash = (tier \in SubscriptionTiers)
  OBVIOUS
<1>2. Begin(a, "create", p.id, clash, t) /\ clash \in BOOLEAN
  BY <1>1 DEF BeginCreate
<1>3. IsList(saved) /\ Len(saved) \in Nat /\ DOMAIN saved = 1..Len(saved) /\ Len(saved) \in 0..MaxSaves
  BY <1>2, ListLength, PlanSettingsAssumption DEF PlansInv, PlansTypes, Begin
<1>4. /\ p.id = NewId(tier, a, Len(saved)) /\ p.tier = tier /\ p.status \in Statuses
      /\ p = [f \in PlanFields |-> p[f]]
  BY <1>1 DEF NewPlan, PlanFields, Statuses
<1>5. IsPlan(p) /\ (~clash => HasItsCode(p))
  <2>1. p.id \notin DOMAIN DefaultTier
    BY <1>3, <1>4, NewIdsAssumption, DefaultsAre
  <2>2. ~clash => HasItsCode(p)
    BY <1>1, <1>4, <2>1 DEF HasItsCode
  <2>3. p.id \in StoredIds
    BY <1>3, <1>4 DEF StoredIds
  <2> QED BY <1>4, <2>2, <2>3 DEF IsPlan
<1>6. Taken(p.id, Len(saved) + 1)
  <2> SUFFICES ASSUME NEW u \in NewTiers, NEW b \in Admins, NEW m \in (Len(saved) + 1)..MaxSaves
               PROVE  p.id # NewId(u, b, m)
    BY DEF Taken
  <2>1. PICK n : n = Len(saved)
    OBVIOUS
  <2>2. n \in Nat /\ m \in (n + 1)..MaxSaves /\ MaxSaves \in Nat
    BY <1>3, <2>1, PlanSettingsAssumption
  <2>3. m \in 0..MaxSaves /\ m # n
    BY <2>2
  <2> QED BY <1>3, <1>4, <2>1, <2>3, NewIdsAssumption
<1>7. IsSettings(s, Len(saved))
  BY <1>1, CurrentIsSound
<1>8. /\ IsSettings(t, Len(saved) + 1) /\ KeepsOthers(s, t, p.id) /\ p.id \in Ids(t.plans)
      /\ Coded(s.plans) /\ HasItsCode(p) => Coded(t.plans)
      /\ \A id : Lacks(s, id) /\ id # p.id => Lacks(t, id)
  <2>1. PICK n : n = Len(saved)
    OBVIOUS
  <2>2. n \in Nat /\ IsSettings(s, n) /\ IsPlan(p) /\ Taken(p.id, n + 1)
        /\ DOMAIN t = {"plans", "deleted"} /\ t.deleted = s.deleted /\ t.plans = Appended(s.plans, p)
    BY <1>1, <1>3, <1>5, <1>6, <1>7, <2>1 DEF IsSettings, Appended
  <2>3. /\ IsSettings(t, n + 1) /\ KeepsOthers(s, t, p.id) /\ p.id \in Ids(t.plans)
        /\ Coded(s.plans) /\ HasItsCode(p) => Coded(t.plans)
        /\ \A id : Lacks(s, id) /\ id # p.id => Lacks(t, id)
    BY <2>2, AddedPlan
  <2> QED BY <2>1, <2>3
<1>9. ASSUME NEW i \in DOMAIN saved, saved[i].op = "delete", ~Undone(i) PROVE Lacks(t, saved[i].id)
  <2>1. Lacks(s, saved[i].id)
    BY <1>1, <1>9, CurrentIsSound
  <2>2. Taken(saved[i].id, saved[i].seen) /\ saved[i].seen \in 0..(i - 1)
    BY <1>9 DEF PlansInv, PlansTypes
  <2>3. Len(saved) \in saved[i].seen..MaxSaves
    BY <1>3, <2>2, PlanSettingsAssumption
  <2>4. saved[i].id # p.id
    BY <1>4, <2>2, <2>3 DEF Taken
  <2> QED BY <1>8, <2>1, <2>4
<1>10. p.id \in StoredIds
  BY <1>5 DEF IsPlan
<1>11. Unclashed /\ ~clash => Coded(t.plans)
  BY <1>1, <1>5, <1>8, CurrentIsSound
<1> QED BY <1>1, <1>2, <1>8, <1>9, <1>10, <1>11, BeginKeeps

\* An edit that leaves the plans their ids.
LEMMA ChangeKeeps ==
  ASSUME PlansInv, NEW a \in Admins, NEW o \in {"update", "toggle"}, NEW id \in StoredIds,
         NEW clash \in BOOLEAN, NEW t, Begin(a, o, id, clash, t), DOMAIN t = {"plans", "deleted"},
         t.deleted = Current.deleted, IsList(t.plans), DOMAIN t.plans = DOMAIN Current.plans,
         \A i \in DOMAIN Current.plans :
           /\ IsPlan(t.plans[i]) /\ t.plans[i].id = Current.plans[i].id
           /\ Current.plans[i].id # id => t.plans[i] = Current.plans[i]
           /\ ~clash => Recoded(Current.plans[i], t.plans[i]),
         id \in DOMAIN DefaultTier \/ id \in Ids(Current.plans)
  PROVE  PlansInv'
<1>1. PICK s : s = Current
  OBVIOUS
<1>2. Len(saved) \in Nat /\ Len(saved) + 1 \in Nat /\ Len(saved) <= Len(saved) + 1
  <2>1. Len(saved) \in Nat
    BY ListLength DEF PlansInv, PlansTypes
  <2> QED BY <2>1
<1>3. IsSettings(s, Len(saved))
  BY <1>1, CurrentIsSound
<1>4. /\ IsSettings(t, Len(saved)) /\ KeepsOthers(s, t, id) /\ Ids(t.plans) = Ids(s.plans)
      /\ \A x : Lacks(s, x) => Lacks(t, x)
  <2>1. Len(saved) \in Nat
    BY <1>2
  <2>2. DOMAIN t = {"plans", "deleted"} /\ t.deleted = s.deleted /\ IsList(t.plans) /\ DOMAIN t.plans = DOMAIN s.plans
    BY <1>1
  <2>3. \A i \in DOMAIN s.plans :
           /\ IsPlan(t.plans[i]) /\ t.plans[i].id = s.plans[i].id
           /\ s.plans[i].id # id => t.plans[i] = s.plans[i]
    BY <1>1
  <2> HIDE DEF IsPlan
  <2> QED BY <1>3, <2>1, <2>2, <2>3, ChangedPlans
<1>5. IsSettings(t, Len(saved) + 1)
  BY <1>2, <1>4, SettingsLater
<1>6. \A i \in DOMAIN saved : saved[i].op = "delete" /\ ~Undone(i) => Lacks(t, saved[i].id)
  BY <1>1, <1>4, CurrentIsSound
<1>7. o # "delete" /\ o \in {"create", "update", "delete", "toggle"}
  OBVIOUS
<1>8. ASSUME Unclashed, ~clash PROVE Coded(t.plans)
  <2>1. Coded(s.plans)
    BY <1>1, <1>8, CurrentIsSound
  <2> QED BY <1>1, <1>8, <2>1, RecodedPlans
<1> QED BY <1>1, <1>4, <1>5, <1>6, <1>7, <1>8, BeginKeeps

\* So does one that changes the plans with an id each for itself.
LEMMA MapKeeps ==
  ASSUME PlansInv, NEW a \in Admins, NEW o \in {"update", "toggle"}, NEW id \in StoredIds,
         NEW clash \in BOOLEAN, NEW F, NEW t, Begin(a, o, id, clash, t),
         t = [Current EXCEPT !.plans = [i \in DOMAIN @ |-> IF @[i].id = id THEN F[i] ELSE @[i]]],
         \A i \in DOMAIN Current.plans : Current.plans[i].id = id =>
           /\ IsPlan(F[i]) /\ F[i].id = Current.plans[i].id
           /\ ~clash => Recoded(Current.plans[i], F[i]),
         id \in DOMAIN DefaultTier \/ id \in Ids(Current.plans)
  PROVE  PlansInv'
<1>1. PICK s : s = Current
  OBVIOUS
<1>2. IsSettings(s, Len(saved))
  BY <1>1, CurrentIsSound
<1>3. DOMAIN s = {"plans", "deleted"} /\ ArePlans(s.plans)
  BY <1>2 DEF IsSettings
<1>4. PICK q : q = [i \in DOMAIN s.plans |-> IF s.plans[i].id = id THEN F[i] ELSE s.plans[i]]
  OBVIOUS
<1>5. t = [s EXCEPT !.plans = q]
  BY <1>1, <1>4
<1>7. DOMAIN t = {"plans", "deleted"} /\ t.deleted = s.deleted /\ t.plans = q
  BY <1>3, <1>5
<1>8. IsList(q) /\ DOMAIN q = DOMAIN s.plans
  <2>1. Len(s.plans) \in Nat /\ DOMAIN s.plans = 1..Len(s.plans)
    BY <1>3, ListLength DEF ArePlans
  <2>2. DOMAIN q = 1..Len(s.plans) /\ q = [i \in 1..Len(s.plans) |-> q[i]]
    BY <1>4, <2>1
  <2> QED BY <2>1, <2>2, ListOf
<1>9. ASSUME NEW i \in DOMAIN s.plans
      PROVE  /\ IsPlan(q[i]) /\ q[i].id = s.plans[i].id
             /\ s.plans[i].id # id => q[i] = s.plans[i]
             /\ ~clash => Recoded(s.plans[i], q[i])
  <2>1. IsPlan(s.plans[i])
    BY <1>3 DEF ArePlans
  <2> QED BY <1>1, <1>4, <2>1 DEF Recoded
<1> QED BY <1>1, <1>7, <1>8, <1>9, ChangeKeeps

LEMMA EditableIds ==
  ASSUME PlansInv, NEW id \in Editable
  PROVE  /\ id \in StoredIds /\ Taken(id, Len(saved))
         /\ id \in DOMAIN DefaultTier \/ id \in Ids(Current.plans)
<1>1. Len(saved) \in Nat
  BY ListLength DEF PlansInv, PlansTypes
<1>2. CASE id \in Offered
  BY <1>2, CurrentIsSound DEF Offered, Ids, IsSettings, ArePlans, IsPlan
<1>3. CASE id \in Edited
  <2>1. id \in DOMAIN DefaultTier
    BY <1>3, PlanSettingsAssumption, DefaultsAre
  <2> QED BY <1>1, <2>1, DefaultIsTaken
<1> QED BY <1>2, <1>3 DEF Editable

LEMMA UpdateKeeps ==
  ASSUME PlansInv, NEW a \in Admins, NEW id \in Editable, NEW tier, NEW price, NEW ends,
         BeginUpdate(a, id, tier, price, ends)
  PROVE  PlansInv'
<1>1. PICK s : s = Current
  OBVIOUS
<1>2. DOMAIN s = {"plans", "deleted"} /\ ArePlans(s.plans)
  BY <1>1, CurrentIsSound DEF IsSettings
<1>3. PICK F : F = [i \in DOMAIN s.plans |-> EditPlan(s.plans[i], tier, price, ends)]
  OBVIOUS
<1>4. PICK t : t = [s EXCEPT !.plans = [i \in DOMAIN @ |-> IF @[i].id = id THEN F[i] ELSE @[i]]]
  OBVIOUS
<1>5. PICK clash : clash = (\E i \in DOMAIN s.plans : s.plans[i].id = id /\ Clashes(s.plans[i], tier))
  OBVIOUS
<1>6. t = [s EXCEPT !.plans = [i \in DOMAIN @ |-> IF @[i].id = id THEN EditPlan(@[i], tier, price, ends) ELSE @[i]]]
  BY <1>2, <1>3, <1>4
<1>7. clash \in BOOLEAN /\ Begin(a, "update", id, clash, t)
  BY <1>1, <1>5, <1>6 DEF BeginUpdate, MapPlan
<1>8. ASSUME NEW i \in DOMAIN s.plans, s.plans[i].id = id
      PROVE  /\ IsPlan(F[i]) /\ F[i].id = s.plans[i].id
             /\ ~clash => Recoded(s.plans[i], F[i])
  <2>1. PICK p, e : p = s.plans[i] /\ e = EditPlan(p, tier, price, ends)
    OBVIOUS
  <2>2. F[i] = e /\ IsPlan(p)
    BY <1>2, <1>3, <2>1 DEF ArePlans
  <2>3. IsPlan(e) /\ e.id = p.id /\ e.tier = GivenTier(p, tier)
    BY <2>1, <2>2 DEF EditPlan, IsPlan, PlanFields
  <2>4. ~clash => ~Clashes(p, tier)
    BY <1>5, <1>8, <2>1
  <2>5. ~Clashes(p, tier) => Recoded(p, e)
    BY <2>3, DefaultsAre DEF Clashes, GivenTier, Recoded
  <2> QED BY <2>1, <2>2, <2>3, <2>4, <2>5
<1>9. id \in StoredIds /\ (id \in DOMAIN DefaultTier \/ id \in Ids(Current.plans))
  BY EditableIds
<1> QED BY <1>1, <1>4, <1>7, <1>8, <1>9, MapKeeps

LEMMA ToggleKeeps ==
  ASSUME PlansInv, NEW a \in Admins, NEW id \in Editable, BeginToggle(a, id)
  PROVE  PlansInv'
<1>1. PICK s : s = Current
  OBVIOUS
<1>2. DOMAIN s = {"plans", "deleted"} /\ ArePlans(s.plans)
  BY <1>1, CurrentIsSound DEF IsSettings
<1>3. PICK F : F = [i \in DOMAIN s.plans |-> Toggled(s.plans[i])]
  OBVIOUS
<1>4. PICK t : t = [s EXCEPT !.plans = [i \in DOMAIN @ |-> IF @[i].id = id THEN F[i] ELSE @[i]]]
  OBVIOUS
<1>6. MapPlan(s, id, Toggled) = t
  BY <1>2, <1>3, <1>4 DEF MapPlan
<1>5. PICK clash : clash = FALSE
  OBVIOUS
<1>7. clash \in BOOLEAN /\ Begin(a, "toggle", id, clash, t)
  BY <1>1, <1>5, <1>6 DEF BeginToggle
<1>8. ASSUME NEW i \in DOMAIN s.plans, s.plans[i].id = id
      PROVE  /\ IsPlan(F[i]) /\ F[i].id = s.plans[i].id
             /\ ~clash => Recoded(s.plans[i], F[i])
  <2>1. PICK p, e : p = s.plans[i] /\ e = Toggled(p)
    OBVIOUS
  <2>2. F[i] = e /\ IsPlan(p)
    BY <1>2, <1>3, <2>1 DEF ArePlans
  <2>3. IsPlan(e) /\ e.id = p.id /\ e.tier = p.tier
    BY <2>1, <2>2 DEF Toggled, IsPlan, PlanFields, Statuses
  <2> QED BY <2>1, <2>2, <2>3 DEF Recoded
<1>9. id \in StoredIds /\ (id \in DOMAIN DefaultTier \/ id \in Ids(Current.plans))
  BY EditableIds
<1> QED BY <1>1, <1>4, <1>7, <1>8, <1>9, MapKeeps

LEMMA DeleteKeeps ==
  ASSUME PlansInv, NEW a \in Admins, NEW id \in Editable, BeginDelete(a, id)
  PROVE  PlansInv'
<1>1. PICK s, t : s = Current /\ t = [plans |-> Without(s.plans, id), deleted |-> s.deleted \cup {id}]
  OBVIOUS
<1>2. Begin(a, "delete", id, FALSE, t)
  BY <1>1 DEF BeginDelete
<1>3. Len(saved) \in Nat /\ Len(saved) + 1 \in Nat /\ Len(saved) <= Len(saved) + 1
  <2>1. Len(saved) \in Nat
    BY ListLength DEF PlansInv, PlansTypes
  <2> QED BY <2>1
<1>4. IsSettings(s, Len(saved))
  BY <1>1, CurrentIsSound
<1>5. id \in StoredIds /\ Taken(id, Len(saved))
  BY EditableIds
<1>6. /\ IsSettings(t, Len(saved)) /\ KeepsOthers(s, t, id) /\ Lacks(t, id)
      /\ Coded(s.plans) => Coded(t.plans)
      /\ \A x : Lacks(s, x) => Lacks(t, x)
  <2>1. DOMAIN t = {"plans", "deleted"} /\ t.plans = Without(s.plans, id) /\ t.deleted = s.deleted \cup {id}
    BY <1>1
  <2> QED BY <1>3, <1>4, <1>5, <2>1, RemovedPlan
<1>7. IsSettings(t, Len(saved) + 1)
  BY <1>3, <1>6, SettingsLater
<1>8. \A i \in DOMAIN saved : saved[i].op = "delete" /\ ~Undone(i) => Lacks(t, saved[i].id)
  BY <1>1, <1>6, CurrentIsSound
<1>9. Unclashed => Coded(t.plans)
  BY <1>1, <1>6, CurrentIsSound
<1> QED BY <1>1, <1>2, <1>5, <1>6, <1>7, <1>8, <1>9, BeginKeeps

LEMMA PlansInvNext == PlansInv /\ [PlansNext]_planVars => PlansInv'
<1> SUFFICES ASSUME PlansInv, [PlansNext]_planVars PROVE PlansInv'
  OBVIOUS
<1>1. ASSUME NEW a \in Admins, NEW tier \in NewTiers, BeginCreate(a, tier) PROVE PlansInv'
  BY <1>1, CreateKeeps
<1>2. ASSUME NEW a \in Admins, NEW id \in Editable, NEW tier, BeginUpdate(a, id, tier, 30, Now) PROVE PlansInv'
  BY <1>2, UpdateKeeps
<1>3. ASSUME NEW a \in Admins, NEW id \in Editable, BeginDelete(a, id) PROVE PlansInv'
  BY <1>3, DeleteKeeps
<1>4. ASSUME NEW a \in Admins, NEW id \in Editable, BeginToggle(a, id) PROVE PlansInv'
  BY <1>4, ToggleKeeps
<1>5. ASSUME NEW a \in Admins, Save(a) PROVE PlansInv'
  BY <1>5, SaveKeeps
<1>6. ASSUME NEW a \in Admins, Record(a) \/ Crash(a) PROVE PlansInv'
  BY <1>6, RequestEnds DEF Record, Crash
<1>7. CASE UNCHANGED planVars
  <2>1. UNCHANGED <<rows, call, saved, audited>>
    BY <1>7 DEF planVars
  <2>2. Current' = Current /\ (Unclashed' <=> Unclashed) /\ \A i : Undone(i)' <=> Undone(i)
    BY <2>1 DEF Current, Latest, Unclashed, Undone
  <2>3. \A c : (SavesNow(c)' <=> SavesNow(c)) /\ (SavesWell(c)' <=> SavesWell(c))
    BY <2>1, <2>2 DEF SavesNow, SavesWell
  <2>4. PlansTypes'
    BY <2>1, <2>2, <2>3 DEF PlansInv, PlansTypes
  <2>5. DeletionsHold' /\ AddedPlansAreKept'
    BY <2>1, <2>2, <2>3 DEF PlansInv, DeletionsHold, AddedPlansAreKept
  <2> QED BY <2>4, <2>5 DEF PlansInv
<1> QED BY <1>1, <1>2, <1>3, <1>4, <1>5, <1>6, <1>7 DEF PlansNext

LEMMA PlansInvInit == PlansInit => PlansInv
<1> SUFFICES ASSUME PlansInit PROVE PlansInv
  OBVIOUS
<1>1. rows = << >> /\ saved = << >> /\ call = [a \in Admins |-> NoCall]
  BY DEF PlansInit
<1>2. IsList(<< >>) /\ DOMAIN << >> = {} /\ Len(<< >>) = 0
  <2>1. << >> \in Seq({})
    OBVIOUS
  <2> QED BY <2>1 DEF IsList
<1>3. /\ NoCall.at = "idle" /\ NoCall.row = 0 /\ NoCall.seen = 0 /\ NoCall \in CallRecords({NoSettings})
  BY DEF NoCall, CallRecords
<1>4. call \in [Admins -> CallRecords({NoSettings})] /\ \A c \in Admins : call[c] = NoCall
  BY <1>1, <1>3
<1>5. PlansTypes
  BY <1>1, <1>2, <1>3, <1>4 DEF PlansTypes, SavesNow
<1>6. DeletionsHold /\ AddedPlansAreKept
  BY <1>1, <1>2 DEF DeletionsHold, AddedPlansAreKept
<1> QED BY <1>5, <1>6 DEF PlansInv

\* Whatever administrators do at once, the rows hold sound settings, in which codes
\* are in order until they are made to clash, a deletion is in the latest of them
\* unless a save of an older reading undid it, and what a request is going to save
\* says of the other plans what is current, but for what was changed since it read.
THEOREM PlansInvHolds == PlansSpec => []PlansInv
BY PlansInvInit, PlansInvNext, PTL DEF PlansSpec

LEMMA PlansInvKept == PlansInv => PlanEditsAreKept
<1> SUFFICES ASSUME PlansInv PROVE PlanEditsAreKept
  OBVIOUS
<1>1. ASSUME NEW i \in DOMAIN saved, saved[i].op = "delete", saved[i].id \in Offered PROVE Undone(i)
  <2> SUFFICES ASSUME ~Undone(i) PROVE FALSE
    OBVIOUS
  <2>1. Lacks(Current, saved[i].id)
    BY <1>1, CurrentIsSound
  <2> QED BY <1>1, <2>1 DEF Lacks, Offered, Ids
<1>2. DeletedPlansStayDeleted
  BY <1>1 DEF DeletedPlansStayDeleted, Undone
<1> QED BY <1>2 DEF PlansInv, PlanEditsAreKept

\* (PlanEditsAreKept) A plan that was deleted stays so unless a save of what was read
\* before brings it back; of those that were added a save changes its own, and another
\* only if a save it had not read changed that one, until codes of plans clash
\* (subscriptions.service.ts, normalizeSubscriptionPlanSettings).
THEOREM EditsAreKept == PlansSpec => []PlanEditsAreKept
BY PlansInvHolds, PlansInvKept, PTL

LEMMA CallRecord ==
  ASSUME NEW T, NEW k \in CallRecords(T), NEW m \in Nat, NEW n \in Nat, k.row \in 0..m, k.seen \in 0..n,
         NEW A, k.after \in A
  PROVE  k \in [at : {"idle", "save", "record"}, id : StoredIds \cup {""}, row : 0..m, clash : BOOLEAN,
                 op : {"create", "update", "delete", "toggle"}, seen : 0..n, after : A]
BY DEF CallRecords

\* The rows hold the plans of the defaults and those that were created, and
\* every request what it read of them (subscriptions.service.ts).
THEOREM PlansInOrder == PlansSpec => []PlansTypeOK
<1>1. PlansInv => PlansTypeOK
  <2> SUFFICES ASSUME PlansInv PROVE PlansTypeOK
    OBVIOUS
  <2>1. PICK T : call \in [Admins -> CallRecords(T)]
    BY DEF PlansInv, PlansTypes
  <2>2. IsList(rows) /\ IsList(saved) /\ Len(rows) \in Nat /\ Len(saved) \in Nat
        /\ DOMAIN rows = 1..Len(rows) /\ DOMAIN saved = 1..Len(saved)
    BY ListLength DEF PlansInv, PlansTypes
  <2>3. PICK A : A = {call[a].after : a \in Admins}
    OBVIOUS
  <2>4. ASSUME NEW a \in Admins
        PROVE  call[a] \in [at : {"idle", "save", "record"}, id : StoredIds \cup {""}, row : 0..Len(rows), clash : BOOLEAN,
                             op : {"create", "update", "delete", "toggle"}, seen : 0..Len(saved), after : A]
    <3>1. call[a].row \in 0..Len(rows) /\ call[a].seen \in 0..Len(saved) /\ call[a].after \in A
      BY <2>3 DEF PlansInv, PlansTypes
    <3> QED BY <2>1, <2>2, <3>1, CallRecord
  <2>5. call \in [Admins -> [at : {"idle", "save", "record"}, id : StoredIds \cup {""}, row : 0..Len(rows), clash : BOOLEAN,
                             op : {"create", "update", "delete", "toggle"}, seen : 0..Len(saved), after : A]]
    BY <2>1, <2>4
  <2>6. \A i \in DOMAIN saved : saved[i].seen < i
    <3> SUFFICES ASSUME NEW i \in DOMAIN saved PROVE saved[i].seen < i
      OBVIOUS
    <3>1. saved[i].seen \in 0..(i - 1) /\ i \in Nat
      BY <2>2 DEF PlansInv, PlansTypes
    <3> QED BY <3>1
  <2>7. \A r \in ToSet(rows) : Ids(r.plans) \cup r.deleted \subseteq StoredIds
    <3> SUFFICES ASSUME NEW r \in ToSet(rows) PROVE Ids(r.plans) \cup r.deleted \subseteq StoredIds
      OBVIOUS
    <3>1. PICK i \in DOMAIN rows : r = rows[i]
      BY DEF ToSet
    <3>2. IsSettings(r, Len(saved))
      BY <3>1 DEF PlansInv, PlansTypes
    <3>3. Ids(r.plans) \subseteq StoredIds /\ r.deleted \subseteq StoredIds
      BY <3>2 DEF IsSettings, ArePlans, IsPlan, Ids
    <3> QED BY <3>3
  <2> QED BY <2>3, <2>5, <2>6, <2>7 DEF PlansTypeOK
<1> QED BY <1>1, PlansInvHolds, PTL

-----------------------------------------------------------------------------
(* The parts together *)

LEMMA PlatformBegins ==
  PlatformInit => /\ PlansInit /\ TablesInit /\ SchemaInit
                  /\ BillingInit /\ AccountsInit /\ SlugsInit /\ SitesInit
BY DEF PlatformInit, CoreStill, BusinessStill, BillingStill, TablesStill, SchemaStill, SlugsStill

LEMMA PlatformTakesTurns ==
  [PlatformNext]_platformVars =>
    /\ [PlansNext]_planVars /\ [TablesNext]_tableVars /\ [SchemaNext]_schemaVars
    /\ [BillingNext]_billingVars /\ [AccountsNext]_accountVars /\ [SlugsNext]_slugVars /\ [SitesNext]_siteVars
<1> SUFFICES ASSUME [PlatformNext]_platformVars
             PROVE  /\ [PlansNext]_planVars /\ [TablesNext]_tableVars /\ [SchemaNext]_schemaVars
                    /\ [BillingNext]_billingVars /\ [AccountsNext]_accountVars
                    /\ [SlugsNext]_slugVars /\ [SitesNext]_siteVars
  OBVIOUS
<1>1. CASE PlansNext /\ UNCHANGED <<tableVars, schemaVars, businessVars>>
  BY <1>1 DEF businessVars
<1>2. CASE TablesNext /\ UNCHANGED <<planVars, schemaVars, businessVars>>
  BY <1>2 DEF businessVars
<1>3. CASE SchemaNext /\ UNCHANGED <<planVars, tableVars, businessVars>>
  BY <1>3 DEF businessVars
<1>4. CASE BillingNext /\ UNCHANGED <<coreVars, accountVars, slugVars, siteVars>>
  BY <1>4 DEF coreVars
<1>5. CASE AccountsNext /\ UNCHANGED <<coreVars, billingVars, slugVars, siteVars>>
  BY <1>5 DEF coreVars
<1>6. CASE SlugsNext /\ UNCHANGED <<coreVars, billingVars, accountVars, siteVars>>
  BY <1>6 DEF coreVars
<1>7. CASE SitesNext /\ UNCHANGED <<coreVars, billingVars, accountVars, slugVars>>
  BY <1>7 DEF coreVars
<1>8. CASE UNCHANGED platformVars
  BY <1>8 DEF platformVars, coreVars, businessVars
<1> QED BY <1>1, <1>2, <1>3, <1>4, <1>5, <1>6, <1>7, <1>8 DEF PlatformNext

\* The run of the parts together takes each of them through its own behaviours
\* only: what a theorem says of one part alone is true in that run.
THEOREM EachPartOfThePlatformActsAlone ==
  PlatformSpec => /\ PlansSpec /\ TablesSpec /\ SchemaSpec
                  /\ BillingSpec /\ AccountsSpec /\ SlugsSpec /\ SitesSpec
BY PlatformBegins, PlatformTakesTurns, PTL
   DEF PlatformSpec, PlansSpec, TablesSpec, SchemaSpec, BillingSpec, AccountsSpec, SlugsSpec, SitesSpec

\* (PlatformTypeOK) The plan settings, the tables of the library, the scripts and
\* their locks, subscriptions, users, businesses and keys, subdomains and the calls
\* that change a storefront stay within their types, whatever overlaps.
THEOREM PlatformInOrder == PlatformSpec => []PlatformTypeOK
<1>1. BillingInv => BillingTypeOK
  <2> SUFFICES ASSUME BillingInv PROVE BillingTypeOK
    OBVIOUS
  <2>1. /\ Len(orders) \in Nat /\ Len(subs) \in Nat /\ upserts <= MaxUpserts
        /\ DOMAIN writers = DOMAIN subs
    BY BillingCounts DEF BillingInv, BillingTypes
  <2>2. ASSUME NEW i \in DOMAIN subs
        PROVE  subs[i].tier \in SubscriptionTiers /\ subs[i].ref \in 0..Len(orders)
    <3>1. PICK sub, n : sub = subs[i] /\ n = Len(orders)
      OBVIOUS
    <3>2. sub \in Subs /\ sub.ref <= n /\ n \in Nat /\ sub.tier \in SubscriptionTiers
      BY <2>1, <3>1 DEF BillingInv, BillingTypes, PaidBeforeActive, PaidFor
    <3>3. sub.ref \in 0..n
      BY <3>2 DEF Subs
    <3> QED BY <3>1, <3>2, <3>3
  <2>3. ASSUME NEW c \in BillingCalls
        PROVE  bcall[c].row \in 0..Len(subs) /\ bcall[c].order \in 0..Len(orders)
    <3>1. PICK bc, n, m : bc = bcall[c] /\ n = Len(subs) /\ m = Len(orders)
      OBVIOUS
    <3>2. bc \in Upserts /\ bc.row <= n /\ bc.order <= m /\ n \in Nat /\ m \in Nat
      BY <2>1, <3>1 DEF BillingInv, BillingTypes, RequestsAsk, Asks
    <3>3. bc.row \in 0..n /\ bc.order \in 0..m
      BY <3>2 DEF Upserts
    <3> QED BY <3>1, <3>3
  <2> QED BY <2>1, <2>2, <2>3 DEF BillingTypeOK
<1> QED
  BY <1>1, EachPartOfThePlatformActsAlone, PlansInOrder, TablesAreTyped, SchemaInOrder, BillingInOrder,
     AccountsInOrder, SubdomainsAreValid, SitesInOrder, PTL
  DEF PlatformTypeOK

\* What the parts promise, all of it.
PlatformPromises ==
  /\ PlanEditsAreKept /\ RowsAreAsAsked /\ OneRowPerKey /\ LegacyStaysTogether /\ RecordedIsThere
  /\ ActiveIsPaidFor /\ OverrunIsBounded /\ NoSharedStorefront /\ WithdrawnStaysDark
\* (PlatformPromises) Side by side the parts keep what each of them promises: lost
\* are only the edits of plans and rows that raced, a recorded migration's tables
\* are there, an active subscription is paid for, limits are overrun by no more
\* than the calls under way, and what was withdrawn or claimed stays so.
THEOREM PromisesAreKept == PlatformSpec => []PlatformPromises
BY EachPartOfThePlatformActsAlone, EditsAreKept, RowsFollowTheirCalls, KeysHaveOneRow,
   LegacyMovesAsAWhole, RecordsAreThere, ActiveSubscriptionsArePaidFor, LimitsAreOverrunByFew,
   StorefrontsAreNotShared, WithdrawnSitesAreDark, PTL
DEF PlatformPromises
=============================================================================
