---- MODULE SqliteStoreProofs ----
(***************************************************************************)
(* Proofs about SqliteStore, for any number of processes, any tables that  *)
(* refer to runs, and every bound on rows and time.                        *)
(***************************************************************************)
EXTENDS SqliteStore, SequenceTheorems, TLAPS

TableName == {"sessions", "runs", "messages", "events", "tool_calls"}

-----------------------------------------------------------------------------
(* What the constants and the operators give.                              *)

\* There are at least two tables, and each has its place in the schema.
LEMMA TablesInOrder ==
  /\ Tables \in Seq(TableName)
  /\ Len(Tables) \in Nat /\ Len(Tables) >= 2
  /\ Range(Tables) = {Tables[i] : i \in 1..Len(Tables)}
  /\ "sessions" \in Range(Tables)
<1> DEFINE first == <<"sessions", "runs">>
<1>1. Leaves \in Seq(TableName)
  <2>1. {"messages", "events", "tool_calls"} \subseteq TableName
    BY DEF TableName
  <2> QED
    BY <2>1, StoreAssumption, SeqMonotonic
<1>2. first \in Seq(TableName) /\ Len(first) = 2 /\ first[1] = "sessions"
  BY DEF TableName
<1> HIDE DEF first
<1>3. /\ Tables \in Seq(TableName)
      /\ Len(Tables) = 2 + Len(Leaves)
  BY <1>1, <1>2, ConcatProperties DEF Tables, first
<1>4. Tables[1] = "sessions"
  BY <1>1, <1>2, ConcatProperties DEF Tables, first
<1> QED
  BY <1>1, <1>3, <1>4 DEF Range

\* A call as a caller makes it: of a table of the schema, and of a row that is
\* there if it is an update.
LEMMA CallsAreKnown ==
  ASSUME rows \in Seq(Row), NEW c \in Calls
  PROVE  /\ c.op \in {"insert", "update"} /\ c.table \in Range(Tables) /\ c.id \in Nat
         /\ c.op = "update" => c.id \in RowId
<1> DEFINE parents(table) == {i \in RowId : table # "sessions" /\ IsParent(i, table)}
<1> DEFINE members(table) == {i \in RowId : rows[i].table = table}
<1>1. RowId \subseteq Nat
  BY DEF RowId
<1>2. \A table : parents(table) \subseteq RowId /\ members(table) \subseteq RowId
  BY Zenon
<1>3. \/ \E table \in Range(Tables), ids \in SUBSET RowId :
           c \in [op : {"insert"}, table : {table}, id : {0} \cup ids]
      \/ \E table \in Updatable, ids \in SUBSET RowId :
           c \in [op : {"update"}, table : {table}, id : ids]
  BY <1>2, Zenon DEF Calls
<1> HIDE DEF parents, members
<1>4. ASSUME NEW table \in Range(Tables), NEW ids \in SUBSET RowId,
             c \in [op : {"insert"}, table : {table}, id : {0} \cup ids]
      PROVE  c.op = "insert" /\ c.table \in Range(Tables) /\ c.id \in Nat
  <2>1. c.op = "insert" /\ c.table \in Range(Tables) /\ (c.id = 0 \/ c.id \in RowId)
    BY <1>4
  <2>2. 0 \in Nat
    OBVIOUS
  <2> QED
    BY <1>1, <2>1, <2>2, Zenon
<1>5. ASSUME NEW table \in Updatable, NEW ids \in SUBSET RowId,
             c \in [op : {"update"}, table : {table}, id : ids]
      PROVE  c.op = "update" /\ c.table \in Range(Tables) /\ c.id \in RowId
  BY <1>5 DEF Updatable
<1> QED
  BY <1>1, <1>3, <1>4, <1>5

\* The time and the number of rows are noted with it.
LEMMA WithTimeType ==
  ASSUME rows \in Seq(Row), NEW c \in Calls, NEW now \in 0..MaxSeconds
  PROVE  /\ WithTime(c, now) \in Call
         /\ WithTime(c, now) # NoCall
         /\ WithTime(c, now).op = "update" => WithTime(c, now).id \in RowId
         /\ WithTime(c, now).now = now
         /\ WithTime(c, now).seen \in 0..Len(rows)
BY CallsAreKnown DEF WithTime, Call, NoCall

-----------------------------------------------------------------------------
(* Types. An update that is under way knows its row.                       *)

UpdatesKnownRow == \A p \in Processes : call[p].op = "update" => call[p].id \in RowId

Typed == TypeOK /\ UpdatesKnownRow

\* What Typed says of one call.
LEMMA TypedCall ==
  ASSUME Typed, NEW p \in Processes
  PROVE  /\ rows \in Seq(Row)
         /\ call[p] \in Call
         /\ call[p].op = "update" => call[p].id \in RowId
BY DEF Typed, TypeOK, UpdatesKnownRow

LEMMA CallFields ==
  ASSUME NEW c \in Call, c.op # "none"
  PROVE  /\ c # NoCall
         /\ c.op \in {"insert", "update"} /\ c.table \in Range(Tables) /\ c.id \in Nat
         /\ c.now \in 0..MaxSeconds /\ c.seen \in Nat
BY DEF Call, NoCall

LEMMA TypedInit == Init => Typed
<1> SUFFICES ASSUME Init PROVE Typed
  OBVIOUS
<1>1. MaxSeconds \in Nat /\ Statements \in Nat
  BY StoreAssumption, TablesInOrder DEF Statements
<1>2. rows \in Seq(Row) /\ clock \in 0..MaxSeconds
  BY <1>1 DEF Init
<1>3. NoCall \in Call /\ NoCall.op # "update"
  BY DEF Call, NoCall
<1>4. next \in [Processes -> 0..Statements] /\ call \in [Processes -> Call]
  BY <1>1, <1>3 DEF Init
<1> QED
  BY <1>2, <1>3, <1>4 DEF Init, Typed, TypeOK, UpdatesKnownRow

\* No statement removes a row or changes its table, its parent or the time it
\* was created at.
SameRow(i) ==
  /\ rows'[i].table = rows[i].table
  /\ rows'[i].parent = rows[i].parent
  /\ rows'[i].created_at = rows[i].created_at

LEMMA RowsOnlyGrow ==
  ASSUME Typed, NEW p \in Processes, Process(p)
  PROVE  /\ rows' \in Seq(Row)
         /\ RowId \subseteq RowId'
         /\ \A i \in RowId : SameRow(i)
         /\ ~Insert(p) => Len(rows') = Len(rows)
<1>1. CASE Insert(p)
  <2> DEFINE new == [table |-> call[p].table, parent |-> call[p].id,
                     created_at |-> call[p].now, updated_at |-> call[p].now]
  <2>1. call[p].op # "none" /\ rows' = Append(rows, new)
    BY <1>1 DEF Insert
  <2>2. new \in Row
    BY <2>1, TypedCall, CallFields DEF Row
  <2> QED
    BY <1>1, <2>1, <2>2, TypedCall, AppendProperties DEF RowId, SameRow
<1>2. CASE Update(p)
  <2> DEFINE row == [rows[call[p].id] EXCEPT !.updated_at = call[p].now]
  <2>1. call[p].op = "update" /\ rows' = [rows EXCEPT ![call[p].id] = row]
    BY <1>2 DEF Update
  <2>2. call[p].id \in 1..Len(rows) /\ rows[call[p].id] \in Row
    BY <2>1, TypedCall, ElementOfSeq DEF RowId
  <2>3. /\ row \in Row
        /\ row.table = rows[call[p].id].table
        /\ row.parent = rows[call[p].id].parent
        /\ row.created_at = rows[call[p].id].created_at
    BY <2>1, <2>2, TypedCall, CallFields DEF Row
  <2> HIDE DEF row
  <2> QED
    BY <2>1, <2>2, <2>3, TypedCall, ExceptSeq DEF RowId, SameRow
<1>3. CASE UNCHANGED rows
  BY <1>3, TypedCall DEF RowId, SameRow
<1> QED
  BY <1>1, <1>2, <1>3 DEF Process, Open, ForeignKeys, CreateTable, OpenThrows, Close,
                          Begin, CallThrows

\* Each statement of open is one of its Statements, and opening ends at the last.
LEMMA AdvanceTypes ==
  ASSUME Typed, NEW p \in Processes, Advance(p)
  PROVE  /\ next' \in [Processes -> 0..Statements]
         /\ conn' \in [Processes -> {"closed", "constructing", "opening", "ready", "half open"}]
<1>1. Statements \in Nat
  BY TablesInOrder DEF Statements
<1>2. /\ next \in [Processes -> 0..Statements]
      /\ conn \in [Processes -> {"closed", "constructing", "opening", "ready", "half open"}]
  BY DEF Typed, TypeOK
<1>3. next' \in [Processes -> 0..Statements]
  <2> DEFINE following == IF next[p] = Statements THEN 0 ELSE next[p] + 1
  <2>1. next[p] \in 0..Statements
    BY <1>2
  <2>2. following \in 0..Statements
    BY <1>1, <2>1
  <2>3. next' = [next EXCEPT ![p] = following]
    BY DEF Advance
  <2> HIDE DEF following
  <2> QED
    BY <1>2, <2>2, <2>3
<1>4. conn' \in [Processes -> {"closed", "constructing", "opening", "ready", "half open"}]
  BY <1>2 DEF Advance, Become
<1> QED
  BY <1>3, <1>4

LEMMA TypedProcess ==
  ASSUME Typed, NEW p \in Processes, Process(p)
  PROVE  Typed'
<1>1. rows' \in Seq(Row) /\ RowId \subseteq RowId'
  BY RowsOnlyGrow
<1>2. /\ 1 \in 0..Statements /\ 0 \in 0..Statements
      /\ NoCall \in Call /\ NoCall.op # "update"
  BY TablesInOrder DEF Statements, Call, NoCall
<1>3. /\ call \in [Processes -> Call] /\ clock \in 0..MaxSeconds
      /\ tables \subseteq Range(Tables)
      /\ \A q \in Processes : call[q].op = "update" => call[q].id \in RowId
  BY DEF Typed, TypeOK, UpdatesKnownRow
<1>4. ASSUME \/ UNCHANGED call
             \/ call' = [call EXCEPT ![p] = NoCall]
             \/ \E c \in Calls : call' = [call EXCEPT ![p] = WithTime(c, clock)]
      PROVE  call' \in [Processes -> Call] /\ UpdatesKnownRow'
  <2>1. CASE UNCHANGED call
    BY <1>1, <1>3, <2>1 DEF UpdatesKnownRow
  <2>2. CASE call' = [call EXCEPT ![p] = NoCall]
    BY <1>1, <1>2, <1>3, <2>2 DEF UpdatesKnownRow
  <2>3. ASSUME NEW c \in Calls, call' = [call EXCEPT ![p] = WithTime(c, clock)]
        PROVE  call' \in [Processes -> Call] /\ UpdatesKnownRow'
    <3>1. /\ WithTime(c, clock) \in Call
          /\ WithTime(c, clock).op = "update" => WithTime(c, clock).id \in RowId
      BY <1>3, WithTimeType, TypedCall
    <3> QED
      BY <1>1, <1>3, <2>3, <3>1 DEF UpdatesKnownRow
  <2> QED
    BY <1>4, <2>1, <2>2, <2>3
<1>5. call' \in [Processes -> Call] /\ UpdatesKnownRow'
  BY <1>4 DEF Process, Open, ForeignKeys, CreateTable, OpenThrows, Close,
              Begin, Insert, Update, CallThrows, Return
<1>6. tables' \subseteq Range(Tables)
  <2>1. CASE CreateTable(p)
    <3>1. next[p] \in 0..Statements /\ next[p] > 1
      BY <2>1 DEF CreateTable, Typed, TypeOK
    <3>2. next[p] - 1 \in 1..Len(Tables)
      BY <3>1, TablesInOrder DEF Statements
    <3> QED
      BY <1>3, <2>1, <3>2, TablesInOrder DEF CreateTable
  <2>2. CASE UNCHANGED tables
    BY <1>3, <2>2
  <2> QED
    BY <2>1, <2>2 DEF Process, Open, ForeignKeys, OpenThrows, Close,
                      Begin, Insert, Update, CallThrows, Return
<1>7. /\ next' \in [Processes -> 0..Statements]
      /\ conn' \in [Processes -> {"closed", "constructing", "opening", "ready", "half open"}]
  <2>1. CASE ForeignKeys(p) \/ CreateTable(p)
    BY <2>1, AdvanceTypes DEF ForeignKeys, CreateTable
  <2>2. CASE Open(p) \/ OpenThrows(p) \/ Close(p)
    BY <1>2, <2>2 DEF Typed, TypeOK, Open, OpenThrows, Close, Become
  <2>3. CASE UNCHANGED <<next, conn>>
    BY <2>3 DEF Typed, TypeOK
  <2> QED
    BY <2>1, <2>2, <2>3 DEF Process, Begin, Insert, Update, CallThrows, Return
<1>8. foreign_keys' \in [Processes -> BOOLEAN] /\ went_on' \in BOOLEAN /\ clock' = clock
  BY DEF Typed, TypeOK, Process, Open, ForeignKeys, CreateTable, OpenThrows, Close,
         Begin, Insert, Update, CallThrows, Return
<1> QED
  BY <1>1, <1>3, <1>5, <1>6, <1>7, <1>8 DEF Typed, TypeOK

LEMMA TypedNext ==
  ASSUME Typed, [Next]_vars
  PROVE  Typed'
<1>1. CASE Tick
  <2>1. clock \in 0..MaxSeconds /\ MaxSeconds \in Nat
    BY StoreAssumption DEF Typed, TypeOK
  <2>2. clock' \in 0..MaxSeconds
    BY <1>1, <2>1 DEF Tick
  <2>3. UNCHANGED <<tables, rows, conn, next, foreign_keys, call, went_on>>
    BY <1>1 DEF Tick
  <2> QED
    BY <2>2, <2>3 DEF Typed, TypeOK, UpdatesKnownRow, RowId
<1>2. CASE UNCHANGED vars
  BY <1>2 DEF vars, Typed, TypeOK, UpdatesKnownRow, RowId
<1>3. ASSUME NEW p \in Processes, Process(p) PROVE Typed'
  BY <1>3, TypedProcess
<1> QED
  BY <1>1, <1>2, <1>3 DEF Next

\* Every variable of the store stays in its type, for any number of processes.
THEOREM TypeCorrect == Spec => []TypeOK
<1>1. Spec => []Typed
  BY TypedInit, TypedNext, PTL DEF Spec
<1> QED
  BY <1>1, PTL DEF Typed

-----------------------------------------------------------------------------
(* Whole schemas and references.                                           *)

\* While a process opens the store, the statements it has done have had their
\* effect; a store it has opened is whole.
OpenInv ==
  \A p \in Processes :
    /\ Opening(p) =>
         /\ next[p] \in 1..Statements
         /\ next[p] > 1 => foreign_keys[p]
         /\ \A k \in 1..Len(Tables) : k + 1 < next[p] => Tables[k] \in tables
    /\ conn[p] = "ready" => tables = Range(Tables) /\ foreign_keys[p]

\* Only an open store is called, and nobody calls one whose open threw unseen.
CallInv ==
  \A p \in Processes : call[p] # NoCall => conn[p] = "ready" \/ (conn[p] = "half open" /\ went_on)

RowsInv ==
  ~went_on => \A i \in RowId : rows[i].table # "sessions" => IsParent(rows[i].parent, rows[i].table)

IInv == Typed /\ OpenInv /\ CallInv /\ RowsInv

LEMMA OpenStep ==
  ASSUME Typed, OpenInv, NEW p \in Processes, Process(p)
  PROVE  OpenInv'
<1>1. /\ next \in [Processes -> 0..Statements] /\ tables \subseteq Range(Tables)
      /\ conn \in [Processes -> {"closed", "constructing", "opening", "ready", "half open"}]
      /\ foreign_keys \in [Processes -> BOOLEAN]
  BY DEF Typed, TypeOK
<1>2. Statements = 1 + Len(Tables) /\ Len(Tables) \in Nat /\ Len(Tables) >= 2
  BY TablesInOrder DEF Statements
<1>3. tables \subseteq tables' /\ tables' \subseteq Range(Tables)
  <2>1. Typed'
    BY TypedProcess
  <2> QED
    BY <2>1 DEF Typed, TypeOK, Process, Open, ForeignKeys, CreateTable, OpenThrows, Close,
                Begin, Insert, Update, CallThrows, Return
<1>4. SUFFICES ASSUME NEW q \in Processes
               PROVE  /\ Opening(q)' =>
                           /\ next'[q] \in 1..Statements
                           /\ next'[q] > 1 => foreign_keys'[q]
                           /\ \A k \in 1..Len(Tables) : k + 1 < next'[q] => Tables[k] \in tables'
                      /\ conn'[q] = "ready" => tables' = Range(Tables) /\ foreign_keys'[q]
  BY DEF OpenInv
<1>5. CASE conn'[q] = conn[q] /\ next'[q] = next[q] /\ foreign_keys'[q] = foreign_keys[q]
  BY <1>3, <1>5 DEF OpenInv, Opening
<1>6. CASE q = p /\ Open(p)
  <2>1. next'[p] = 1 /\ conn'[p] \in {"constructing", "opening"}
    BY <1>1, <1>6 DEF Open, Become
  <2> QED
    BY <1>2, <1>6, <2>1
<1>7. CASE q = p /\ ForeignKeys(p)
  <2>1. next[p] = 1 /\ next[p] # Statements /\ conn[p] # "ready"
    BY <1>2, <1>7 DEF ForeignKeys, Opening
  <2>2. next'[p] = 2 /\ conn'[p] = conn[p] /\ foreign_keys'[p]
    <3>1. foreign_keys' = [foreign_keys EXCEPT ![p] = TRUE] /\ Advance(p)
      BY <1>7 DEF ForeignKeys
    <3>2. next' = [next EXCEPT ![p] = 2] /\ conn' = [conn EXCEPT ![p] = conn[p]]
      BY <2>1, <3>1 DEF Advance, Become
    <3> QED
      BY <1>1, <2>1, <3>1, <3>2
  <2> QED
    BY <1>2, <1>7, <2>1, <2>2
<1>8. CASE q = p /\ CreateTable(p)
  <2>1. /\ next[p] \in 2..Statements /\ foreign_keys[p] /\ foreign_keys' = foreign_keys
        /\ \A k \in 1..Len(Tables) : k + 1 < next[p] => Tables[k] \in tables
        /\ tables' = tables \cup {Tables[next[p] - 1]}
    <3>1. Opening(p) /\ next[p] > 1 /\ foreign_keys' = foreign_keys
          /\ tables' = tables \cup {Tables[next[p] - 1]}
      BY <1>8 DEF CreateTable
    <3>2. next[p] \in 1..Statements
      BY <3>1 DEF OpenInv
    <3> QED
      BY <1>2, <3>1, <3>2 DEF OpenInv
  <2>2. \A k \in 1..Len(Tables) : k < next[p] => Tables[k] \in tables'
    BY <1>2, <2>1
  <2>3. CASE next[p] = Statements
    <3>1. next'[p] = 0 /\ conn'[p] = "ready"
      BY <1>1, <1>8, <2>3 DEF CreateTable, Advance, Become
    <3>2. Range(Tables) \subseteq tables'
      BY <1>2, <2>2, <2>3, TablesInOrder
    <3> QED
      BY <1>3, <1>8, <2>1, <3>1, <3>2 DEF Opening
  <2>4. CASE next[p] # Statements
    <3>1. next'[p] = next[p] + 1 /\ conn'[p] = conn[p] /\ conn[p] # "ready"
      BY <1>1, <1>8, <2>4 DEF CreateTable, Advance, Become, Opening
    <3> QED
      BY <1>2, <1>8, <2>1, <2>2, <2>4, <3>1
  <2> QED
    BY <2>3, <2>4
<1>9. CASE q = p /\ (OpenThrows(p) \/ Close(p))
  BY <1>1, <1>9 DEF OpenThrows, Close, Opening, Become
<1>10. CASE Begin(p) \/ Insert(p) \/ Update(p) \/ CallThrows(p)
  BY <1>5, <1>10 DEF Begin, Insert, Update, CallThrows, Return
<1>11. CASE q # p
  <2>1. conn'[q] = conn[q] /\ next'[q] = next[q] /\ foreign_keys'[q] = foreign_keys[q]
    BY <1>1, <1>11 DEF Process, Open, ForeignKeys, CreateTable, OpenThrows, Close, Advance,
                       Begin, Insert, Update, CallThrows, Return, Become
  <2> QED
    BY <1>5, <2>1
<1> QED
  BY <1>6, <1>7, <1>8, <1>9, <1>10, <1>11 DEF Process

LEMMA CallStep ==
  ASSUME Typed, CallInv, NEW p \in Processes, Process(p)
  PROVE  CallInv'
<1>1. /\ call \in [Processes -> Call] /\ went_on \in BOOLEAN
      /\ conn \in [Processes -> {"closed", "constructing", "opening", "ready", "half open"}]
  BY DEF Typed, TypeOK
<1>2. went_on => went_on'
  BY DEF Process, Open, ForeignKeys, CreateTable, OpenThrows, Close,
         Begin, Insert, Update, CallThrows, Return
<1>3. SUFFICES ASSUME NEW q \in Processes, call'[q] # NoCall
               PROVE  conn'[q] = "ready" \/ (conn'[q] = "half open" /\ went_on')
  BY DEF CallInv
<1>4. CASE call'[q] = call[q] /\ conn'[q] = conn[q]
  BY <1>2, <1>3, <1>4 DEF CallInv
<1>5. CASE q # p
  <2>1. call'[q] = call[q] /\ conn'[q] = conn[q]
    BY <1>1, <1>5 DEF Process, Open, ForeignKeys, CreateTable, OpenThrows, Close, Advance,
                      Begin, Insert, Update, CallThrows, Return, Become
  <2> QED
    BY <1>4, <2>1
<1>6. CASE q = p /\ (Open(p) \/ ForeignKeys(p) \/ CreateTable(p) \/ OpenThrows(p))
  BY <1>3, <1>6 DEF CallInv, Open, ForeignKeys, CreateTable, OpenThrows, Opening
<1>7. CASE q = p /\ Begin(p)
  BY <1>1, <1>7 DEF Begin, IsOpen
<1>8. CASE q = p /\ (Close(p) \/ Insert(p) \/ Update(p) \/ CallThrows(p))
  BY <1>1, <1>3, <1>8 DEF Close, Insert, Update, CallThrows, Return
<1> QED
  BY <1>5, <1>6, <1>7, <1>8 DEF Process

LEMMA RowsStep ==
  ASSUME Typed, OpenInv, CallInv, RowsInv, NEW p \in Processes, Process(p)
  PROVE  RowsInv'
<1>1. RowId \subseteq RowId' /\ \A i \in RowId : SameRow(i)
  BY RowsOnlyGrow
<1>2. went_on => went_on'
  BY DEF Process, Open, ForeignKeys, CreateTable, OpenThrows, Close,
         Begin, Insert, Update, CallThrows, Return
<1> DEFINE isParentNow(id, table) == id \in RowId' /\ rows'[id].table = ParentTable(table)
<1>3. \A id, table : IsParent(id, table) => isParentNow(id, table)
  BY <1>1 DEF IsParent, SameRow
<1>4. SUFFICES ASSUME ~went_on', NEW i \in RowId', rows'[i].table # "sessions"
               PROVE  isParentNow(rows'[i].parent, rows'[i].table)
  BY DEF RowsInv, IsParent, ParentTable
<1> HIDE DEF isParentNow
<1>5. CASE i \in RowId
  <2>1. IsParent(rows[i].parent, rows[i].table)
    BY <1>1, <1>2, <1>4, <1>5 DEF RowsInv, SameRow
  <2> QED
    BY <1>1, <1>3, <1>5, <2>1 DEF SameRow
<1>6. CASE i \notin RowId
  <2>1. Insert(p)
    BY <1>6, TypedCall, ExceptSeq DEF RowId, Process, Open, ForeignKeys, CreateTable,
       OpenThrows, Close, Begin, Update, CallThrows
  <2> DEFINE new == [table |-> call[p].table, parent |-> call[p].id,
                     created_at |-> call[p].now, updated_at |-> call[p].now]
  <2>2. call[p].op # "none" /\ rows' = Append(rows, new)
    BY <2>1 DEF Insert
  <2>3. new \in Row
    BY <2>2, TypedCall, CallFields DEF Row
  <2>4. rows'[i] = new
    BY <1>4, <1>6, <2>2, <2>3, TypedCall, AppendProperties DEF RowId
  <2>5. foreign_keys[p]
    BY <1>2, <1>4, <2>2, TypedCall, CallFields DEF CallInv, OpenInv
  <2>6. IsParent(call[p].id, call[p].table)
    <3>1. call[p].table # "sessions"
      BY <1>4, <2>4
    <3> QED
      BY <2>1, <2>5, <3>1 DEF Insert
  <2> QED
    BY <1>3, <2>4, <2>6
<1> QED
  BY <1>5, <1>6

-----------------------------------------------------------------------------
(* Times.                                                                  *)

\* No time is ahead of the clock, and the time a call holds is behind no row
\* that was there when it was read.
TimesInv ==
  /\ \A i \in RowId : rows[i].created_at <= rows[i].updated_at /\ rows[i].created_at <= clock
  /\ \A p \in Processes : call[p] # NoCall =>
       /\ call[p].now <= clock
       /\ call[p].op = "update" => rows[call[p].id].created_at <= call[p].now
       /\ call[p].seen <= Len(rows)
       /\ \A i \in 1..call[p].seen : rows[i].created_at <= call[p].now

\* Only an insert makes a row, and it is that of its call.
LEMMA NewRowIsOfCall ==
  ASSUME Typed, NEW p \in Processes, Process(p), Len(rows') # Len(rows)
  PROVE  /\ Insert(p) /\ call[p].op = "insert" /\ call[p] # NoCall
         /\ Len(rows') = Len(rows) + 1
         /\ rows'[Len(rows')] = [table |-> call[p].table, parent |-> call[p].id,
                                 created_at |-> call[p].now, updated_at |-> call[p].now]
<1> DEFINE new == [table |-> call[p].table, parent |-> call[p].id,
                   created_at |-> call[p].now, updated_at |-> call[p].now]
<1>1. Insert(p)
  BY RowsOnlyGrow
<1>2. call[p].op = "insert" /\ rows' = Append(rows, new)
  BY <1>1 DEF Insert
<1>3. call[p] # NoCall /\ new \in Row
  BY <1>2, TypedCall, CallFields DEF Row
<1> QED
  BY <1>1, <1>2, <1>3, TypedCall, AppendProperties

LEMMA TimesStep ==
  ASSUME Typed, TimesInv, NEW p \in Processes, Process(p)
  PROVE  TimesInv'
<1>1. /\ rows \in Seq(Row) /\ rows' \in Seq(Row) /\ RowId \subseteq RowId'
      /\ \A i \in RowId : SameRow(i)
      /\ RowId = 1..Len(rows) /\ RowId' = 1..Len(rows')
  BY RowsOnlyGrow, TypedCall DEF RowId
<1>2. clock' = clock /\ clock \in 0..MaxSeconds /\ MaxSeconds \in Nat
  BY StoreAssumption DEF Typed, TypeOK, Process, Open, ForeignKeys, CreateTable, OpenThrows, Close,
         Begin, Insert, Update, CallThrows, Return
<1>3. \A i \in RowId : rows[i].created_at \in Nat /\ rows[i].updated_at \in Nat
  <2>1. \A i \in RowId : rows[i] \in Row
    BY <1>1, ElementOfSeq
  <2> QED
    BY <1>2, <2>1 DEF Row
<1>4. ASSUME NEW i \in RowId'
      PROVE  rows'[i].created_at <= rows'[i].updated_at /\ rows'[i].created_at <= clock'
  <2>1. CASE UNCHANGED rows
    BY <1>2, <1>4, <2>1 DEF TimesInv, RowId
  <2>2. CASE Insert(p)
    <3> DEFINE new == [table |-> call[p].table, parent |-> call[p].id,
                       created_at |-> call[p].now, updated_at |-> call[p].now]
    <3>1. call[p].op = "insert" /\ rows' = Append(rows, new)
      BY <2>2 DEF Insert
    <3>2. call[p] # NoCall /\ new \in Row /\ call[p].now \in 0..MaxSeconds
      BY <3>1, TypedCall, CallFields DEF Row
    <3>3. call[p].now <= clock /\ call[p].now \in Nat
      BY <3>2, StoreAssumption DEF TimesInv
    <3>4. CASE i \in RowId
      <4>1. rows'[i] = rows[i]
        BY <1>1, <3>1, <3>2, <3>4, AppendProperties
      <4> QED
        BY <1>2, <3>4, <4>1 DEF TimesInv
    <3>5. CASE i \notin RowId
      <4>1. rows'[i] = new
        BY <1>1, <1>4, <3>1, <3>2, <3>5, AppendProperties
      <4> QED
        BY <1>2, <3>3, <4>1
    <3> QED
      BY <3>4, <3>5
  <2>3. CASE Update(p)
    <3> DEFINE id == call[p].id
    <3> DEFINE row == [rows[id] EXCEPT !.updated_at = call[p].now]
    <3>1. call[p].op = "update" /\ rows' = [rows EXCEPT ![id] = row]
      BY <2>3 DEF Update
    <3>2. call[p] # NoCall /\ id \in RowId
      BY <3>1, TypedCall, CallFields
    <3>3. rows[id].created_at <= call[p].now /\ rows[id].created_at <= clock
      BY <3>1, <3>2 DEF TimesInv
    <3>4. row.created_at = rows[id].created_at /\ row.updated_at = call[p].now
      BY <1>1, <3>2, ElementOfSeq DEF Row
    <3>5. rows' [i] = IF i = id THEN row ELSE rows[i]
      BY <1>1, <1>4, <3>1, <3>2, <3>4
    <3>6. i \in RowId
      BY <1>1, <1>4, <3>1 DEF RowId
    <3> HIDE DEF row, id
    <3> QED
      BY <1>2, <3>3, <3>4, <3>5, <3>6 DEF TimesInv
  <2> QED
    BY <2>1, <2>2, <2>3 DEF Process, Open, ForeignKeys, CreateTable, OpenThrows, Close,
                            Begin, CallThrows
<1>5. ASSUME NEW q \in Processes, call'[q] # NoCall
      PROVE  /\ call'[q].now <= clock'
             /\ call'[q].op = "update" => rows'[call'[q].id].created_at <= call'[q].now
             /\ call'[q].seen <= Len(rows')
             /\ \A i \in 1..call'[q].seen : rows'[i].created_at <= call'[q].now
  <2>1. CASE call'[q] = call[q]
    <3> DEFINE c == call[q]
    <3>1. /\ c.now <= clock
          /\ c.op = "update" => rows[c.id].created_at <= c.now
          /\ c.seen <= Len(rows)
          /\ \A i \in 1..c.seen : rows[i].created_at <= c.now
      BY <1>5, <2>1 DEF TimesInv
    <3>2. c.op = "update" => c.id \in RowId
      BY TypedCall
    <3>3. c.seen \in Nat
      BY <1>5, <2>1, TypedCall DEF Call, NoCall
    <3>4. Len(rows) <= Len(rows') /\ Len(rows) \in Nat /\ Len(rows') \in Nat
      BY <1>1
    <3> HIDE DEF c
    <3>5. \A i \in 1..c.seen : rows'[i].created_at <= c.now
      BY <1>1, <3>1, <3>3, <3>4 DEF SameRow
    <3>6. c.op = "update" => rows'[c.id].created_at <= c.now
      BY <1>1, <3>1, <3>2 DEF SameRow
    <3> QED
      BY <1>2, <2>1, <3>1, <3>3, <3>4, <3>5, <3>6 DEF c
  <2>2. ASSUME NEW c \in Calls, call' = [call EXCEPT ![p] = WithTime(c, clock)], q = p,
               UNCHANGED rows
        PROVE  /\ call'[q].now <= clock'
               /\ call'[q].op = "update" => rows'[call'[q].id].created_at <= call'[q].now
               /\ call'[q].seen <= Len(rows')
               /\ \A i \in 1..call'[q].seen : rows'[i].created_at <= call'[q].now
    <3> DEFINE d == WithTime(c, clock)
    <3>1. /\ d.op = "update" => d.id \in RowId
          /\ d.now = clock /\ d.seen \in 0..Len(rows)
      BY <1>1, <1>2, WithTimeType
    <3>2. call'[q] = d
      BY <2>2 DEF Typed, TypeOK
    <3>3. \A i \in RowId : rows[i].created_at <= clock
      BY DEF TimesInv
    <3> HIDE DEF d
    <3> QED
      BY <1>1, <1>2, <2>2, <3>1, <3>2, <3>3
  <2>3. \/ call'[q] = call[q] \/ call'[q] = NoCall
        \/ q = p /\ UNCHANGED rows /\ \E c \in Calls : call' = [call EXCEPT ![p] = WithTime(c, clock)]
    BY DEF Typed, TypeOK, Process, Open, ForeignKeys, CreateTable, OpenThrows, Close,
           Begin, Insert, Update, CallThrows, Return
  <2> QED
    BY <1>5, <2>1, <2>2, <2>3
<1> QED
  BY <1>4, <1>5 DEF TimesInv

-----------------------------------------------------------------------------
(* The theorems.                                                           *)

LEMMA InvNext == IInv /\ [Next]_vars => IInv'
<1> SUFFICES ASSUME IInv, [Next]_vars
             PROVE  IInv'
  OBVIOUS
<1>1. Typed'
  BY TypedNext DEF IInv
<1>2. ASSUME NEW p \in Processes, Process(p)
      PROVE  OpenInv' /\ CallInv' /\ RowsInv'
  BY <1>2, OpenStep, CallStep, RowsStep DEF IInv
<1>3. CASE Tick \/ UNCHANGED vars
  <2>1. UNCHANGED <<tables, rows, conn, next, foreign_keys, call, went_on>>
    BY <1>3 DEF Tick, vars
  <2>2. OpenInv'
    BY <2>1 DEF IInv, OpenInv, Opening
  <2>3. CallInv'
    BY <2>1 DEF IInv, CallInv
  <2>4. RowsInv'
    BY <2>1 DEF IInv, RowsInv, IsParent, RowId
  <2> QED
    BY <1>1, <2>2, <2>3, <2>4 DEF IInv
<1> QED
  BY <1>1, <1>2, <1>3 DEF Next, IInv

LEMMA Invariant == Spec => []IInv
<1>1. Init => IInv
  <2> SUFFICES ASSUME Init PROVE IInv
    OBVIOUS
  <2>1. Typed
    BY TypedInit
  <2>2. RowId = {}
    BY DEF Init, RowId
  <2> QED
    BY <2>1, <2>2 DEF Init, IInv, OpenInv, CallInv, RowsInv, Opening
<1> QED
  BY <1>1, InvNext, PTL DEF Spec

\* A store whose open returned is whole whoever began its schema and died over
\* it (open, initialize_schema), and so is the tree of rows as long as no caller
\* goes on with a store whose open threw: for any number of processes and rows.
THEOREM StoreIsWhole == Spec => []WholeUnlessOpenThrew
<1>1. IInv => WholeUnlessOpenThrew
  BY DEF IInv, OpenInv, RowsInv, WholeUnlessOpenThrew
<1> QED
  BY <1>1, Invariant, PTL

LEMMA TimesNext == Typed /\ TimesInv /\ [Next]_vars => TimesInv'
<1> SUFFICES ASSUME Typed, TimesInv, [Next]_vars
             PROVE  TimesInv'
  OBVIOUS
<1>1. CASE Tick
  <2>1. rows' = rows /\ call' = call /\ clock' = clock + 1
    BY <1>1 DEF Tick
  <2>2. clock \in Nat /\ rows \in Seq(Row)
    <3>1. clock \in 0..MaxSeconds /\ MaxSeconds \in Nat /\ rows \in Seq(Row)
      BY StoreAssumption DEF Typed, TypeOK
    <3> QED
      BY <3>1
  <2>3. \A i \in RowId : rows[i] \in Row
    BY <2>2, ElementOfSeq DEF RowId
  <2>4. \A i \in RowId : rows[i].created_at \in Nat
    BY <2>3, StoreAssumption DEF Row
  <2>5. \A p \in Processes : call[p] # NoCall => call[p].now \in Nat
    BY TypedCall, StoreAssumption DEF Call, NoCall
  <2> QED
    BY <2>1, <2>2, <2>4, <2>5 DEF TimesInv, RowId
<1>2. CASE UNCHANGED vars
  BY <1>2 DEF vars, TimesInv, RowId
<1>3. ASSUME NEW p \in Processes, Process(p)
      PROVE  TimesInv'
  BY <1>3, TimesStep
<1> QED
  BY <1>1, <1>2, <1>3 DEF Next

\* What a step does to the listing: the row of an insert stands behind all
\* that were there when its call began.
LEMMA ListedInOrder ==
  ASSUME Typed, TimesInv, [Next]_vars, NEW p \in Processes,
         call[p] # NoCall, call'[p] = NoCall, Len(rows') > Len(rows),
         NEW i \in 1..call[p].seen
  PROVE  MayBeListedBefore(rows[i], Last(rows'))
<1>1. PICK q \in Processes : Process(q)
  BY DEF Next, Tick, vars
<1>2. Insert(q) /\ rows'[Len(rows')].created_at = call[q].now
  <2>1. Len(rows') # Len(rows)
    BY <1>1, RowsOnlyGrow, TypedCall
  <2>2. /\ Insert(q)
        /\ rows'[Len(rows')] = [table |-> call[q].table, parent |-> call[q].id,
                                created_at |-> call[q].now, updated_at |-> call[q].now]
    BY <1>1, <2>1, NewRowIsOfCall
  <2> QED
    BY <2>2
<1>3. q = p
  BY <1>2 DEF Insert, Return, Typed, TypeOK
<1>4. rows[i].created_at <= call[p].now
  BY DEF TimesInv
<1> QED
  BY <1>2, <1>3, <1>4 DEF MayBeListedBefore, Last

\* Times tell the order of calls that follow one another (now_iso8601 is read
\* before the statement), however many processes call in between.
THEOREM TimesTellOrder == Spec => TimesInOrder
<1>1. Init => TimesInv
  BY DEF Init, TimesInv, RowId
<1>2. Typed /\ TimesInv /\ TimesInv' /\ [Next]_vars =>
        [/\ \A i \in DOMAIN rows' : rows'[i].created_at <= rows'[i].updated_at
         /\ \A p \in Processes :
              call[p] # NoCall /\ call'[p] = NoCall /\ Len(rows') > Len(rows)
              => \A i \in 1..call[p].seen : MayBeListedBefore(rows[i], Last(rows'))]_vars
  <2>1. TimesInv' => \A i \in DOMAIN rows' : rows'[i].created_at <= rows'[i].updated_at
    BY DEF TimesInv, RowId
  <2> QED
    BY <2>1, ListedInOrder
<1>3. Spec => []Typed
  BY TypedInit, TypedNext, PTL DEF Spec
<1>4. Spec => []TimesInv
  BY <1>1, <1>3, TimesNext, PTL DEF Spec
<1> QED
  BY <1>2, <1>3, <1>4, PTL DEF Spec, TimesInOrder
====
