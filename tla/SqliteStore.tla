---- MODULE SqliteStore ----
(***************************************************************************)
(* The SQLite store: processes that open one database, create its schema   *)
(* and insert, update and list rows, side by side. A statement is atomic;  *)
(* opening is several, and every call reads the time before its statement. *)
(* The five tables are one sequence of rows in order of insertion; an id   *)
(* is a place in it, 0 one that the store does not know.                   *)
(***************************************************************************)
EXTENDS Naturals, Sequences, FiniteSets, SequencesExt

CONSTANTS
  Processes,
  Leaves,      \* the tables that refer to runs, in the order of initialize_schema
  MaxRows,     \* of each table, most rows ever inserted
  MaxSeconds   \* how far the clock goes

\* In the order of initialize_schema, which is the order of their references.
Tables == <<"sessions", "runs">> \o Leaves

ASSUME StoreAssumption ==
  /\ Leaves \in Seq({"messages", "events", "tool_calls"})
  /\ MaxRows \in [Range(Tables) -> Nat] /\ MaxSeconds \in Nat

VARIABLES
  clock,    \* in seconds, as the timestamps are
  tables,   \* those that exist
  rows,
  conn,     \* of each process: where its connection is
  next,     \* the next statement of open
  foreign_keys,  \* enforced on its connection
  call,     \* its call, once the time is read
  went_on   \* some process has used a store whose open threw

vars == <<clock, tables, rows, conn, next, foreign_keys, call, went_on>>

Updatable == Range(Tables) \cap {"sessions", "runs", "tool_calls"}
ParentTable(table) ==
  CASE table = "sessions" -> "none"
    [] table = "runs" -> "sessions"
    [] OTHER -> "runs"

RowId == DOMAIN rows
Row ==
  [table : Range(Tables), parent : Nat,
   created_at : 0..MaxSeconds, updated_at : 0..MaxSeconds]
NoCall == [op |-> "none"]
Call ==
  {NoCall} \cup
  [op : {"insert", "update"}, table : Range(Tables), id : Nat,
   now : 0..MaxSeconds, seen : Nat]

Init ==
  /\ clock = 0 /\ tables = {} /\ rows = <<>>
  /\ conn = [p \in Processes |-> "closed"]
  /\ next = [p \in Processes |-> 0]
  /\ foreign_keys = [p \in Processes |-> FALSE]
  /\ call = [p \in Processes |-> NoCall]
  /\ went_on = FALSE

Tick ==
  /\ clock < MaxSeconds
  /\ clock' = clock + 1
  /\ UNCHANGED <<tables, rows, conn, next, foreign_keys, call, went_on>>

(***************************************************************************)
(* SqliteStore::open, by the constructor or on a store that exists; it     *)
(* closes the connection there is.                                         *)
(***************************************************************************)
Opening(p) == conn[p] \in {"constructing", "opening"}
Become(p, state) == conn' = [conn EXCEPT ![p] = state]

Open(p) ==
  /\ ~Opening(p) /\ call[p] = NoCall
  /\ \/ conn[p] = "closed" /\ Become(p, "constructing")
     \/ Become(p, "opening")
  /\ next' = [next EXCEPT ![p] = 1]
  /\ foreign_keys' = [foreign_keys EXCEPT ![p] = FALSE]
  /\ UNCHANGED <<clock, tables, rows, call, went_on>>

Statements == 1 + Len(Tables)

\* mutant: one statement too many
AdvanceLate(p) ==
  /\ next' = [next EXCEPT ![p] = IF @ > Statements THEN 0 ELSE @ + 1]
  /\ Become(p, IF next[p] > Statements THEN "ready" ELSE conn[p])

Advance(p) ==
  /\ next' = [next EXCEPT ![p] = IF @ = Statements THEN 0 ELSE @ + 1]
  /\ Become(p, IF next[p] = Statements THEN "ready" ELSE conn[p])

\* The pragma that turns the journal to WAL goes before it, and may throw too.
ForeignKeys(p) ==
  /\ Opening(p) /\ next[p] = 1
  /\ foreign_keys' = [foreign_keys EXCEPT ![p] = TRUE]
  /\ Advance(p)
  /\ UNCHANGED <<clock, tables, rows, call, went_on>>

\* mutant: a schema that was begun is taken for complete
CreateTableOnce(p) ==
  /\ Opening(p) /\ next[p] > 1
  /\ IF next[p] = 2 /\ tables # {}
     THEN Become(p, "ready") /\ next' = [next EXCEPT ![p] = 0] /\ UNCHANGED tables
     ELSE tables' = tables \cup {Tables[next[p] - 1]} /\ Advance(p)
  /\ UNCHANGED <<clock, rows, foreign_keys, call, went_on>>

\* Each CREATE TABLE IF NOT EXISTS commits by itself.
CreateTable(p) ==
  /\ Opening(p) /\ next[p] > 1
  /\ tables' = tables \cup {Tables[next[p] - 1]}
  /\ Advance(p)
  /\ UNCHANGED <<clock, rows, foreign_keys, call, went_on>>

\* A statement of open throws, the database being locked for one. The
\* constructor takes the connection with it, and there is none if it was
\* sqlite3_open that failed; otherwise open leaves it as it is, and is_open
\* says yes.
OpenThrows(p) ==
  /\ Opening(p)
  /\ \/ /\ conn[p] = "constructing" \/ next[p] = 1
        /\ Become(p, "closed")
        /\ foreign_keys' = [foreign_keys EXCEPT ![p] = FALSE]
     \/ /\ conn[p] = "opening"
        /\ Become(p, "half open")
        /\ UNCHANGED foreign_keys
  /\ next' = [next EXCEPT ![p] = 0]
  /\ UNCHANGED <<clock, tables, rows, call, went_on>>

\* The store is closed, or its process dies, between two statements.
Close(p) ==
  /\ conn[p] # "closed"
  /\ Become(p, "closed")
  /\ next' = [next EXCEPT ![p] = 0]
  /\ foreign_keys' = [foreign_keys EXCEPT ![p] = FALSE]
  /\ call' = [call EXCEPT ![p] = NoCall]
  /\ UNCHANGED <<clock, tables, rows, went_on>>

(***************************************************************************)
(* Calls. A row is known to a caller once its insert is done: ids are      *)
(* drawn when it is.                                                       *)
(***************************************************************************)
IsOpen(p) == conn[p] \in {"ready", "half open"}

IsParent(id, table) == id \in RowId /\ rows[id].table = ParentTable(table)

\* create_session, create_run, append_message, append_event, create_tool_call:
\* the id is of the parent; touch_session, update_run_state and
\* complete_tool_call: of the row. The runtime, for one, logs events under the
\* id of a run that no one has inserted.
Calls ==
  LET Inserts(table) ==
        [op : {"insert"}, table : {table},
         id : {0} \cup {i \in RowId : table # "sessions" /\ IsParent(i, table)}]
      Updates(table) ==
        [op : {"update"}, table : {table}, id : {i \in RowId : rows[i].table = table}]
  IN  (UNION {Inserts(table) : table \in Range(Tables)})
        \cup (UNION {Updates(table) : table \in Updatable})

WithTime(c, now) ==
  [op |-> c.op, table |-> c.table, id |-> c.id, now |-> now,
   seen |-> IF c.op = "insert" THEN Len(rows) ELSE 0]

\* mutant: local time for UTC, with processes of several time zones
BeginLocalTime(p) ==
  /\ IsOpen(p) /\ call[p] = NoCall
  /\ \E c \in Calls, now \in 0..MaxSeconds : call' = [call EXCEPT ![p] = WithTime(c, now)]
  /\ went_on' = (went_on \/ conn[p] = "half open")
  /\ UNCHANGED <<clock, tables, rows, conn, next, foreign_keys>>

Begin(p) ==
  /\ IsOpen(p) /\ call[p] = NoCall
  /\ \E c \in Calls : call' = [call EXCEPT ![p] = WithTime(c, clock)]
  /\ went_on' = (went_on \/ conn[p] = "half open")
  /\ UNCHANGED <<clock, tables, rows, conn, next, foreign_keys>>

Return(p) ==
  /\ call' = [call EXCEPT ![p] = NoCall]
  /\ UNCHANGED <<clock, tables, conn, next, foreign_keys, went_on>>

Insert(p) ==
  /\ call[p].op = "insert"
  /\ Cardinality({i \in RowId : rows[i].table = call[p].table}) < MaxRows[call[p].table]
  /\ LET c == call[p]
     IN  /\ c.table \in tables
         /\ foreign_keys[p] /\ c.table # "sessions" => IsParent(c.id, c.table)
         /\ rows' = Append(rows,
              [table |-> c.table, parent |-> c.id,
               created_at |-> c.now, updated_at |-> c.now])
  /\ Return(p)

\* An id that is not in the table would update nothing, and nobody be told.
Update(p) ==
  /\ call[p].op = "update"
  /\ LET c == call[p]
     IN  /\ c.table \in tables
         /\ rows' = [rows EXCEPT ![c.id].updated_at = c.now]
  /\ Return(p)

\* The statement is refused: no such table, a foreign key, a locked database.
CallThrows(p) ==
  /\ call[p] # NoCall
  /\ UNCHANGED rows
  /\ Return(p)

Process(p) ==
  \/ Open(p) \/ ForeignKeys(p) \/ CreateTable(p)
  \/ OpenThrows(p) \/ Close(p)
  \/ Begin(p) \/ Insert(p) \/ Update(p) \/ CallThrows(p)

Next == Tick \/ \E p \in Processes : Process(p)

Spec == Init /\ [][Next]_vars

\* list_sessions, list_runs_for_session and their kind order by created_at,
\* rows of one second in any order.
MayBeListedBefore(first, second) == first.created_at <= second.created_at

(***************************************************************************)
(* Properties.                                                             *)
(***************************************************************************)

\* Every variable stays in its type.
TypeOK ==
  /\ clock \in 0..MaxSeconds
  /\ tables \subseteq Range(Tables)
  /\ rows \in Seq(Row)
  /\ conn \in [Processes -> {"closed", "constructing", "opening", "ready", "half open"}]
  /\ next \in [Processes -> 0..Statements]
  /\ foreign_keys \in [Processes -> BOOLEAN] /\ went_on \in BOOLEAN
  /\ call \in [Processes -> Call]

\* A store whose open returned finds every table and enforces the references,
\* whoever began the schema and died over it; so every run has its session and
\* every message, event and tool call its run, as long as no caller goes on
\* with a store whose open threw, which still calls itself open.
WholeUnlessOpenThrew ==
  /\ \A p \in Processes :
       conn[p] = "ready" => tables = Range(Tables) /\ foreign_keys[p]
  /\ ~went_on => \A i \in RowId : rows[i].table # "sessions" => IsParent(rows[i].parent, rows[i].table)

\* Times tell the order of calls that follow one another. A row never reads as
\* updated before it was created, and a new row is listed behind every row that
\* was there when its call began, or within the same second at least may be.
TimesInOrder ==
  [][/\ \A i \in DOMAIN rows' : rows'[i].created_at <= rows'[i].updated_at
     /\ \A p \in Processes :
          call[p] # NoCall /\ call'[p] = NoCall /\ Len(rows') > Len(rows)
          => \A i \in 1..call[p].seen : MayBeListedBefore(rows[i], Last(rows'))]_vars
====
