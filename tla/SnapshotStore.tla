--------------------------- MODULE SnapshotStore ---------------------------
(***************************************************************************)
(* DuckDB as the managed engine uses it (external: modelled from the SQL   *)
(* that src/src/engine.rs sends).  A database holds the one row of         *)
(* __orchiddb_state (revision and checkpoint payload) and the overlay rows *)
(* of __orchiddb_records.  A transaction reads the tables as they were     *)
(* when it began, plus its own writes.  A write to a row that another open *)
(* transaction wrote, or that was committed after the writer began, fails. *)
(*                                                                         *)
(* A graph is a value for every key: a key stands for one graph element    *)
(* with the per-label counters saved beside it, a value for its contents.  *)
(***************************************************************************)
EXTENDS Naturals

CONSTANTS Keys,    \* graph elements, each with its own record row
          Absent   \* no record row for a key

ASSUME AbsentAssumption == Absent \notin Nat

Graphs == [Keys -> Nat]
EmptyGraph == [k \in Keys |-> 0]
NoRecords == [k \in Keys |-> Absent]

\* The two managed tables.
Tables == [revision : Nat, payload : Graphs, records : [Keys -> Nat \cup {Absent}]]
EmptyTables == [revision |-> 0, payload |-> EmptyGraph, records |-> NoRecords]

\* The committed tables, a count of the commits that wrote, and for each row
\* the count at which it was last written.
Databases == [tables : Tables, clock : Nat, stateAt : Nat, recordAt : [Keys -> Nat]]
EmptyDatabase == [tables |-> EmptyTables, clock |-> 0, stateAt |-> 0,
                  recordAt |-> [k \in Keys |-> 0]]

\* A SQL transaction: what it sees, when it began, which rows it wrote.
Transactions == [active : BOOLEAN, view : Tables, start : Nat,
                 state : BOOLEAN, keys : SUBSET Keys]
NoTransaction == [active |-> FALSE, view |-> EmptyTables, start |-> 0,
                  state |-> FALSE, keys |-> {}]

BeginTransaction(d) == [active |-> TRUE, view |-> d.tables, start |-> d.clock,
                        state |-> FALSE, keys |-> {}]

Wrote(t) == t.state \/ t.keys # {}

\* May session s, among the transactions ts, write the state row; the rows of K?
StateConflict(d, ts, s) ==
    \/ d.stateAt > ts[s].start
    \/ \E o \in DOMAIN ts \ {s} : ts[o].state
RecordConflict(d, ts, s, K) ==
    \E k \in K : \/ d.recordAt[k] > ts[s].start
                 \/ \E o \in DOMAIN ts \ {s} : k \in ts[o].keys

\* COMMIT publishes the rows the transaction wrote.
CommitTransaction(d, t) ==
    IF ~Wrote(t) THEN d
    ELSE [tables   |-> [revision |-> IF t.state THEN t.view.revision ELSE d.tables.revision,
                        payload  |-> IF t.state THEN t.view.payload ELSE d.tables.payload,
                        records  |-> [k \in Keys |-> IF k \in t.keys
                                                     THEN t.view.records[k]
                                                     ELSE d.tables.records[k]]],
          clock    |-> d.clock + 1,
          stateAt  |-> IF t.state THEN d.clock + 1 ELSE d.stateAt,
          recordAt |-> [k \in Keys |-> IF k \in t.keys THEN d.clock + 1 ELSE d.recordAt[k]]]
=============================================================================
