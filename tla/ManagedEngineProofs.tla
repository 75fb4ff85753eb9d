------------------------ MODULE ManagedEngineProofs ------------------------
(***************************************************************************)
(* Proofs about ManagedEngine for any number of engines, any keys and any  *)
(* revision bound, when the SQL ROLLBACK itself does not fail: its         *)
(* invariants, and that it implements GraphTransactions.                   *)
(***************************************************************************)
EXTENDS ManagedEngine, TLAPS

\* The committed tables: every commit that wrote also wrote the state row.
DatabaseInv(d) ==
    /\ d \in Databases
    /\ d.stateAt = d.clock
    /\ \A k \in Keys : d.recordAt[k] <= d.clock

\* A transaction against the committed tables.  A writer holds the state row and
\* nothing was committed since it began; a reader's snapshot is an older state
\* or, at the same revision, the same one.
TransactionInv(t, d) ==
    /\ t \in Transactions
    /\ t.start <= d.clock
    /\ t.keys # {} => t.state
    /\ t.state =>
          /\ t.active
          /\ t.start = d.clock
          /\ t.view.revision > d.tables.revision
          /\ \A k \in Keys \ t.keys : t.view.records[k] = d.tables.records[k]
    /\ t.active /\ ~t.state =>
          /\ t.view.revision <= d.tables.revision
          /\ t.start = d.clock => t.view = d.tables
          /\ t.view.revision = d.tables.revision => t.view = d.tables

\* One engine against its transaction t and the committed tables.
EngineInv(r, t, d) ==
    /\ r \in EngineStates
    /\ r.pc # "idle" => r.in_transaction /\ ~r.failed_transaction
    /\ r.in_transaction => r.open
    /\ r.failed_transaction => r.open
    /\ r.automatic => r.pc # "idle"
    /\ r.pc \in {"commitStmt", "commitAdmin"} => r.automatic
    /\ t.active => r.in_transaction
    /\ r.pc # "exec" => r.pending = {}
    /\ r.in_transaction /\ ~r.failed_transaction =>
          /\ t.active
          /\ r.loaded_revision = t.view.revision
          /\ r.pc # "exec" => r.graph = LoadGraph(t.view)
          /\ r.pc \in {"exec", "checkpoint", "replace"} => r.before = LoadGraph(t.view)
          /\ r.graph = [k \in Keys |-> IF k \in r.pending THEN LoadGraph(t.view)[k] + 1
                                       ELSE LoadGraph(t.view)[k]]
    /\ ~r.in_transaction /\ r.loaded_revision # None =>
          /\ r.loaded_revision <= d.tables.revision
          /\ r.loaded_revision = d.tables.revision => r.graph = LoadGraph(d.tables)

\* At most one open transaction has written the state row.
OneWriter == \A e, f \in Engines : txn[e].state /\ txn[f].state => e = f

Inv ==
    /\ DatabaseInv(db)
    /\ txn \in [Engines -> Transactions]
    /\ eng \in [Engines -> EngineStates]
    /\ \A e \in Engines : TransactionInv(txn[e], db)
    /\ \A e \in Engines : EngineInv(eng[e], txn[e], db)
    /\ OneWriter

-----------------------------------------------------------------------------
(* The store. *)

\* The graph decoded from stored tables is a graph.
LEMMA LoadGraphType ==
    ASSUME NEW t \in Tables
    PROVE  LoadGraph(t) \in Graphs
BY Zenon DEF Tables, Graphs, LoadGraph

\* A transaction that has just begun, and the absence of one, are consistent.
LEMMA BeginConsistent ==
    ASSUME NEW d, DatabaseInv(d)
    PROVE  /\ TransactionInv(BeginTransaction(d), d)
           /\ TransactionInv(NoTransaction, d)
<1>1. EmptyTables \in Tables
  BY Zenon DEF EmptyTables, Tables, EmptyGraph, Graphs, NoRecords
<1>2. QED
  BY <1>1 DEF DatabaseInv, TransactionInv, BeginTransaction, NoTransaction,
              Databases, Tables, Transactions

\* advance_revision writes the revision and nothing else.
LEMMA AdvanceRevisionFields ==
    ASSUME NEW t \in Transactions, t.active
    PROVE  LET q == AdvanceRevision(t) IN
           /\ q \in Transactions
           /\ q.active /\ q.state /\ q.start = t.start /\ q.keys = t.keys
           /\ q.view.revision = t.view.revision + 1
           /\ q.view.payload = t.view.payload
           /\ q.view.records = t.view.records
<1> DEFINE v == [t.view EXCEPT !.revision = @ + 1]
<1>1. t.view \in Tables
  BY Zenon DEF Transactions
<1>2. /\ v \in Tables /\ v.revision = t.view.revision + 1
      /\ v.payload = t.view.payload /\ v.records = t.view.records
  BY <1>1 DEF Tables
<1>3. AdvanceRevision(t) = [t EXCEPT !.view = v, !.state = TRUE]
  BY Zenon DEF AdvanceRevision
<1> HIDE DEF v
<1>4. QED
  BY Zenon, <1>2, <1>3 DEF Transactions

\* persist's writes: the revision row and the overlay rows of K.  Without a
\* conflict on the state row the transaction stays consistent, its revision
\* advances and its graph changes on K alone.
LEMMA WriteRecordsConsistent ==
    ASSUME NEW d, DatabaseInv(d), NEW t, TransactionInv(t, d), t.active,
           ~(d.stateAt > t.start), NEW g \in Graphs, NEW K \in SUBSET Keys
    PROVE  LET w == WriteRecords(t, g, K) IN
           /\ TransactionInv(w, d)
           /\ w.active /\ w.state
           /\ w.view.revision = t.view.revision + 1
           /\ \A k \in Keys : LoadGraph(w.view)[k] = IF k \in K THEN g[k]
                                                     ELSE LoadGraph(t.view)[k]
<1> DEFINE w == WriteRecords(t, g, K)
<1>1. t \in Transactions /\ t.start = d.clock /\ t.view \in Tables
  BY DEF DatabaseInv, TransactionInv, Databases, Transactions
<1>2. /\ w.active /\ w.state /\ w.start = t.start
      /\ w.keys = t.keys \cup K
      /\ w.view.revision = t.view.revision + 1
      /\ w.view.payload = t.view.payload
      /\ w.view.records = [k \in Keys |-> IF k \in K THEN g[k] ELSE t.view.records[k]]
      /\ w \in Transactions
  <2> DEFINE q == AdvanceRevision(t)
             R == [k \in Keys |-> IF k \in K THEN g[k] ELSE t.view.records[k]]
  <2>1. /\ q \in Transactions
        /\ q.active /\ q.state /\ q.start = t.start /\ q.keys = t.keys
        /\ q.view.revision = t.view.revision + 1
        /\ q.view.payload = t.view.payload
        /\ q.view.records = t.view.records
    BY Zenon, <1>1, AdvanceRevisionFields
  <2>2. w = [q EXCEPT !.view = [q.view EXCEPT !.records = R], !.keys = q.keys \cup K]
    BY Zenon, <2>1 DEF WriteRecords, UpsertRecords
  <2>3. R \in [Keys -> Nat \cup {Absent}]
    BY Zenon, <1>1 DEF Tables, Graphs
  <2> HIDE DEF q, w, R
  <2>4. [q.view EXCEPT !.records = R] \in Tables
    BY Zenon, <2>1, <2>3 DEF Transactions, Tables
  <2>5. w \in Transactions
    BY Zenon, <2>1, <2>2, <2>4 DEF Transactions
  <2>6. w.view = [q.view EXCEPT !.records = R] /\ q.view \in Tables
    BY Zenon, <2>1, <2>2 DEF Transactions
  <2>7. /\ w.view.revision = q.view.revision /\ w.view.payload = q.view.payload
        /\ w.view.records = R
    BY Zenon, <2>6 DEF Tables
  <2>8. QED
    BY Zenon, <2>1, <2>2, <2>5, <2>7 DEF Transactions, R
<1>3. \A k \in Keys \ t.keys : t.view.records[k] = d.tables.records[k]
  BY Zenon, <1>1 DEF TransactionInv
<1>4. w.view.revision > d.tables.revision
  BY <1>1, <1>2 DEF TransactionInv, DatabaseInv, Databases, Tables
<1>5. TransactionInv(w, d)
  <2>1. w.start <= d.clock /\ w.start = d.clock
    BY <1>1, <1>2 DEF DatabaseInv, Databases
  <2>2. \A k \in Keys \ w.keys : w.view.records[k] = d.tables.records[k]
    BY Zenon, <1>2, <1>3
  <2>3. QED
    BY Zenon, <1>2, <1>4, <2>1, <2>2 DEF TransactionInv
<1>6. LoadGraph(w.view) = [k \in Keys |-> IF k \in K THEN g[k] ELSE LoadGraph(t.view)[k]]
  BY <1>2, AbsentAssumption DEF LoadGraph, Graphs
<1> HIDE DEF w
<1>7. \A k \in Keys : LoadGraph(w.view)[k] = IF k \in K THEN g[k] ELSE LoadGraph(t.view)[k]
  BY Zenon, <1>6
<1>8. QED
  BY Zenon, <1>2, <1>5, <1>7 DEF w

\* persist_checkpoint's writes, complete (p) or cut short after the revision (q)
\* or the payload (u): all stay consistent, and the complete one decodes to g.
LEMMA WriteCheckpointConsistent ==
    ASSUME NEW d, DatabaseInv(d), NEW t, TransactionInv(t, d), t.active,
           ~(d.stateAt > t.start), NEW g \in Graphs
    PROVE  LET p == WriteCheckpoint(t, g)
               q == AdvanceRevision(t)
               u == ReplacePayload(t, g)
           IN
           /\ TransactionInv(p, d) /\ p.active /\ p.state
           /\ TransactionInv(q, d) /\ q.active /\ q.state
           /\ TransactionInv(u, d) /\ u.active /\ u.state
           /\ p.view.revision = t.view.revision + 1
           /\ p.view.records = NoRecords
           /\ LoadGraph(p.view) = g
<1> DEFINE p == WriteCheckpoint(t, g)
           q == AdvanceRevision(t)
           u == ReplacePayload(t, g)
<1>1. t \in Transactions /\ t.start = d.clock /\ t.view \in Tables
  BY DEF DatabaseInv, TransactionInv, Databases, Transactions
<1>2. \A k \in Keys \ t.keys : t.view.records[k] = d.tables.records[k]
  BY Zenon, <1>1 DEF TransactionInv
<1>3. t.view.revision + 1 > d.tables.revision
  BY <1>1 DEF TransactionInv, DatabaseInv, Databases, Tables
<1>4. /\ q.active /\ q.state /\ q.start = t.start /\ q.keys = t.keys
      /\ q.view.revision = t.view.revision + 1
      /\ q.view.records = t.view.records
      /\ q \in Transactions
  BY Zenon, <1>1, AdvanceRevisionFields
<1>5. /\ u.active /\ u.state /\ u.start = t.start /\ u.keys = t.keys
      /\ u.view.revision = t.view.revision + 1
      /\ u.view.records = t.view.records
      /\ u.view.payload = g
      /\ u \in Transactions
  BY Zenon, <1>1, <1>4 DEF ReplacePayload, Transactions, Tables
<1>6. /\ p.active /\ p.state /\ p.start = t.start
      /\ p.keys = t.keys \cup {k \in Keys : t.view.records[k] # Absent}
      /\ p.view.revision = t.view.revision + 1
      /\ p.view.records = NoRecords
      /\ p.view.payload = g
      /\ p \in Transactions
  BY Zenon, <1>1, <1>5 DEF WriteCheckpoint, DeleteRecords, NoRecords, Transactions, Tables
<1>7. d.clock <= d.clock
  BY DEF DatabaseInv, Databases
<1>8. TransactionInv(q, d)
  BY Zenon, <1>1, <1>2, <1>3, <1>4, <1>7 DEF TransactionInv
<1>9. TransactionInv(u, d)
  BY Zenon, <1>1, <1>2, <1>3, <1>5, <1>7 DEF TransactionInv
<1>10. TransactionInv(p, d)
  <2>1. ASSUME NEW k \in Keys \ p.keys
        PROVE  p.view.records[k] = d.tables.records[k]
    <3>1. k \notin t.keys /\ t.view.records[k] = Absent
      BY Zenon, <1>6
    <3>2. p.view.records[k] = Absent
      BY Zenon, <1>6 DEF NoRecords
    <3>3. QED
      BY Zenon, <1>2, <3>1, <3>2
  <2>2. QED
    BY Zenon, <1>1, <1>3, <1>6, <1>7, <2>1 DEF TransactionInv
<1>11. LoadGraph(p.view) = g
  BY Zenon, <1>6 DEF LoadGraph, NoRecords, Graphs
<1>12. QED
  BY Zenon, <1>4, <1>5, <1>6, <1>8, <1>9, <1>10, <1>11

\* COMMIT of a writer publishes exactly the tables it sees.
LEMMA CommitPublishesView ==
    ASSUME NEW d, DatabaseInv(d), NEW t, TransactionInv(t, d), t.state
    PROVE  LET c == CommitTransaction(d, t) IN
           /\ DatabaseInv(c)
           /\ c.tables = t.view
           /\ c.clock = d.clock + 1
<1> DEFINE c == CommitTransaction(d, t)
<1>1. t.view \in Tables /\ t.keys \in SUBSET Keys
  BY Zenon DEF TransactionInv, Transactions
<1>2. Wrote(t)
  BY Zenon DEF Wrote
<1>3. /\ c.tables.revision = t.view.revision
      /\ c.tables.payload = t.view.payload
      /\ c.tables.records = [k \in Keys |-> IF k \in t.keys THEN t.view.records[k]
                                            ELSE d.tables.records[k]]
      /\ c.tables = [revision |-> c.tables.revision, payload |-> c.tables.payload,
                     records |-> c.tables.records]
  BY Zenon, <1>2 DEF CommitTransaction
<1>4. c.tables.records = t.view.records
  BY Zenon, <1>1, <1>3 DEF TransactionInv, Tables
<1>5. c.tables = t.view
  BY Zenon, <1>1, <1>3, <1>4 DEF Tables
<1>6. /\ c.clock = d.clock + 1 /\ c.stateAt = d.clock + 1
      /\ c.recordAt = [k \in Keys |-> IF k \in t.keys THEN d.clock + 1 ELSE d.recordAt[k]]
      /\ c = [tables |-> c.tables, clock |-> c.clock, stateAt |-> c.stateAt,
              recordAt |-> c.recordAt]
  BY Zenon, <1>2 DEF CommitTransaction
<1>7. DatabaseInv(c)
  BY <1>1, <1>5, <1>6 DEF DatabaseInv, Databases
<1>8. QED
  BY Zenon, <1>5, <1>6, <1>7

-----------------------------------------------------------------------------
(* One engine. *)

\* What the record updates of the model change, field by field.
LEMMA LeaveFields ==
    ASSUME NEW r \in EngineStates
    PROVE  LET u == Leave(r) IN
           /\ u \in EngineStates
           /\ u.pc = "idle" /\ ~u.automatic
           /\ u.open = r.open /\ u.graph = r.graph /\ u.pending = r.pending
           /\ u.loaded_revision = r.loaded_revision
           /\ u.in_transaction = r.in_transaction
           /\ u.failed_transaction = r.failed_transaction
<1>1. EmptyGraph \in Graphs
  BY Zenon DEF EmptyGraph, Graphs
<1>2. QED
  BY Zenon, <1>1 DEF Leave, EngineStates, Stages

\* What the start of a statement changes in the engine: its stage and the
\* graph it remembers.
LEMMA EnterFields ==
    ASSUME NEW r \in EngineStates, NEW stage \in Stages, NEW auto \in BOOLEAN
    PROVE  LET u == Enter(r, stage, auto) IN
           /\ u \in EngineStates
           /\ u.pc = stage /\ u.automatic = auto /\ u.before = r.graph
           /\ u.open = r.open /\ u.graph = r.graph /\ u.pending = r.pending
           /\ u.loaded_revision = r.loaded_revision
           /\ u.in_transaction = r.in_transaction
           /\ u.failed_transaction = r.failed_transaction
BY Zenon DEF Enter, EngineStates

\* What marking the transaction failed changes in the engine.
LEMMA FailFields ==
    ASSUME NEW r \in EngineStates
    PROVE  LET u == Fail(r) IN
           /\ u \in EngineStates
           /\ u.failed_transaction
           /\ u.open = r.open /\ u.graph = r.graph /\ u.pending = r.pending
           /\ u.loaded_revision = r.loaded_revision
           /\ u.in_transaction = r.in_transaction
           /\ u.pc = r.pc /\ u.automatic = r.automatic /\ u.before = r.before
BY Zenon DEF Fail, EngineStates

\* refresh_snapshot leaves the engine at the revision it read: reloaded when
\* that differs from the cached one, untouched when it does not.
LEMMA RefreshSnapshotFields ==
    ASSUME NEW r \in EngineStates, NEW t \in Tables
    PROVE  LET u == RefreshSnapshot(r, t) IN
           /\ u \in EngineStates
           /\ u.loaded_revision = t.revision
           /\ r.loaded_revision = t.revision => u = r
           /\ r.loaded_revision # t.revision => u.graph = LoadGraph(t) /\ u.pending = {}
           /\ u.open = r.open
           /\ u.in_transaction = r.in_transaction
           /\ u.failed_transaction = r.failed_transaction
           /\ u.pc = r.pc /\ u.automatic = r.automatic /\ u.before = r.before
<1>1. LoadGraph(t) \in Graphs
  BY Zenon, LoadGraphType
<1>2. t.revision \in Nat
  BY Zenon DEF Tables
<1>3. QED
  BY Zenon, <1>1, <1>2 DEF RefreshSnapshot, EngineStates

\* Forgetting the cached revision changes nothing else.
LEMMA InvalidateFields ==
    ASSUME NEW r \in EngineStates
    PROVE  LET u == [r EXCEPT !.loaded_revision = None] IN
           /\ u \in EngineStates
           /\ u.loaded_revision = None
           /\ u.open = r.open /\ u.graph = r.graph /\ u.pending = r.pending
           /\ u.in_transaction = r.in_transaction
           /\ u.failed_transaction = r.failed_transaction
           /\ u.pc = r.pc /\ u.automatic = r.automatic /\ u.before = r.before
BY Zenon DEF EngineStates

\* The engine after a rollback: out of its transaction, with a cache that is
\* invalid or current.
Rested(r, d) ==
    /\ r \in EngineStates
    /\ r.open /\ r.pending = {} /\ ~r.in_transaction
    /\ \/ r.loaded_revision = None
       \/ r.loaded_revision = d.tables.revision /\ r.graph = LoadGraph(d.tables)

\* refresh outside a transaction never leaves a cache that is wrong for its revision.
LEMMA RefreshOutside ==
    ASSUME NEW d, DatabaseInv(d), NEW t, NEW r, EngineInv(r, t, d),
           ~r.in_transaction, r.open,
           NEW outcome \in {"ok", "refresh", "refreshCommit"}
    PROVE  EngineInv(Refresh(r, d.tables, outcome), t, d)
<1> DEFINE s == RefreshSnapshot(r, d.tables)
           c == [s EXCEPT !.loaded_revision = None]
<1>1. d.tables \in Tables /\ d.tables.revision \in Nat
  BY Zenon DEF DatabaseInv, Databases, Tables
<1>2. r \in EngineStates
  BY Zenon DEF EngineInv
<1>3. /\ s \in EngineStates
      /\ s.loaded_revision = d.tables.revision
      /\ r.loaded_revision = d.tables.revision => s = r
      /\ r.loaded_revision # d.tables.revision => s.graph = LoadGraph(d.tables) /\ s.pending = {}
      /\ s.open = r.open
      /\ s.in_transaction = r.in_transaction
      /\ s.failed_transaction = r.failed_transaction
      /\ s.pc = r.pc /\ s.automatic = r.automatic /\ s.before = r.before
  BY Zenon, <1>1, <1>2, RefreshSnapshotFields
<1>4. /\ c \in EngineStates
      /\ c.loaded_revision = None
      /\ c.open = s.open /\ c.graph = s.graph /\ c.pending = s.pending
      /\ c.in_transaction = s.in_transaction
      /\ c.failed_transaction = s.failed_transaction
      /\ c.pc = s.pc /\ c.automatic = s.automatic /\ c.before = s.before
  BY Zenon, <1>3, InvalidateFields
<1>5. /\ outcome = "ok" => Refresh(r, d.tables, outcome) = s
      /\ outcome = "refresh" => Refresh(r, d.tables, outcome) = r
      /\ outcome = "refreshCommit" => Refresh(r, d.tables, outcome) = c
  BY Zenon DEF Refresh
<1> HIDE DEF s, c
<1>6. EngineInv(s, t, d)
  <2>1. CASE r.loaded_revision = d.tables.revision
    BY Zenon, <1>3, <2>1
  <2>2. CASE r.loaded_revision # d.tables.revision
    BY <1>1, <1>3, <2>2 DEF EngineInv
  <2>3. QED
    BY Zenon, <2>1, <2>2
<1>7. EngineInv(c, t, d)
  BY Zenon, <1>3, <1>4, <1>6 DEF EngineInv
<1>8. QED
  BY Zenon, <1>5, <1>6, <1>7

\* rollback whose ROLLBACK succeeds leaves the engine rested, however its refresh ends.
LEMMA RollbackRests ==
    ASSUME NEW d, DatabaseInv(d), NEW r \in EngineStates, r.open, r.pending = {},
           NEW outcome \in {"ok", "refresh", "refreshCommit"}
    PROVE  LET u == Rollback(r, d.tables, "ok", outcome) IN
           /\ Rested(u, d)
           /\ u.pc = r.pc /\ u.automatic = r.automatic
           /\ ~u.failed_transaction
<1> DEFINE c == [r EXCEPT !.in_transaction = FALSE, !.failed_transaction = FALSE,
                          !.loaded_revision = None]
           s == RefreshSnapshot(c, d.tables)
           i == [s EXCEPT !.loaded_revision = None]
<1>1. d.tables \in Tables /\ d.tables.revision \in Nat
  BY Zenon DEF DatabaseInv, Databases, Tables
<1>2. /\ c \in EngineStates /\ c.open /\ c.pending = {} /\ ~c.in_transaction
      /\ ~c.failed_transaction
      /\ c.loaded_revision = None /\ c.pc = r.pc /\ c.automatic = r.automatic
  BY Zenon DEF EngineStates
<1>3. Rollback(r, d.tables, "ok", outcome) = Refresh(c, d.tables, outcome)
  BY Zenon DEF Rollback
<1> HIDE DEF c
<1>4. /\ s \in EngineStates /\ s.open /\ s.pending = {} /\ ~s.in_transaction
      /\ ~s.failed_transaction
      /\ s.loaded_revision = d.tables.revision /\ s.graph = LoadGraph(d.tables)
      /\ s.pc = r.pc /\ s.automatic = r.automatic
  BY <1>1, <1>2, NoneAssumption, RefreshSnapshotFields
<1>5. /\ i \in EngineStates /\ i.open /\ i.pending = {} /\ ~i.in_transaction
      /\ ~i.failed_transaction
      /\ i.loaded_revision = None
      /\ i.pc = r.pc /\ i.automatic = r.automatic
  BY Zenon, <1>4, InvalidateFields
<1>6. /\ outcome = "ok" => Refresh(c, d.tables, outcome) = s
      /\ outcome = "refresh" => Refresh(c, d.tables, outcome) = c
      /\ outcome = "refreshCommit" => Refresh(c, d.tables, outcome) = i
  BY Zenon DEF Refresh
<1> HIDE DEF s, i
<1>7. Rested(c, d) /\ Rested(s, d) /\ Rested(i, d)
  BY Zenon, <1>2, <1>4, <1>5 DEF Rested
<1>8. QED
  BY Zenon, <1>2, <1>3, <1>4, <1>5, <1>6, <1>7

\* A rested engine with no transaction satisfies the engine invariant once its
\* operation is over, also when it is marked failed.
LEMMA RestedConsistent ==
    ASSUME NEW d, DatabaseInv(d), NEW u, Rested(u, d)
    PROVE  /\ EngineInv(Leave(u), NoTransaction, d)
           /\ EngineInv(Leave(Fail(u)), NoTransaction, d)
           /\ u.pc = "idle" /\ ~u.automatic => EngineInv(u, NoTransaction, d)
<1>1. d.tables.revision \in Nat
  BY Zenon DEF DatabaseInv, Databases, Tables
<1>2. ~NoTransaction.active
  BY Zenon DEF NoTransaction
<1>3. ASSUME NEW r \in EngineStates, r.open = u.open, r.graph = u.graph,
             r.pending = u.pending, r.loaded_revision = u.loaded_revision,
             r.in_transaction = u.in_transaction, r.pc = "idle", ~r.automatic
      PROVE  EngineInv(r, NoTransaction, d)
  BY <1>1, <1>2, <1>3 DEF Rested, EngineInv
<1>4. u \in EngineStates /\ Fail(u) \in EngineStates
  BY Zenon, FailFields DEF Rested
<1>5. EngineInv(Leave(u), NoTransaction, d)
  BY Zenon, <1>3, <1>4, LeaveFields
<1>6. EngineInv(Leave(Fail(u)), NoTransaction, d)
  <2> DEFINE f == Fail(u)
  <2>1. /\ f \in EngineStates /\ f.open = u.open /\ f.graph = u.graph
        /\ f.pending = u.pending /\ f.loaded_revision = u.loaded_revision
        /\ f.in_transaction = u.in_transaction
    BY Zenon, <1>4, FailFields
  <2> HIDE DEF f
  <2>2. EngineInv(Leave(f), NoTransaction, d)
    BY Zenon, <1>3, <2>1, LeaveFields
  <2>3. QED
    BY Zenon, <2>2 DEF f
<1>7. u.pc = "idle" /\ ~u.automatic => EngineInv(u, NoTransaction, d)
  BY Zenon, <1>3, <1>4
<1>8. QED
  BY Zenon, <1>5, <1>6, <1>7

\* The cleanup of a failed or cancelled mutation.  An automatic one ends rested;
\* one in the caller's transaction restores the graph that transaction reads, or
\* leaves a failed transaction that nothing but rollback will touch.
LEMMA DropStatementConsistent ==
    ASSUME NEW d, DatabaseInv(d), NEW t, NEW r \in EngineStates,
           r.open, r.in_transaction,
           NEW outcome \in {"ok", "refresh", "refreshCommit"}
    PROVE  LET u == DropStatement(r, d.tables, "ok", outcome) IN
           /\ r.automatic => EngineInv(u, NoTransaction, d)
           /\ ~r.automatic /\ r.failed_transaction => EngineInv(u, t, d)
           /\ /\ ~r.automatic /\ ~r.failed_transaction /\ t.active
              /\ r.loaded_revision = t.view.revision /\ r.before = LoadGraph(t.view)
              => EngineInv(u, t, d)
<1> DEFINE restored == [r EXCEPT !.graph = r.before, !.pending = {}]
           undone   == Rollback(restored, d.tables, "ok", outcome)
           u        == DropStatement(r, d.tables, "ok", outcome)
<1>1. /\ restored \in EngineStates /\ restored.open /\ restored.pending = {}
      /\ restored.in_transaction
      /\ restored.failed_transaction = r.failed_transaction
      /\ restored.graph = r.before
      /\ restored.loaded_revision = r.loaded_revision
  BY Zenon DEF EngineStates
<1>2. Rested(undone, d)
  BY Zenon, <1>1, RollbackRests
<1>3. /\ r.automatic => u = Leave(undone) \/ u = Leave(Fail(undone))
      /\ ~r.automatic => u = Leave(restored)
  BY Zenon DEF DropStatement
<1> HIDE DEF restored, undone, u
<1>4. r.automatic => EngineInv(u, NoTransaction, d)
  BY Zenon, <1>2, <1>3, RestedConsistent
<1>5. ASSUME ~r.automatic
      PROVE  /\ u \in EngineStates /\ u.pc = "idle" /\ ~u.automatic
             /\ u.open /\ u.in_transaction /\ u.pending = {}
             /\ u.failed_transaction = r.failed_transaction
             /\ u.graph = r.before /\ u.loaded_revision = r.loaded_revision
  BY <1>1, <1>3, <1>5, LeaveFields
<1>6. ~r.automatic /\ r.failed_transaction => EngineInv(u, t, d)
  BY Zenon, <1>5 DEF EngineInv
<1>7. ASSUME ~r.automatic, ~r.failed_transaction, t.active,
             r.loaded_revision = t.view.revision, r.before = LoadGraph(t.view)
      PROVE  EngineInv(u, t, d)
  <2>1. u.graph = [k \in Keys |-> IF k \in u.pending THEN LoadGraph(t.view)[k] + 1
                                  ELSE LoadGraph(t.view)[k]]
    BY Zenon, <1>5, <1>7 DEF LoadGraph
  <2>2. QED
    BY Zenon, <1>5, <1>7, <2>1 DEF EngineInv
<1>8. QED
  BY Zenon, <1>4, <1>6, <1>7 DEF u

\* The cleanup of a failed checkpoint or import.
LEMMA DropAdminConsistent ==
    ASSUME NEW d, DatabaseInv(d), NEW t, NEW r \in EngineStates,
           r.open, r.in_transaction, r.pending = {},
           NEW outcome \in {"ok", "refresh", "refreshCommit"}
    PROVE  LET u == DropAdmin(r, d.tables, "ok", outcome) IN
           /\ r.automatic => EngineInv(u, NoTransaction, d)
           /\ ~r.automatic /\ r.failed_transaction => EngineInv(u, t, d)
           /\ /\ ~r.automatic /\ ~r.failed_transaction /\ t.active
              /\ r.loaded_revision = t.view.revision /\ r.graph = LoadGraph(t.view)
              => EngineInv(u, t, d)
<1> DEFINE undone == Rollback(r, d.tables, "ok", outcome)
           u      == DropAdmin(r, d.tables, "ok", outcome)
<1>1. Rested(undone, d)
  BY Zenon, RollbackRests
<1>2. /\ r.automatic => u = Leave(undone)
      /\ ~r.automatic => u = Leave(r)
  BY Zenon DEF DropAdmin
<1> HIDE DEF undone, u
<1>3. r.automatic => EngineInv(u, NoTransaction, d)
  BY Zenon, <1>1, <1>2, RestedConsistent
<1>4. ASSUME ~r.automatic
      PROVE  /\ u \in EngineStates /\ u.pc = "idle" /\ ~u.automatic
             /\ u.open /\ u.in_transaction /\ u.pending = {}
             /\ u.failed_transaction = r.failed_transaction
             /\ u.graph = r.graph /\ u.loaded_revision = r.loaded_revision
  BY Zenon, <1>2, <1>4, LeaveFields
<1>5. ~r.automatic /\ r.failed_transaction => EngineInv(u, t, d)
  BY Zenon, <1>4 DEF EngineInv
<1>6. ASSUME ~r.automatic, ~r.failed_transaction, t.active,
             r.loaded_revision = t.view.revision, r.graph = LoadGraph(t.view)
      PROVE  EngineInv(u, t, d)
  <2>1. u.graph = [k \in Keys |-> IF k \in u.pending THEN LoadGraph(t.view)[k] + 1
                                  ELSE LoadGraph(t.view)[k]]
    BY Zenon, <1>4, <1>6 DEF LoadGraph
  <2>2. QED
    BY Zenon, <1>4, <1>6, <2>1 DEF EngineInv
<1>7. QED
  BY Zenon, <1>3, <1>5, <1>6 DEF u

-----------------------------------------------------------------------------
(* All engines. *)

\* A step of engine e that leaves the committed tables alone preserves the
\* invariant when it does so for e and takes the state row from nobody.
LEMMA LocalStep ==
    ASSUME Inv, NEW e \in Engines, NEW r, NEW t,
           TransactionInv(t, db), EngineInv(r, t, db),
           t.state => txn[e].state \/ \A f \in Engines \ {e} : ~txn[f].state,
           db' = db, txn' = [txn EXCEPT ![e] = t], eng' = [eng EXCEPT ![e] = r]
    PROVE  Inv'
<1>1. t \in Transactions /\ r \in EngineStates
  BY Zenon DEF TransactionInv, EngineInv
<1>2. txn' \in [Engines -> Transactions] /\ eng' \in [Engines -> EngineStates]
  BY Zenon, <1>1 DEF Inv
<1>3. \A f \in Engines : /\ txn'[f] = IF f = e THEN t ELSE txn[f]
                         /\ eng'[f] = IF f = e THEN r ELSE eng[f]
  BY Zenon DEF Inv
<1>4. \A f \in Engines : TransactionInv(txn'[f], db)
  BY Zenon, <1>3 DEF Inv
<1>5. \A f \in Engines : EngineInv(eng'[f], txn'[f], db)
  BY Zenon, <1>3 DEF Inv
<1>6. OneWriter'
  BY Zenon, <1>3 DEF Inv, OneWriter
<1>7. QED
  BY Zenon, <1>2, <1>4, <1>5, <1>6 DEF Inv

\* A commit by e of everything it wrote preserves the invariant of the others.
LEMMA CommitStep ==
    ASSUME Inv, NEW e \in Engines, NEW r, txn[e].active,
           EngineInv(r, NoTransaction, CommitTransaction(db, txn[e])),
           db' = CommitTransaction(db, txn[e]),
           txn' = [txn EXCEPT ![e] = NoTransaction], eng' = [eng EXCEPT ![e] = r]
    PROVE  Inv'
<1>1. DatabaseInv(db) /\ TransactionInv(txn[e], db)
  BY Zenon DEF Inv
<1>2. CASE ~txn[e].state
  <2>1. db' = db
    BY Zenon, <1>1, <1>2 DEF CommitTransaction, Wrote, TransactionInv
  <2>2. TransactionInv(NoTransaction, db) /\ ~NoTransaction.state
    BY Zenon, <1>1, BeginConsistent DEF NoTransaction
  <2>3. QED
    BY Zenon, <2>1, <2>2, LocalStep
<1>3. CASE txn[e].state
  <2>1. DatabaseInv(db') /\ db'.tables = txn[e].view /\ db'.clock = db.clock + 1
    BY Zenon, <1>1, <1>3, CommitPublishesView
  <2>2. db'.tables.revision > db.tables.revision
    BY Zenon, <1>1, <1>3, <2>1 DEF TransactionInv
  <2>3. TransactionInv(NoTransaction, db')
    BY Zenon, <2>1, BeginConsistent
  <2>4. ~NoTransaction.state /\ NoTransaction \in Transactions /\ r \in EngineStates
    BY Zenon, <2>3 DEF NoTransaction, TransactionInv, EngineInv
  <2>5. \A f \in Engines : /\ txn'[f] = IF f = e THEN NoTransaction ELSE txn[f]
                           /\ eng'[f] = IF f = e THEN r ELSE eng[f]
    BY Zenon DEF Inv
  <2>6. \A f \in Engines \ {e} : ~txn[f].state
    BY Zenon, <1>3 DEF Inv, OneWriter
  <2>7. /\ db.clock \in Nat /\ db.tables.revision \in Nat
        /\ db'.clock \in Nat /\ db'.tables.revision \in Nat
    BY Zenon, <1>1, <2>1 DEF DatabaseInv, Databases, Tables
  <2>8. ASSUME NEW f \in Engines \ {e}
        PROVE  TransactionInv(txn[f], db')
    <3>1. TransactionInv(txn[f], db) /\ ~txn[f].state
      BY Zenon, <2>6 DEF Inv
    <3>2. txn[f].start \in Nat /\ txn[f].view.revision \in Nat
      BY Zenon, <3>1 DEF TransactionInv, Transactions, Tables
    <3>3. QED
      BY <2>1, <2>2, <2>7, <3>1, <3>2 DEF TransactionInv
  <2>9. ASSUME NEW f \in Engines \ {e}
        PROVE  EngineInv(eng[f], txn[f], db')
    <3>1. EngineInv(eng[f], txn[f], db)
      BY Zenon DEF Inv
    <3>2. eng[f].loaded_revision \in Nat \cup {None}
      BY Zenon, <3>1 DEF EngineInv, EngineStates
    <3>3. QED
      BY <2>2, <2>7, <3>1, <3>2 DEF EngineInv
  <2>10. txn' \in [Engines -> Transactions] /\ eng' \in [Engines -> EngineStates]
    BY Zenon, <2>4 DEF Inv
  <2>11. OneWriter'
    BY Zenon, <2>4, <2>5 DEF Inv, OneWriter
  <2>12. \A f \in Engines : TransactionInv(txn'[f], db') /\ EngineInv(eng'[f], txn'[f], db')
    BY <2>3, <2>5, <2>8, <2>9
  <2>13. QED
    BY Zenon, <2>1, <2>10, <2>11, <2>12 DEF Inv
<1>4. QED
  BY Zenon, <1>2, <1>3

\* What a call may answer when ROLLBACK does not fail.
LEMMA Outcomes ==
    ASSUME "rollback" \notin Faults
    PROVE  /\ May({"rollback"}) = {"ok"}
           /\ May({"refresh", "refreshCommit"}) \subseteq {"ok", "refresh", "refreshCommit"}
           /\ May({"refresh"}) \subseteq {"ok", "refresh"}
BY Zenon DEF May

\* The invariant, for one engine.
LEMMA InvAt ==
    ASSUME Inv, NEW e \in Engines
    PROVE  /\ DatabaseInv(db)
           /\ TransactionInv(txn[e], db)
           /\ EngineInv(eng[e], txn[e], db)
           /\ eng[e] \in EngineStates
           /\ txn[e] \in Transactions
BY Zenon DEF Inv

\* No conflict on the state row: nothing was committed since, nobody else wrote it.
LEMMA NoStateConflict ==
    ASSUME Inv, NEW e \in Engines, ~StateConflict(db, txn, e)
    PROVE  /\ ~(db.stateAt > txn[e].start)
           /\ \A f \in Engines \ {e} : ~txn[f].state
BY Zenon DEF StateConflict, Inv

\* begin puts the graph of the new transaction in the cache, or rests.
LEMMA BeginThenPreserves ==
    ASSUME "rollback" \notin Faults, Inv, NEW e \in Engines,
           NEW stage \in {"idle", "exec", "checkpoint", "replace"},
           Idle(e), BeginThen(e, stage)
    PROVE  Inv'
<1> DEFINE t == BeginTransaction(db)
           r == [eng[e] EXCEPT !.in_transaction = TRUE, !.failed_transaction = FALSE]
           s == RefreshSnapshot(r, t.view)
           u == IF stage = "idle" THEN s ELSE Enter(s, stage, TRUE)
<1>1. /\ DatabaseInv(db) /\ EngineInv(eng[e], txn[e], db) /\ eng[e] \in EngineStates
      /\ TransactionInv(t, db) /\ TransactionInv(NoTransaction, db)
  BY Zenon, InvAt, BeginConsistent
<1>2. /\ t.active /\ ~t.state /\ t.view = db.tables /\ db.tables \in Tables
      /\ db.tables.revision \in Nat /\ ~NoTransaction.state
  BY Zenon, <1>1 DEF BeginTransaction, NoTransaction, DatabaseInv, Databases, Tables
<1>3. /\ eng[e].open /\ eng[e].pc = "idle" /\ ~eng[e].in_transaction
      /\ eng[e].pending = {} /\ ~eng[e].automatic
  BY Zenon, <1>1 DEF Idle, BeginThen, EngineInv
<1>4. /\ r \in EngineStates /\ r.open /\ r.pc = "idle" /\ r.in_transaction
      /\ ~r.failed_transaction /\ r.pending = {} /\ ~r.automatic
      /\ r.loaded_revision = eng[e].loaded_revision /\ r.graph = eng[e].graph
  BY Zenon, <1>1, <1>3 DEF EngineStates
<1>5. /\ db' = db
      /\ \/ /\ txn' = [txn EXCEPT ![e] = t]
            /\ eng' = [eng EXCEPT ![e] = u]
         \/ \E sql \in May({"rollback"}), outcome \in May({"refresh", "refreshCommit"}) :
               /\ txn' = [txn EXCEPT ![e] = IF sql = "ok" THEN NoTransaction ELSE t]
               /\ eng' = [eng EXCEPT ![e] = Rollback(r, db.tables, sql, outcome)]
  BY Zenon DEF BeginThen
<1> HIDE DEF t, r
<1>6. CASE txn' = [txn EXCEPT ![e] = t] /\ eng' = [eng EXCEPT ![e] = u]
  <2>1. /\ s \in EngineStates /\ s.open /\ s.pc = "idle" /\ s.in_transaction
        /\ ~s.failed_transaction /\ s.pending = {} /\ ~s.automatic
        /\ s.loaded_revision = t.view.revision
        /\ s.graph = LoadGraph(t.view)
    <3>1. CASE r.loaded_revision = t.view.revision
      <4>1. eng[e].graph = LoadGraph(db.tables)
        BY Zenon, <1>1, <1>2, <1>3, <1>4, <3>1, NoneAssumption DEF EngineInv
      <4>2. QED
        BY <1>2, <1>4, <3>1, <4>1, RefreshSnapshotFields
    <3>2. CASE r.loaded_revision # t.view.revision
      BY <1>2, <1>4, <3>2, RefreshSnapshotFields
    <3>3. QED
      BY Zenon, <3>1, <3>2
  <2> HIDE DEF s
  <2>2. /\ u \in EngineStates /\ u.open /\ u.pc = stage /\ u.in_transaction
        /\ ~u.failed_transaction /\ u.pending = {} /\ (u.automatic => stage # "idle")
        /\ u.loaded_revision = t.view.revision
        /\ u.graph = LoadGraph(t.view)
        /\ stage # "idle" => u.before = LoadGraph(t.view)
    <3>1. CASE stage = "idle"
      BY Zenon, <2>1, <3>1
    <3>2. CASE stage # "idle"
      <4>1. stage \in Stages /\ TRUE \in BOOLEAN
        BY Zenon DEF Stages
      <4>2. u = Enter(s, stage, TRUE)
        BY Zenon, <3>2
      <4> HIDE DEF u
      <4>3. /\ u \in EngineStates
            /\ u.pc = stage /\ u.before = s.graph
            /\ u.open = s.open /\ u.graph = s.graph /\ u.pending = s.pending
            /\ u.loaded_revision = s.loaded_revision
            /\ u.in_transaction = s.in_transaction
            /\ u.failed_transaction = s.failed_transaction
        <5>1. s \in EngineStates
          BY Zenon, <2>1
        <5>2. QED
          BY Zenon, <4>1, <4>2, <5>1, EnterFields
      <4>4. QED
        BY Zenon, <2>1, <3>2, <4>3
    <3>3. QED
      BY Zenon, <3>1, <3>2
  <2> HIDE DEF u
  <2>3. u.graph = [k \in Keys |-> IF k \in u.pending THEN LoadGraph(t.view)[k] + 1
                                  ELSE LoadGraph(t.view)[k]]
    BY Zenon, <2>2 DEF LoadGraph
  <2>4. EngineInv(u, t, db)
    BY Zenon, <1>2, <2>2, <2>3 DEF EngineInv
  <2>5. QED
    BY Zenon, <1>1, <1>2, <1>5, <1>6, <2>4, LocalStep
<1>7. ASSUME NEW sql \in May({"rollback"}), NEW outcome \in May({"refresh", "refreshCommit"}),
             txn' = [txn EXCEPT ![e] = IF sql = "ok" THEN NoTransaction ELSE t],
             eng' = [eng EXCEPT ![e] = Rollback(r, db.tables, sql, outcome)]
      PROVE  Inv'
  <2>1. sql = "ok" /\ outcome \in {"ok", "refresh", "refreshCommit"}
    BY Zenon, Outcomes
  <2>2. EngineInv(Rollback(r, db.tables, sql, outcome), NoTransaction, db)
    BY <1>1, <1>4, <2>1, RollbackRests, RestedConsistent
  <2>3. QED
    BY Zenon, <1>1, <1>2, <1>5, <1>7, <2>1, <2>2, LocalStep
<1>8. QED
  BY Zenon, <1>5, <1>6, <1>7

\* Opening, closing, and reading.
LEMMA OpenPreserves ==
    ASSUME Inv, NEW e \in Engines, Open(e)
    PROVE  Inv'
<1> DEFINE c == [Closed EXCEPT !.open = TRUE]
           s == RefreshSnapshot(c, db.tables)
<1>1. /\ DatabaseInv(db) /\ TransactionInv(txn[e], db)
      /\ EngineInv(eng[e], txn[e], db) /\ eng[e] \in EngineStates
  BY Zenon, InvAt
<1>2. db.tables \in Tables /\ db.tables.revision \in Nat
  BY Zenon, <1>1 DEF DatabaseInv, Databases, Tables
<1>3. ~eng[e].in_transaction /\ ~txn[e].active
  BY Zenon, <1>1 DEF Open, EngineInv, EngineStates
<1>4. EmptyGraph \in Graphs
  BY Zenon DEF EmptyGraph, Graphs
<1>5. /\ c \in EngineStates /\ c.open /\ c.pc = "idle" /\ ~c.in_transaction
      /\ ~c.failed_transaction /\ ~c.automatic /\ c.pending = {} /\ c.loaded_revision = None
  BY Zenon, <1>4 DEF Closed, EngineStates, Stages
<1>6. db' = db /\ txn' = txn /\ eng' = [eng EXCEPT ![e] = s]
  BY Zenon DEF Open
<1> HIDE DEF c
<1>7. /\ s \in EngineStates /\ s.open /\ s.pc = "idle" /\ ~s.in_transaction
      /\ ~s.failed_transaction /\ ~s.automatic /\ s.pending = {}
      /\ s.loaded_revision = db.tables.revision /\ s.graph = LoadGraph(db.tables)
  BY <1>2, <1>5, NoneAssumption, RefreshSnapshotFields
<1> HIDE DEF s
<1>8. EngineInv(s, txn[e], db)
  BY <1>2, <1>3, <1>7 DEF EngineInv
<1>9. txn' = [txn EXCEPT ![e] = txn[e]]
  BY Zenon, <1>6 DEF Inv
<1>10. QED
  BY Zenon, <1>1, <1>6, <1>8, <1>9, LocalStep

\* A closed engine without a transaction is consistent with any database.
LEMMA ClosedConsistent ==
    ASSUME NEW d
    PROVE  EngineInv(Closed, NoTransaction, d)
<1>1. EmptyGraph \in Graphs
  BY Zenon DEF EmptyGraph, Graphs
<1>2. Closed \in EngineStates
  BY Zenon, <1>1 DEF Closed, EngineStates, Stages
<1>3. QED
  BY Zenon, <1>2 DEF Closed, NoTransaction, EngineInv

\* Dropping an engine, in a transaction or not, preserves the invariant.
LEMMA DropPreserves ==
    ASSUME Inv, NEW e \in Engines, Drop(e)
    PROVE  Inv'
<1>1. TransactionInv(NoTransaction, db) /\ ~NoTransaction.state
  BY Zenon, InvAt, BeginConsistent DEF NoTransaction
<1>2. EngineInv(Closed, NoTransaction, db)
  BY Zenon, ClosedConsistent
<1>3. QED
  BY Zenon, <1>1, <1>2, LocalStep DEF Drop

\* A crash of the process, which ends every transaction and every engine,
\* preserves the invariant.
LEMMA CrashPreserves ==
    ASSUME Inv, Crash
    PROVE  Inv'
<1>1. DatabaseInv(db)
  BY Zenon DEF Inv
<1>2. TransactionInv(NoTransaction, db) /\ ~NoTransaction.state
  BY Zenon, <1>1, BeginConsistent DEF NoTransaction
<1>3. EngineInv(Closed, NoTransaction, db)
  BY Zenon, ClosedConsistent
<1>4. NoTransaction \in Transactions /\ Closed \in EngineStates
  BY Zenon, <1>2, <1>3 DEF TransactionInv, EngineInv
<1>5. QED
  BY Zenon, <1>1, <1>2, <1>3, <1>4 DEF Crash, Inv, OneWriter

\* A read, which may refresh the cache first, preserves the invariant.
LEMMA ReadPreserves ==
    ASSUME "rollback" \notin Faults, Inv, NEW e \in Engines, Read(e)
    PROVE  Inv'
<1>1. PICK outcome \in May({"refresh", "refreshCommit"}) :
         eng' = [eng EXCEPT ![e] = Refresh(eng[e], db.tables, outcome)]
  BY Zenon DEF Read
<1>2. outcome \in {"ok", "refresh", "refreshCommit"}
  BY Zenon, Outcomes
<1>3. EngineInv(Refresh(eng[e], db.tables, outcome), txn[e], db)
  BY Zenon, <1>2, InvAt, RefreshOutside DEF Read, Idle
<1>4. db' = db /\ txn' = [txn EXCEPT ![e] = txn[e]]
  BY Zenon DEF Read, Inv
<1>5. QED
  BY Zenon, <1>1, <1>3, <1>4, InvAt, LocalStep

\* Inside a transaction the refresh is always a cache hit.
LEMMA CypherStateSnapshotPreserves ==
    ASSUME "rollback" \notin Faults, Inv, NEW e \in Engines, CypherStateSnapshot(e)
    PROVE  Inv' /\ UNCHANGED vars
<1>1. PICK outcome \in May({"refresh"}) :
         eng' = [eng EXCEPT ![e] = Refresh(eng[e], Visible(e), outcome)]
  BY Zenon DEF CypherStateSnapshot
<1>2. outcome \in {"ok", "refresh"}
  BY Zenon, Outcomes
<1>3. Visible(e).revision = eng[e].loaded_revision
  BY Zenon, InvAt DEF CypherStateSnapshot, EngineInv, Visible
<1>4. Refresh(eng[e], Visible(e), outcome) = eng[e]
  BY Zenon, <1>2, <1>3 DEF Refresh, RefreshSnapshot
<1>5. eng' = eng
  BY Zenon, <1>1, <1>4 DEF Inv
<1>6. db' = db /\ txn' = txn
  BY Zenon DEF CypherStateSnapshot
<1>7. QED
  BY Zenon, <1>5, <1>6 DEF Inv, OneWriter, vars

\* A successful COMMIT: the committer's cache is the graph it published, or the
\* one it read when it wrote nothing.
LEMMA CommitSucceeds ==
    ASSUME Inv, NEW e \in Engines, eng[e].in_transaction, ~eng[e].failed_transaction,
           eng[e].pc # "exec", NEW r \in EngineStates,
           r.open, r.pc = "idle", ~r.in_transaction, ~r.automatic, r.pending = {},
           r.loaded_revision = eng[e].loaded_revision, r.graph = eng[e].graph,
           db' = CommitTransaction(db, txn[e]),
           txn' = [txn EXCEPT ![e] = NoTransaction], eng' = [eng EXCEPT ![e] = r]
    PROVE  Inv'
<1> DEFINE c == CommitTransaction(db, txn[e])
<1>1. /\ DatabaseInv(db) /\ TransactionInv(txn[e], db)
      /\ EngineInv(eng[e], txn[e], db)
  BY Zenon, InvAt
<1>2. /\ txn[e].active
      /\ r.loaded_revision = txn[e].view.revision
      /\ r.graph = LoadGraph(txn[e].view)
  BY Zenon, <1>1 DEF EngineInv
<1>3. /\ txn[e].view.revision <= c.tables.revision
      /\ txn[e].view.revision = c.tables.revision => txn[e].view = c.tables
  <2>1. CASE txn[e].state
    <3>1. c.tables = txn[e].view /\ DatabaseInv(c)
      BY <1>1, <2>1, CommitPublishesView
    <3>2. c.tables.revision \in Nat
      BY Zenon, <3>1 DEF DatabaseInv, Databases, Tables
    <3>3. QED
      BY <3>1, <3>2
  <2>2. CASE ~txn[e].state
    <3>1. c = db
      BY Zenon, <1>1, <2>2 DEF CommitTransaction, Wrote, TransactionInv
    <3>2. QED
      BY Zenon, <1>1, <1>2, <2>2, <3>1 DEF TransactionInv
  <2>3. QED
    BY Zenon, <2>1, <2>2
<1>4. ~NoTransaction.active
  BY Zenon DEF NoTransaction
<1> HIDE DEF c
<1>5. EngineInv(r, NoTransaction, c)
  BY Zenon, <1>2, <1>3, <1>4 DEF EngineInv
<1>6. QED
  BY Zenon, <1>2, <1>5, CommitStep DEF c

\* The explicit transaction calls.
LEMMA CommitPreserves ==
    ASSUME Inv, NEW e \in Engines, Commit(e)
    PROVE  Inv'
<1>1. /\ DatabaseInv(db) /\ EngineInv(eng[e], txn[e], db) /\ eng[e] \in EngineStates
  BY Zenon, InvAt
<1>2. /\ eng[e].open /\ eng[e].pc = "idle" /\ eng[e].in_transaction
      /\ ~eng[e].failed_transaction /\ ~eng[e].automatic /\ eng[e].pending = {}
  BY Zenon, <1>1 DEF Commit, Idle, EngineInv
<1>3. CASE /\ db' = CommitTransaction(db, txn[e])
           /\ eng' = [eng EXCEPT ![e].in_transaction = FALSE]
  <2> DEFINE r == [eng[e] EXCEPT !.in_transaction = FALSE]
  <2>1. /\ r \in EngineStates /\ r.open /\ r.pc = "idle" /\ ~r.in_transaction
        /\ ~r.automatic /\ r.pending = {}
        /\ r.loaded_revision = eng[e].loaded_revision /\ r.graph = eng[e].graph
    BY Zenon, <1>1, <1>2 DEF EngineStates
  <2>2. eng' = [eng EXCEPT ![e] = r] /\ txn' = [txn EXCEPT ![e] = NoTransaction]
    BY Zenon, <1>3 DEF Inv, Commit
  <2> HIDE DEF r
  <2>3. QED
    BY Zenon, <1>2, <1>3, <2>1, <2>2, CommitSucceeds
<1>4. CASE db' = db /\ eng' = [eng EXCEPT ![e] = Fail(eng[e])]
  <2> DEFINE f == Fail(eng[e])
  <2>1. /\ f \in EngineStates /\ f.open /\ f.pc = "idle" /\ f.in_transaction
        /\ f.failed_transaction /\ ~f.automatic /\ f.pending = {}
    BY Zenon, <1>1, <1>2, FailFields
  <2> HIDE DEF f
  <2>2. ~NoTransaction.active /\ ~NoTransaction.state
    BY Zenon DEF NoTransaction
  <2>3. EngineInv(f, NoTransaction, db)
    BY Zenon, <2>1, <2>2 DEF EngineInv
  <2>4. eng' = [eng EXCEPT ![e] = f] /\ txn' = [txn EXCEPT ![e] = NoTransaction]
    BY Zenon, <1>4 DEF Commit, f
  <2>5. QED
    BY Zenon, <1>1, <1>4, <2>2, <2>3, <2>4, BeginConsistent, LocalStep
<1>5. QED
  BY Zenon, <1>3, <1>4 DEF Commit

\* rollback called by the user preserves the invariant.
LEMMA RollbackCallPreserves ==
    ASSUME "rollback" \notin Faults, Inv, NEW e \in Engines, RollbackCall(e)
    PROVE  Inv'
<1>1. PICK sql \in May({"rollback"}), outcome \in May({"refresh", "refreshCommit"}) :
         /\ eng' = [eng EXCEPT ![e] = Rollback(eng[e], db.tables, sql, outcome)]
         /\ txn' = [txn EXCEPT ![e] = IF sql = "ok" THEN NoTransaction ELSE txn[e]]
  BY Zenon DEF RollbackCall
<1>2. sql = "ok" /\ outcome \in {"ok", "refresh", "refreshCommit"}
  BY Zenon, Outcomes
<1>3. /\ eng[e].open /\ eng[e].pending = {} /\ eng[e].pc = "idle" /\ ~eng[e].automatic
      /\ eng[e] \in EngineStates /\ DatabaseInv(db)
  BY Zenon, InvAt DEF RollbackCall, Idle, EngineInv
<1>4. EngineInv(Rollback(eng[e], db.tables, sql, outcome), NoTransaction, db)
  BY <1>2, <1>3, RollbackRests, RestedConsistent
<1>5. TransactionInv(NoTransaction, db) /\ ~NoTransaction.state
  BY Zenon, <1>3, BeginConsistent DEF NoTransaction
<1>6. QED
  BY Zenon, <1>1, <1>2, <1>4, <1>5, LocalStep DEF RollbackCall

\* Mutations, checkpoints and imports.
LEMMA StartPreserves ==
    ASSUME "rollback" \notin Faults, Inv, NEW e \in Engines,
           NEW stage \in {"exec", "checkpoint", "replace"}, Start(e, stage)
    PROVE  Inv'
<1>1. CASE BeginThen(e, stage)
  BY Zenon, <1>1, BeginThenPreserves DEF Start
<1>2. CASE /\ eng[e].in_transaction /\ UNCHANGED <<db, txn>>
           /\ eng' = [eng EXCEPT ![e] = Enter(eng[e], stage, FALSE)]
  <2> DEFINE u == Enter(eng[e], stage, FALSE)
  <2>1. /\ EngineInv(eng[e], txn[e], db) /\ TransactionInv(txn[e], db)
        /\ eng[e] \in EngineStates
    BY Zenon, InvAt
  <2>2. /\ eng[e].open /\ eng[e].pc = "idle" /\ eng[e].in_transaction
        /\ ~eng[e].failed_transaction /\ eng[e].pending = {}
        /\ txn[e].active /\ eng[e].loaded_revision = txn[e].view.revision
        /\ eng[e].graph = LoadGraph(txn[e].view)
    BY Zenon, <1>2, <2>1 DEF Start, Idle, EngineInv
  <2>3. stage \in Stages /\ FALSE \in BOOLEAN
    BY Zenon DEF Stages
  <2>4. /\ u \in EngineStates
        /\ u.pc = stage /\ u.automatic = FALSE /\ u.before = eng[e].graph
        /\ u.open = eng[e].open /\ u.graph = eng[e].graph /\ u.pending = eng[e].pending
        /\ u.loaded_revision = eng[e].loaded_revision
        /\ u.in_transaction = eng[e].in_transaction
        /\ u.failed_transaction = eng[e].failed_transaction
    BY Zenon, <2>1, <2>3, EnterFields
  <2> HIDE DEF u
  <2>5. u.graph = [k \in Keys |-> IF k \in u.pending THEN LoadGraph(txn[e].view)[k] + 1
                                  ELSE LoadGraph(txn[e].view)[k]]
    BY Zenon, <2>2, <2>4 DEF LoadGraph
  <2>6. EngineInv(u, txn[e], db)
    BY Zenon, <2>2, <2>4, <2>5 DEF EngineInv
  <2>7. /\ eng' = [eng EXCEPT ![e] = u] /\ db' = db
        /\ txn' = [txn EXCEPT ![e] = txn[e]]
    BY Zenon, <1>2 DEF u, Inv
  <2>8. QED
    BY Zenon, <2>1, <2>6, <2>7, LocalStep
<1>3. QED
  BY Zenon, <1>1, <1>2 DEF Start

\* Running the statement against the cached graph preserves the invariant.
LEMMA MutatePreserves ==
    ASSUME Inv, NEW e \in Engines, NEW j \in Keys, Mutate(e, j)
    PROVE  Inv'
<1> DEFINE g == [eng[e].graph EXCEPT ![j] = @ + 1]
           p == eng[e].pending \cup {j}
           u == [eng[e] EXCEPT !.graph = g, !.pending = p]
           L == LoadGraph(txn[e].view)
<1>1. /\ EngineInv(eng[e], txn[e], db) /\ TransactionInv(txn[e], db)
      /\ eng[e] \in EngineStates /\ txn[e] \in Transactions
  BY Zenon, InvAt
<1>2. /\ eng[e].pc = "exec" /\ j \notin eng[e].pending
      /\ eng[e].in_transaction /\ ~eng[e].failed_transaction
  BY Zenon, <1>1 DEF Mutate, EngineInv
<1>3. eng[e].graph = [k \in Keys |-> IF k \in eng[e].pending THEN L[k] + 1 ELSE L[k]]
  BY Zenon, <1>1, <1>2 DEF EngineInv
<1>4. L \in Graphs
  BY Zenon, <1>1, LoadGraphType DEF Transactions
<1> HIDE DEF L
<1>5. g = [k \in Keys |-> IF k \in p THEN L[k] + 1 ELSE L[k]]
  BY Zenon, <1>2, <1>3
<1>6. g \in Graphs /\ p \in SUBSET Keys
  BY <1>1, <1>4, <1>5 DEF Graphs, EngineStates
<1>7. eng' = [eng EXCEPT ![e] = u] /\ db' = db /\ txn' = [txn EXCEPT ![e] = txn[e]]
  BY Zenon DEF Mutate, Inv
<1> HIDE DEF g, p
<1>8. /\ u \in EngineStates /\ u.graph = g /\ u.pending = p
      /\ u.open = eng[e].open /\ u.loaded_revision = eng[e].loaded_revision
      /\ u.in_transaction = eng[e].in_transaction
      /\ u.failed_transaction = eng[e].failed_transaction
      /\ u.pc = eng[e].pc /\ u.automatic = eng[e].automatic /\ u.before = eng[e].before
  BY Zenon, <1>1, <1>6 DEF EngineStates
<1> HIDE DEF u
<1>9. EngineInv(u, txn[e], db)
  BY Zenon, <1>1, <1>2, <1>5, <1>8 DEF EngineInv, L
<1>10. QED
  BY Zenon, <1>1, <1>7, <1>9, LocalStep

\* A statement that fails or is cancelled before persist preserves the
\* invariant.
LEMMA AbortStatementPreserves ==
    ASSUME "rollback" \notin Faults, Inv, NEW e \in Engines, AbortStatement(e)
    PROVE  Inv'
<1>1. PICK sql \in May({"rollback"}), outcome \in May({"refresh", "refreshCommit"}) :
         /\ eng' = [eng EXCEPT ![e] = DropStatement(eng[e], db.tables, sql, outcome)]
         /\ txn' = [txn EXCEPT ![e] = Undone(txn[e], eng[e], sql)]
  BY Zenon DEF AbortStatement
<1>2. sql = "ok" /\ outcome \in {"ok", "refresh", "refreshCommit"}
  BY Zenon, Outcomes
<1>3. /\ DatabaseInv(db) /\ EngineInv(eng[e], txn[e], db) /\ TransactionInv(txn[e], db)
      /\ eng[e] \in EngineStates
      /\ TransactionInv(NoTransaction, db) /\ ~NoTransaction.state
  BY Zenon, InvAt, BeginConsistent DEF NoTransaction
<1>4. /\ eng[e].pc = "exec" /\ eng[e].open /\ eng[e].in_transaction
      /\ ~eng[e].failed_transaction /\ txn[e].active
      /\ eng[e].loaded_revision = txn[e].view.revision
      /\ eng[e].before = LoadGraph(txn[e].view)
  BY Zenon, <1>3 DEF AbortStatement, EngineInv
<1> DEFINE t == Undone(txn[e], eng[e], sql)
           u == DropStatement(eng[e], db.tables, sql, outcome)
<1>5. EngineInv(u, t, db) /\ TransactionInv(t, db) /\ (t.state => txn[e].state)
  <2>1. CASE eng[e].automatic
    BY Zenon, <1>2, <1>3, <1>4, <2>1, DropStatementConsistent DEF Undone
  <2>2. CASE ~eng[e].automatic
    BY Zenon, <1>2, <1>3, <1>4, <2>2, DropStatementConsistent DEF Undone
  <2>3. QED
    BY Zenon, <2>1, <2>2
<1> HIDE DEF t, u
<1>6. QED
  BY Zenon, <1>1, <1>5, LocalStep DEF t, u, AbortStatement

\* What the end of a persist changes in the engine.
LEMMA PersistedFields ==
    ASSUME NEW r \in EngineStates, NEW stage \in Stages
    PROVE  LET u == Persisted(r, stage) IN
           /\ u \in EngineStates
           /\ u.pc = IF r.automatic THEN stage ELSE "idle"
           /\ u.automatic = r.automatic
           /\ u.open = r.open /\ u.graph = r.graph /\ u.pending = r.pending
           /\ u.loaded_revision = r.loaded_revision
           /\ u.in_transaction = r.in_transaction
           /\ u.failed_transaction = r.failed_transaction
<1>1. CASE r.automatic
  BY Zenon, <1>1 DEF Persisted, EngineStates
<1>2. CASE ~r.automatic
  <2>1. r.automatic = FALSE
    BY Zenon, <1>2 DEF EngineStates
  <2>2. Persisted(r, stage) = Leave(r) /\ Leave(r).automatic = FALSE
    BY Zenon, <1>2, LeaveFields DEF Persisted, Leave, EngineStates
  <2>3. QED
    BY Zenon, <1>2, <2>1, <2>2, LeaveFields
<1>3. QED
  BY Zenon, <1>1, <1>2

\* An operation whose writes are in transaction t, with the graph t decodes to
\* in the cache, is consistent at its commit stage or when it is over.
LEMMA PersistedConsistent ==
    ASSUME NEW d, NEW t \in Transactions, t.active, NEW r \in EngineStates,
           r.open, r.in_transaction, ~r.failed_transaction, r.pending = {},
           r.loaded_revision = t.view.revision, r.graph = LoadGraph(t.view),
           NEW stage \in {"commitStmt", "commitAdmin"}
    PROVE  EngineInv(Persisted(r, stage), t, d)
<1> DEFINE u == Persisted(r, stage)
<1>1. stage \in Stages
  BY Zenon DEF Stages
<1>2. /\ u \in EngineStates
      /\ u.pc = IF r.automatic THEN stage ELSE "idle"
      /\ u.automatic = r.automatic
      /\ u.open = r.open /\ u.graph = r.graph /\ u.pending = r.pending
      /\ u.loaded_revision = r.loaded_revision
      /\ u.in_transaction = r.in_transaction
      /\ u.failed_transaction = r.failed_transaction
  BY Zenon, <1>1, PersistedFields
<1> HIDE DEF u
<1>3. u.graph = [k \in Keys |-> IF k \in u.pending THEN LoadGraph(t.view)[k] + 1
                                ELSE LoadGraph(t.view)[k]]
  BY Zenon, <1>2 DEF LoadGraph
<1>4. EngineInv(u, t, d)
  BY Zenon, <1>2, <1>3 DEF EngineInv
<1>5. QED
  BY Zenon, <1>4 DEF u

\* What persist leaves in the cache: the new revision and nothing pending.
LEMMA SavedFields ==
    ASSUME NEW r \in EngineStates, NEW t \in Transactions, NEW g \in Graphs
    PROVE  /\ LET u == Saved(r, t) IN
              /\ u \in EngineStates
              /\ u.loaded_revision = t.view.revision /\ u.pending = {}
              /\ u.open = r.open /\ u.graph = r.graph
              /\ u.in_transaction = r.in_transaction
              /\ u.failed_transaction = r.failed_transaction
           /\ LET u == [r EXCEPT !.graph = g] IN
              /\ u \in EngineStates /\ u.graph = g
              /\ u.open = r.open /\ u.in_transaction = r.in_transaction
              /\ u.failed_transaction = r.failed_transaction
<1>1. t.view.revision \in Nat
  BY Zenon DEF Transactions, Tables
<1>2. QED
  BY Zenon, <1>1 DEF Saved, EngineStates

\* A persist that succeeds preserves the invariant.
LEMMA PersistPreserves ==
    ASSUME Inv, NEW e \in Engines, Persist(e)
    PROVE  Inv'
<1> DEFINE r == eng[e]
           L == LoadGraph(txn[e].view)
           w == WriteRecords(txn[e], r.graph, r.pending)
<1>1. /\ DatabaseInv(db) /\ TransactionInv(txn[e], db) /\ EngineInv(r, txn[e], db)
      /\ r \in EngineStates /\ txn[e] \in Transactions
  BY Zenon, InvAt
<1>2. /\ r.pc = "exec" /\ r.in_transaction /\ ~r.failed_transaction /\ r.open
      /\ txn[e].active /\ r.loaded_revision = txn[e].view.revision
      /\ r.graph = [k \in Keys |-> IF k \in r.pending THEN L[k] + 1 ELSE L[k]]
  BY Zenon, <1>1 DEF Persist, EngineInv
<1>3. db' = db
  BY Zenon DEF Persist
<1>4. CASE /\ r.pending = {}
           /\ eng' = [eng EXCEPT ![e] = Persisted(r, "commitStmt")]
           /\ txn' = txn
  <2>1. r.graph = L
    BY Zenon, <1>2, <1>4 DEF LoadGraph
  <2>2. EngineInv(Persisted(r, "commitStmt"), txn[e], db)
    BY Zenon, <1>1, <1>2, <1>4, <2>1, PersistedConsistent
  <2>3. txn' = [txn EXCEPT ![e] = txn[e]]
    BY Zenon, <1>4 DEF Inv
  <2>4. QED
    BY Zenon, <1>1, <1>3, <1>4, <2>2, <2>3, LocalStep
<1>5. CASE /\ ~RecordsConflict(e, r.pending)
           /\ txn' = [txn EXCEPT ![e] = w]
           /\ eng' = [eng EXCEPT ![e] = Persisted(Saved(r, w), "commitStmt")]
  <2>1. /\ ~(db.stateAt > txn[e].start)
        /\ \A f \in Engines \ {e} : ~txn[f].state
    BY Zenon, <1>5, NoStateConflict DEF RecordsConflict
  <2>2. r.graph \in Graphs /\ r.pending \in SUBSET Keys
    BY Zenon, <1>1 DEF EngineStates
  <2> HIDE DEF r
  <2>3. /\ TransactionInv(w, db) /\ w.active
        /\ \A k \in Keys : LoadGraph(w.view)[k] = IF k \in r.pending THEN r.graph[k]
                                                  ELSE LoadGraph(txn[e].view)[k]
    <3>1. txn[e].active
      BY Zenon, <1>2
    <3>2. QED
      BY <1>1, <2>1, <2>2, <3>1, WriteRecordsConsistent
  <2> HIDE DEF w
  <2>4. LoadGraph(w.view) = r.graph
    <3>1. LoadGraph(w.view) = [k \in Keys |-> LoadGraph(w.view)[k]]
      BY Zenon DEF LoadGraph
    <3>2. QED
      BY ZenonT(30), <1>2, <2>3, <3>1
  <2>5. w \in Transactions
    BY Zenon, <2>3 DEF TransactionInv
  <2> DEFINE v == Saved(r, w)
  <2>6. /\ v \in EngineStates /\ v.open /\ v.in_transaction /\ ~v.failed_transaction
        /\ v.pending = {} /\ v.loaded_revision = w.view.revision
        /\ v.graph = LoadGraph(w.view)
    <3>1. /\ v \in EngineStates
          /\ v.loaded_revision = w.view.revision /\ v.pending = {}
          /\ v.open = r.open /\ v.graph = r.graph
          /\ v.in_transaction = r.in_transaction
          /\ v.failed_transaction = r.failed_transaction
      BY Zenon, <1>1, <2>2, <2>5, SavedFields
    <3>2. QED
      BY Zenon, <1>2, <2>4, <3>1
  <2> HIDE DEF v
  <2>7. EngineInv(Persisted(v, "commitStmt"), w, db)
    BY Zenon, <2>3, <2>5, <2>6, PersistedConsistent
  <2>8. eng' = [eng EXCEPT ![e] = Persisted(v, "commitStmt")]
    BY Zenon, <1>5 DEF v
  <2>9. QED
    BY Zenon, <1>3, <1>5, <2>1, <2>3, <2>7, <2>8, LocalStep
<1>6. QED
  BY Zenon, <1>4, <1>5 DEF Persist

\* A persist that fails at any of its writes preserves the invariant.
LEMMA PersistFailsPreserves ==
    ASSUME "rollback" \notin Faults, Inv, NEW e \in Engines, PersistFails(e)
    PROVE  Inv'
<1> DEFINE r == eng[e]
           Partial == IF StateConflict(db, txn, e) THEN {}
                      ELSE {WriteRecords(txn[e], r.graph, K) : K \in
                               {S \in SUBSET r.pending : ~RecordConflict(db, txn, e, S)}}
<1>1. PICK written \in {txn[e]} \cup Partial,
           sql \in May({"rollback"}), outcome \in May({"refresh", "refreshCommit"}) :
         /\ txn' = [txn EXCEPT ![e] = Undone(written, r, sql)]
         /\ eng' = [eng EXCEPT ![e] = DropStatement(Fail(r), db.tables, sql, outcome)]
  BY Zenon DEF PersistFails
<1>2. sql = "ok" /\ outcome \in {"ok", "refresh", "refreshCommit"}
  BY Zenon, Outcomes
<1>3. /\ DatabaseInv(db) /\ EngineInv(r, txn[e], db) /\ TransactionInv(txn[e], db)
      /\ r \in EngineStates
      /\ TransactionInv(NoTransaction, db) /\ ~NoTransaction.state
  BY Zenon, InvAt, BeginConsistent DEF NoTransaction
<1>4. /\ r.open /\ r.in_transaction /\ txn[e].active
      /\ r.graph \in Graphs /\ r.pending \in SUBSET Keys
  BY Zenon, <1>3 DEF PersistFails, EngineInv, EngineStates
<1>5. /\ TransactionInv(written, db)
      /\ written.state => txn[e].state \/ \A f \in Engines \ {e} : ~txn[f].state
  <2>1. CASE written = txn[e]
    BY Zenon, <1>3, <2>1
  <2>2. CASE written \in Partial
    <3>1. PICK K \in SUBSET r.pending : written = WriteRecords(txn[e], r.graph, K)
      BY Zenon, <2>2
    <3>2. ~StateConflict(db, txn, e) /\ K \in SUBSET Keys
      BY Zenon, <1>4, <2>2
    <3>3. ~(db.stateAt > txn[e].start) /\ \A f \in Engines \ {e} : ~txn[f].state
      BY Zenon, <3>2, NoStateConflict
    <3> HIDE DEF r, Partial
    <3>4. TransactionInv(WriteRecords(txn[e], r.graph, K), db)
      BY SMTT(30), <1>3, <1>4, <3>2, <3>3, WriteRecordsConsistent
    <3> QED
      BY Zenon, <3>1, <3>3, <3>4
  <2>3. QED
    BY Zenon, <1>1, <2>1, <2>2
<1> DEFINE t == Undone(written, r, sql)
           v == Fail(r)
           u == DropStatement(v, db.tables, sql, outcome)
<1>6. /\ v \in EngineStates /\ v.open /\ v.in_transaction /\ v.failed_transaction
      /\ v.automatic = r.automatic
  BY Zenon, <1>3, <1>4, FailFields
<1>7. t = IF r.automatic THEN NoTransaction ELSE written
  BY Zenon, <1>2 DEF Undone
<1>8. eng' = [eng EXCEPT ![e] = u] /\ txn' = [txn EXCEPT ![e] = t] /\ db' = db
  BY Zenon, <1>1 DEF PersistFails
<1> HIDE DEF v, t, r, Partial
<1>9. EngineInv(u, t, db)
  <2>1. CASE r.automatic
    BY Zenon, <1>2, <1>3, <1>6, <1>7, <2>1, DropStatementConsistent
  <2>2. CASE ~r.automatic
    BY Zenon, <1>2, <1>3, <1>6, <1>7, <2>2, DropStatementConsistent
  <2>3. QED
    BY Zenon, <2>1, <2>2
<1> HIDE DEF u
<1>10. QED
  BY Zenon, <1>3, <1>5, <1>7, <1>8, <1>9, LocalStep

\* An automatic COMMIT that succeeds, at the end of a mutation or a checkpoint.
LEMMA AutomaticCommitPreserves ==
    ASSUME Inv, NEW e \in Engines, eng[e].pc \in {"commitStmt", "commitAdmin"},
           db' = CommitTransaction(db, txn[e]),
           txn' = [txn EXCEPT ![e] = NoTransaction],
           eng' = [eng EXCEPT ![e] = Leave([eng[e] EXCEPT !.in_transaction = FALSE])]
    PROVE  Inv'
<1> DEFINE o == [eng[e] EXCEPT !.in_transaction = FALSE]
           r == Leave(o)
<1>1. /\ EngineInv(eng[e], txn[e], db) /\ eng[e] \in EngineStates
  BY Zenon, InvAt
<1>2. /\ eng[e].open /\ eng[e].in_transaction /\ ~eng[e].failed_transaction
      /\ eng[e].pending = {}
  BY Zenon, <1>1 DEF EngineInv
<1>3. /\ o \in EngineStates /\ o.open /\ ~o.in_transaction /\ o.pending = {}
      /\ o.loaded_revision = eng[e].loaded_revision /\ o.graph = eng[e].graph
  BY Zenon, <1>1, <1>2 DEF EngineStates
<1> HIDE DEF o
<1>4. /\ r \in EngineStates /\ r.open /\ ~r.in_transaction /\ r.pending = {}
      /\ r.pc = "idle" /\ ~r.automatic
      /\ r.loaded_revision = eng[e].loaded_revision /\ r.graph = eng[e].graph
  BY Zenon, <1>3, LeaveFields
<1>5. eng' = [eng EXCEPT ![e] = r]
  BY Zenon DEF o
<1> HIDE DEF r
<1>6. QED
  BY Zenon, <1>2, <1>4, <1>5, CommitSucceeds

\* The commit of an automatic transaction preserves the invariant.
LEMMA CommitStatementPreserves ==
    ASSUME "rollback" \notin Faults, Inv, NEW e \in Engines, CommitStatement(e)
    PROVE  Inv'
<1> DEFINE r == eng[e]
           v == Fail(r)
<1>1. /\ DatabaseInv(db) /\ EngineInv(r, txn[e], db) /\ r \in EngineStates
      /\ TransactionInv(NoTransaction, db) /\ ~NoTransaction.state
  BY Zenon, InvAt, BeginConsistent DEF NoTransaction
<1>2. r.pc = "commitStmt" /\ r.open /\ r.in_transaction /\ r.automatic
  BY Zenon, <1>1 DEF CommitStatement, EngineInv
<1>3. CASE /\ db' = CommitTransaction(db, txn[e])
           /\ eng' = [eng EXCEPT ![e] = Leave([r EXCEPT !.in_transaction = FALSE])]
  BY Zenon, <1>2, <1>3, AutomaticCommitPreserves DEF CommitStatement
<1>4. ASSUME db' = db,
             NEW sql \in May({"rollback"}), NEW outcome \in May({"refresh", "refreshCommit"}),
             eng' = [eng EXCEPT ![e] = DropStatement(v, db.tables, sql, outcome)]
      PROVE  Inv'
  <2>1. sql = "ok" /\ outcome \in {"ok", "refresh", "refreshCommit"}
    BY Zenon, Outcomes
  <2>2. v \in EngineStates /\ v.open /\ v.in_transaction /\ v.automatic
    BY Zenon, <1>1, <1>2, FailFields
  <2> HIDE DEF v
  <2>3. EngineInv(DropStatement(v, db.tables, sql, outcome), NoTransaction, db)
    BY Zenon, <1>1, <2>1, <2>2, DropStatementConsistent
  <2>4. QED
    BY Zenon, <1>1, <1>4, <2>3, LocalStep DEF CommitStatement
<1>5. QED
  BY Zenon, <1>3, <1>4 DEF CommitStatement

\* The end of an administrative statement's own transaction preserves the
\* invariant.
LEMMA FinishAutomaticPreserves ==
    ASSUME "rollback" \notin Faults, Inv, NEW e \in Engines, FinishAutomatic(e)
    PROVE  Inv'
<1> DEFINE r == eng[e]
           v == Fail(r)
<1>1. /\ DatabaseInv(db) /\ EngineInv(r, txn[e], db) /\ r \in EngineStates
      /\ TransactionInv(NoTransaction, db) /\ ~NoTransaction.state
  BY Zenon, InvAt, BeginConsistent DEF NoTransaction
<1>2. /\ r.pc = "commitAdmin" /\ r.open /\ r.in_transaction /\ r.automatic
      /\ r.pending = {}
  BY Zenon, <1>1 DEF FinishAutomatic, EngineInv
<1>3. CASE /\ db' = CommitTransaction(db, txn[e])
           /\ eng' = [eng EXCEPT ![e] = Leave([r EXCEPT !.in_transaction = FALSE])]
  BY Zenon, <1>2, <1>3, AutomaticCommitPreserves DEF FinishAutomatic
<1>4. ASSUME db' = db,
             NEW sql \in May({"rollback"}), NEW outcome \in May({"refresh", "refreshCommit"}),
             eng' = [eng EXCEPT ![e] = DropAdmin(v, db.tables, sql, outcome)]
      PROVE  Inv'
  <2>1. sql = "ok" /\ outcome \in {"ok", "refresh", "refreshCommit"}
    BY Zenon, Outcomes
  <2>2. v \in EngineStates /\ v.open /\ v.in_transaction /\ v.automatic /\ v.pending = {}
    BY Zenon, <1>1, <1>2, FailFields
  <2> HIDE DEF v
  <2>3. EngineInv(DropAdmin(v, db.tables, sql, outcome), NoTransaction, db)
    BY Zenon, <1>1, <2>1, <2>2, DropAdminConsistent
  <2>4. QED
    BY Zenon, <1>1, <1>4, <2>3, LocalStep DEF FinishAutomatic
<1>5. QED
  BY Zenon, <1>3, <1>4 DEF FinishAutomatic

\* The graphs a checkpoint or an import may save.
LEMMA IncomingType ==
    ASSUME NEW r \in EngineStates, NEW g \in Incoming(r)
    PROVE  g \in Graphs
BY Zenon, ImportsAssumption DEF Incoming, EngineStates

\* checkpoint and replace_graph, when their writes succeed, preserve the
\* invariant.
LEMMA PersistCheckpointPreserves ==
    ASSUME Inv, NEW e \in Engines, PersistCheckpoint(e)
    PROVE  Inv'
<1> DEFINE r == eng[e]
<1>1. /\ DatabaseInv(db) /\ TransactionInv(txn[e], db) /\ EngineInv(r, txn[e], db)
      /\ r \in EngineStates
  BY Zenon, InvAt
<1>2. /\ r.pc \in {"checkpoint", "replace"} /\ r.in_transaction
      /\ ~r.failed_transaction /\ r.open /\ txn[e].active
  BY Zenon, <1>1 DEF PersistCheckpoint, EngineInv
<1>3. PICK g \in Incoming(r) :
         /\ txn' = [txn EXCEPT ![e] = WriteCheckpoint(txn[e], g)]
         /\ eng' = [eng EXCEPT ![e] =
                      Persisted(Saved([r EXCEPT !.graph = g], WriteCheckpoint(txn[e], g)),
                                "commitAdmin")]
  BY Zenon DEF PersistCheckpoint
<1>4. g \in Graphs
  BY Zenon, <1>1, IncomingType
<1>5. /\ ~(db.stateAt > txn[e].start)
      /\ \A f \in Engines \ {e} : ~txn[f].state
  BY Zenon, NoStateConflict DEF PersistCheckpoint, CheckpointConflict, RecordsConflict
<1> DEFINE w == WriteCheckpoint(txn[e], g)
           i == [r EXCEPT !.graph = g]
           v == Saved(i, w)
<1>6. TransactionInv(w, db) /\ w.active /\ LoadGraph(w.view) = g
  BY SMTT(30), <1>1, <1>2, <1>4, <1>5, WriteCheckpointConsistent
<1>7. w \in Transactions
  BY Zenon, <1>6 DEF TransactionInv
<1> HIDE DEF w
<1>8. /\ i \in EngineStates /\ i.graph = g /\ i.open /\ i.in_transaction
      /\ ~i.failed_transaction
  BY <1>1, <1>2, <1>4, <1>7, SavedFields
<1> HIDE DEF i
<1>9. /\ v \in EngineStates /\ v.open /\ v.in_transaction /\ ~v.failed_transaction
      /\ v.pending = {} /\ v.loaded_revision = w.view.revision /\ v.graph = g
  <2>1. /\ v \in EngineStates
        /\ v.loaded_revision = w.view.revision /\ v.pending = {}
        /\ v.open = i.open /\ v.graph = i.graph
        /\ v.in_transaction = i.in_transaction
        /\ v.failed_transaction = i.failed_transaction
    BY Zenon, <1>4, <1>7, <1>8, SavedFields
  <2>2. QED
    BY Zenon, <1>8, <2>1
<1> HIDE DEF v
<1>10. EngineInv(Persisted(v, "commitAdmin"), w, db)
  BY Zenon, <1>6, <1>7, <1>9, PersistedConsistent
<1>11. /\ txn' = [txn EXCEPT ![e] = w] /\ db' = db
       /\ eng' = [eng EXCEPT ![e] = Persisted(v, "commitAdmin")]
  BY Zenon, <1>3 DEF PersistCheckpoint, v, w, i
<1>12. QED
  BY Zenon, <1>5, <1>6, <1>10, <1>11, LocalStep

\* checkpoint and replace_graph, when a write fails, preserve the invariant.
LEMMA PersistCheckpointFailsPreserves ==
    ASSUME "rollback" \notin Faults, Inv, NEW e \in Engines, PersistCheckpointFails(e)
    PROVE  Inv'
<1> DEFINE r == eng[e]
           v == Fail(r)
           Partial == IF StateConflict(db, txn, e) THEN {}
                      ELSE {AdvanceRevision(txn[e])} \cup
                           {ReplacePayload(txn[e], g) : g \in Incoming(r)}
<1>1. /\ DatabaseInv(db) /\ TransactionInv(txn[e], db) /\ EngineInv(r, txn[e], db)
      /\ r \in EngineStates
      /\ TransactionInv(NoTransaction, db) /\ ~NoTransaction.state
  BY Zenon, InvAt, BeginConsistent DEF NoTransaction
<1>2. /\ r.pc \in {"checkpoint", "replace"} /\ r.in_transaction
      /\ ~r.failed_transaction /\ r.open /\ r.pending = {} /\ txn[e].active
      /\ r.loaded_revision = txn[e].view.revision /\ r.graph = LoadGraph(txn[e].view)
  BY Zenon, <1>1 DEF PersistCheckpointFails, EngineInv
<1>3. db' = db
  BY Zenon DEF PersistCheckpointFails
<1>4. PICK sql \in May({"rollback"}), outcome \in May({"refresh", "refreshCommit"}) :
         \/ /\ txn' = [txn EXCEPT ![e] = Undone(txn[e], r, sql)]
            /\ eng' = [eng EXCEPT ![e] = DropAdmin(r, db.tables, sql, outcome)]
         \/ /\ \E written \in {txn[e]} \cup Partial :
                  txn' = [txn EXCEPT ![e] = Undone(written, r, sql)]
            /\ eng' = [eng EXCEPT ![e] = DropAdmin(v, db.tables, sql, outcome)]
  BY Zenon DEF PersistCheckpointFails
<1>5. sql = "ok" /\ outcome \in {"ok", "refresh", "refreshCommit"}
  BY Zenon, Outcomes
<1>6. CASE /\ txn' = [txn EXCEPT ![e] = Undone(txn[e], r, sql)]
           /\ eng' = [eng EXCEPT ![e] = DropAdmin(r, db.tables, sql, outcome)]
  <2> DEFINE t == Undone(txn[e], r, sql)
  <2>1. t = IF r.automatic THEN NoTransaction ELSE txn[e]
    BY Zenon, <1>5 DEF Undone
  <2> HIDE DEF t
  <2>2. EngineInv(DropAdmin(r, db.tables, sql, outcome), t, db)
    <3>1. CASE r.automatic
      BY Zenon, <1>1, <1>2, <1>5, <2>1, <3>1, DropAdminConsistent
    <3>2. CASE ~r.automatic
      BY Zenon, <1>1, <1>2, <1>5, <2>1, <3>2, DropAdminConsistent
    <3>3. QED
      BY Zenon, <3>1, <3>2
  <2>3. QED
    BY Zenon, <1>1, <1>3, <1>6, <2>1, <2>2, LocalStep DEF t
<1>7. ASSUME NEW written \in {txn[e]} \cup Partial,
             txn' = [txn EXCEPT ![e] = Undone(written, r, sql)],
             eng' = [eng EXCEPT ![e] = DropAdmin(v, db.tables, sql, outcome)]
      PROVE  Inv'
  <2>1. /\ TransactionInv(written, db)
        /\ written.state => txn[e].state \/ \A f \in Engines \ {e} : ~txn[f].state
    <3>1. CASE written = txn[e]
      BY Zenon, <1>1, <3>1
    <3>2. CASE written \in Partial
      <4>1. ~StateConflict(db, txn, e)
        BY Zenon, <3>2
      <4>2. /\ ~(db.stateAt > txn[e].start)
            /\ \A f \in Engines \ {e} : ~txn[f].state
        BY Zenon, <4>1, NoStateConflict
      <4>3. PICK g \in Graphs : \/ written = AdvanceRevision(txn[e])
                                \/ written = ReplacePayload(txn[e], g)
        <5>1. EmptyGraph \in Graphs
          BY Zenon DEF EmptyGraph, Graphs
        <5>2. QED
          BY Zenon, <1>1, <3>2, <4>1, <5>1, IncomingType
      <4> HIDE DEF r, v, Partial
      <4>4. /\ TransactionInv(AdvanceRevision(txn[e]), db)
            /\ TransactionInv(ReplacePayload(txn[e], g), db)
        BY Zenon, <1>1, <1>2, <4>2, WriteCheckpointConsistent
      <4>5. TransactionInv(written, db)
        BY Zenon, <4>3, <4>4
      <4>6. QED
        BY Zenon, <4>2, <4>5
    <3>3. QED
      BY Zenon, <3>1, <3>2
  <2>2. /\ v \in EngineStates /\ v.open /\ v.in_transaction /\ v.failed_transaction
        /\ v.pending = {} /\ v.automatic = r.automatic
    BY Zenon, <1>1, <1>2, FailFields
  <2> DEFINE t == Undone(written, r, sql)
  <2>3. t = IF r.automatic THEN NoTransaction ELSE written
    BY Zenon, <1>5 DEF Undone
  <2>4. txn' = [txn EXCEPT ![e] = t]
    BY Zenon, <1>7
  <2> HIDE DEF t, v, Partial
  <2>5. EngineInv(DropAdmin(v, db.tables, sql, outcome), t, db)
    <3>1. CASE r.automatic
      BY Zenon, <1>1, <1>5, <2>2, <2>3, <3>1, DropAdminConsistent
    <3>2. CASE ~r.automatic
      BY Zenon, <1>1, <1>5, <2>2, <2>3, <3>2, DropAdminConsistent
    <3>3. QED
      BY Zenon, <3>1, <3>2
  <2>6. QED
    BY Zenon, <1>1, <1>3, <1>7, <2>1, <2>3, <2>4, <2>5, LocalStep
<1>8. QED
  BY Zenon, <1>4, <1>6, <1>7

-----------------------------------------------------------------------------
(* The theorems. *)

\* The invariant holds of a new database that no engine has opened.
LEMMA InitEstablishes == Init => Inv
<1> SUFFICES ASSUME Init PROVE Inv
  BY Zenon
<1>1. DatabaseInv(db)
  BY DEF Init, EmptyDatabase, EmptyTables, EmptyGraph, NoRecords,
         DatabaseInv, Databases, Tables, Graphs
<1>2. TransactionInv(NoTransaction, db) /\ ~NoTransaction.state
  BY Zenon, <1>1, BeginConsistent DEF NoTransaction
<1>3. EngineInv(Closed, NoTransaction, db)
  BY Zenon, ClosedConsistent
<1>4. NoTransaction \in Transactions /\ Closed \in EngineStates
  BY Zenon, <1>2, <1>3 DEF TransactionInv, EngineInv
<1>5. QED
  BY Zenon, <1>1, <1>2, <1>3, <1>4 DEF Init, Inv, OneWriter

\* Every step preserves the invariant.
LEMMA NextPreserves ==
    ASSUME "rollback" \notin Faults, Inv, [Next]_vars
    PROVE  Inv'
<1>1. CASE UNCHANGED vars
  BY Zenon, <1>1 DEF vars, Inv, OneWriter
<1>2. CASE Crash
  BY Zenon, <1>2, CrashPreserves
<1>3. ASSUME NEW e \in Engines, EngineNext(e)
      PROVE  Inv'
  <2>1. CASE Open(e)
    BY Zenon, <2>1, OpenPreserves
  <2>2. CASE Drop(e)
    BY Zenon, <2>2, DropPreserves
  <2>3. CASE Begin(e)
    BY Zenon, <2>3, BeginThenPreserves DEF Begin
  <2>4. CASE Commit(e)
    BY Zenon, <2>4, CommitPreserves
  <2>5. CASE RollbackCall(e)
    BY Zenon, <2>5, RollbackCallPreserves
  <2>6. ASSUME NEW stage \in {"exec", "checkpoint", "replace"}, Start(e, stage)
        PROVE  Inv'
    BY Zenon, <2>6, StartPreserves
  <2>7. ASSUME NEW k \in Keys, Mutate(e, k)
        PROVE  Inv'
    BY Zenon, <2>7, MutatePreserves
  <2>8. CASE AbortStatement(e)
    BY Zenon, <2>8, AbortStatementPreserves
  <2>9. CASE Persist(e)
    BY Zenon, <2>9, PersistPreserves
  <2>10. CASE PersistFails(e)
    BY Zenon, <2>10, PersistFailsPreserves
  <2>11. CASE CommitStatement(e)
    BY Zenon, <2>11, CommitStatementPreserves
  <2>12. CASE PersistCheckpoint(e)
    BY Zenon, <2>12, PersistCheckpointPreserves
  <2>13. CASE PersistCheckpointFails(e)
    BY Zenon, <2>13, PersistCheckpointFailsPreserves
  <2>14. CASE FinishAutomatic(e)
    BY Zenon, <2>14, FinishAutomaticPreserves
  <2>15. CASE Read(e)
    BY Zenon, <2>15, ReadPreserves
  <2>16. CASE CypherStateSnapshot(e)
    BY Zenon, <2>16, CypherStateSnapshotPreserves
  <2>17. QED
    BY Zenon, <1>3, <2>1, <2>2, <2>3, <2>4, <2>5, <2>6, <2>7, <2>8, <2>9, <2>10, <2>11,
       <2>12, <2>13, <2>14, <2>15, <2>16 DEF EngineNext
<1>4. QED
  BY Zenon, <1>1, <1>2, <1>3 DEF Next

\* The inductive invariant holds throughout, for every number of engines.
THEOREM Invariance ==
    ASSUME "rollback" \notin Faults
    PROVE  Spec => []Inv
<1>1. Init => Inv
  BY Zenon, InitEstablishes
<1>2. Inv /\ [Next]_vars => Inv'
  BY Zenon, NextPreserves
<1>3. QED
  BY <1>1, <1>2, PTL DEF Spec

\* Every variable keeps its type.
THEOREM TypeCorrect ==
    ASSUME "rollback" \notin Faults
    PROVE  Spec => []TypeOK
<1>1. Inv => TypeOK
  BY Zenon DEF Inv, TypeOK, DatabaseInv
<1>2. QED
  BY <1>1, Invariance, PTL

\* Comparing revisions is enough for refresh_snapshot to keep its cache.
THEOREM CacheHitsAreSound ==
    ASSUME "rollback" \notin Faults
    PROVE  Spec => []CacheHitIsSound
<1>1. Inv => CacheHitIsSound
  <2> SUFFICES ASSUME Inv, NEW e \in Engines, Idle(e), ~eng[e].failed_transaction,
                      eng[e].loaded_revision = Visible(e).revision
               PROVE  eng[e].graph = LoadGraph(Visible(e)) /\ eng[e].pending = {}
    BY Zenon DEF CacheHitIsSound
  <2>1. DatabaseInv(db) /\ EngineInv(eng[e], txn[e], db)
    BY Zenon, InvAt
  <2>2. CASE eng[e].in_transaction
    BY Zenon, <2>1, <2>2 DEF EngineInv, Visible, Idle
  <2>3. CASE ~eng[e].in_transaction
    <3>1. Visible(e) = db.tables /\ db.tables.revision \in Nat
      BY Zenon, <2>1, <2>3 DEF Visible, EngineInv, DatabaseInv, Databases, Tables
    <3>2. QED
      BY Zenon, <2>1, <2>3, <3>1, NoneAssumption DEF EngineInv, Idle
  <2>4. QED
    BY Zenon, <2>2, <2>3
<1>2. QED
  BY <1>1, Invariance, PTL

\* A write starts from the graph of the transaction it is persisted in.
THEOREM WritesStartFromSnapshots ==
    ASSUME "rollback" \notin Faults
    PROVE  Spec => []WritesStartFromTheirSnapshot
<1>1. Inv => WritesStartFromTheirSnapshot
  BY Zenon, InvAt DEF WritesStartFromTheirSnapshot, EngineInv
<1>2. QED
  BY <1>1, Invariance, PTL

\* Inside a usable transaction the cache is the transaction's own graph.
THEOREM TransactionsReadTheirOwnWrites ==
    ASSUME "rollback" \notin Faults
    PROVE  Spec => []TransactionReadsItsOwnWrites
<1>1. Inv => TransactionReadsItsOwnWrites
  BY Zenon, InvAt DEF TransactionReadsItsOwnWrites, EngineInv, Idle
<1>2. QED
  BY <1>1, Invariance, PTL

\* Only a commit changes the committed tables.
LEMMA OnlyCommitsChangeTables ==
    ASSUME NEW e \in Engines, EngineNext(e)
    PROVE  db' = db \/ db' = CommitTransaction(db, txn[e])
BY Zenon DEF EngineNext, Open, Drop, Begin, BeginThen, Commit, RollbackCall, Start, Mutate,
       AbortStatement, Persist, PersistFails, CommitStatement, PersistCheckpoint,
       PersistCheckpointFails, FinishAutomatic, Read, CypherStateSnapshot

\* No commit changes the stored graph without a larger revision.
THEOREM GraphChangesHaveNewRevisions ==
    ASSUME "rollback" \notin Faults
    PROVE  Spec => EveryGraphChangeHasANewRevision
<1> DEFINE A == LoadGraph(db'.tables) # LoadGraph(db.tables)
                    => db'.tables.revision > db.tables.revision
<1>1. Inv /\ [Next]_vars => [A]_vars
  <2> SUFFICES ASSUME Inv, Next, db' # db
               PROVE  db'.tables.revision > db.tables.revision
    BY Zenon DEF vars
  <2>1. PICK e \in Engines : EngineNext(e)
    BY Zenon DEF Next, Crash
  <2>2. db' = CommitTransaction(db, txn[e])
    BY Zenon, <2>1, OnlyCommitsChangeTables
  <2>3. DatabaseInv(db) /\ TransactionInv(txn[e], db)
    BY Zenon, InvAt
  <2>4. txn[e].state
    BY Zenon, <2>2, <2>3 DEF CommitTransaction, Wrote, TransactionInv
  <2>5. QED
    BY <2>2, <2>3, <2>4, CommitPublishesView DEF TransactionInv
<1>2. QED
  BY <1>1, Invariance, PTL DEF Spec, EveryGraphChangeHasANewRevision

-----------------------------------------------------------------------------
(* ManagedEngine implements GraphTransactions: every step of an engine is a
   Begin, Write, Commit or Abort of its session, or changes nothing a client
   can see. *)

Nobody == [active |-> FALSE, view |-> EmptyGraph, base |-> 0, dirty |-> FALSE]

\* Steps of one engine that leave the committed tables alone, by what they do
\* to its session.
LEMMA SameSession ==
    ASSUME NEW e \in Engines, NEW r, NEW t, Inv,
           SessionOf(r, t) = SessionOf(eng[e], txn[e]),
           db' = db, txn' = [txn EXCEPT ![e] = t], eng' = [eng EXCEPT ![e] = r]
    PROVE  UNCHANGED Promise!vars
<1>1. \A f \in Engines : SessionOf(eng'[f], txn'[f]) = SessionOf(eng[f], txn[f])
  BY Zenon DEF Inv
<1>2. QED
  BY Zenon, <1>1 DEF Promise!vars

\* An engine that leaves its transaction, or marks it failed, aborts its
\* session.
LEMMA EndedSession ==
    ASSUME NEW e \in Engines, NEW r, NEW t, Inv,
           ~r.in_transaction \/ r.failed_transaction,
           db' = db, txn' = [txn EXCEPT ![e] = t], eng' = [eng EXCEPT ![e] = r]
    PROVE  Promise!Next
<1>1. \A f \in Engines : SessionOf(eng'[f], txn'[f])
                           = IF f \in {e} THEN Nobody ELSE SessionOf(eng[f], txn[f])
  BY Zenon DEF Inv, SessionOf, Nobody
<1>2. Promise!Abort({e})
  BY Zenon, <1>1 DEF Promise!Abort, Promise!NoSession, Nobody, EmptyGraph
<1>3. QED
  BY Zenon, <1>2 DEF Promise!Next

\* An engine that begins a transaction begins a session on the committed
\* graph.
LEMMA BegunSession ==
    ASSUME NEW e \in Engines, NEW r, Inv, ~eng[e].in_transaction,
           r.in_transaction, ~r.failed_transaction,
           db' = db, txn' = [txn EXCEPT ![e] = BeginTransaction(db)],
           eng' = [eng EXCEPT ![e] = r]
    PROVE  Promise!Next
<1>1. SessionOf(r, BeginTransaction(db))
        = [active |-> TRUE, view |-> LoadGraph(db.tables), base |-> db.clock, dirty |-> FALSE]
  BY Zenon DEF SessionOf, BeginTransaction, Wrote
<1>2. ~SessionOf(eng[e], txn[e]).active
  BY Zenon DEF SessionOf
<1>3. [f \in Engines |-> SessionOf(eng'[f], txn'[f])]
        = [[f \in Engines |-> SessionOf(eng[f], txn[f])] EXCEPT ![e] =
             [active |-> TRUE, view |-> LoadGraph(db.tables), base |-> db.clock, dirty |-> FALSE]]
  BY Zenon, <1>1 DEF Inv
<1>4. Promise!Begin(e)
  BY Zenon, <1>2, <1>3 DEF Promise!Begin
<1>5. QED
  BY Zenon, <1>4 DEF Promise!Next

\* A persist in a usable transaction is a write of its session.
LEMMA WrittenSession ==
    ASSUME NEW e \in Engines, NEW r, NEW t, Inv,
           eng[e].in_transaction, ~eng[e].failed_transaction,
           r.in_transaction, ~r.failed_transaction,
           t.start = txn[e].start, t.state,
           \/ LoadGraph(t.view) \in Imports
           \/ \E K \in SUBSET Keys : LoadGraph(t.view) = Promise!Touch(LoadGraph(txn[e].view), K),
           db' = db, txn' = [txn EXCEPT ![e] = t], eng' = [eng EXCEPT ![e] = r]
    PROVE  Promise!Next
<1> DEFINE old == SessionOf(eng[e], txn[e])
           new == SessionOf(r, t)
<1>1. /\ old.active /\ old.view = LoadGraph(txn[e].view) /\ old.base = txn[e].start
  BY Zenon DEF SessionOf
<1>2. new = [active |-> TRUE, view |-> LoadGraph(t.view), base |-> old.base, dirty |-> TRUE]
  <2>1. Wrote(t) = TRUE
    BY Zenon DEF Wrote
  <2>2. QED
    BY Zenon, <1>1, <2>1 DEF SessionOf
<1>3. [f \in Engines |-> SessionOf(eng'[f], txn'[f])]
        = [[f \in Engines |-> SessionOf(eng[f], txn[f])] EXCEPT ![e] = new]
  BY Zenon DEF Inv
<1> DEFINE S == [f \in Engines |-> SessionOf(eng[f], txn[f])]
<1>4. S[e] = old
  BY Zenon
<1>5. LoadGraph(t.view) \in {Promise!Touch(old.view, K) : K \in SUBSET Keys} \cup Imports
  BY Zenon, <1>1
<1> HIDE DEF old, new
<1>6. S[e].active /\ LoadGraph(t.view) \in {Promise!Touch(S[e].view, K) : K \in SUBSET Keys}
                                            \cup Imports
  BY Zenon, <1>1, <1>4, <1>5
<1>7. \E g \in {Promise!Touch(S[e].view, K) : K \in SUBSET Keys} \cup Imports :
         [f \in Engines |-> SessionOf(eng'[f], txn'[f])]
           = [S EXCEPT ![e] = [active |-> TRUE, view |-> g, base |-> S[e].base,
                                dirty |-> TRUE]]
  BY Zenon, <1>2, <1>3, <1>4, <1>6
<1>8. Promise!Write(e)
  BY Zenon, <1>6, <1>7 DEF Promise!Write
<1>9. QED
  BY Zenon, <1>8 DEF Promise!Next

\* A commit of a usable transaction commits its session.
LEMMA CommittedSession ==
    ASSUME NEW e \in Engines, NEW r, Inv,
           eng[e].in_transaction, ~eng[e].failed_transaction, ~r.in_transaction,
           db' = CommitTransaction(db, txn[e]),
           txn' = [txn EXCEPT ![e] = NoTransaction], eng' = [eng EXCEPT ![e] = r]
    PROVE  Promise!Next
<1> DEFINE old == SessionOf(eng[e], txn[e])
<1>1. DatabaseInv(db) /\ TransactionInv(txn[e], db)
  BY Zenon, InvAt
<1>2. /\ old.active /\ old.view = LoadGraph(txn[e].view)
      /\ old.base = txn[e].start /\ old.dirty = Wrote(txn[e])
  BY Zenon DEF SessionOf
<1>3. [f \in Engines |-> SessionOf(eng'[f], txn'[f])]
        = [[f \in Engines |-> SessionOf(eng[f], txn[f])] EXCEPT ![e] = Nobody]
  BY Zenon DEF Inv, SessionOf, Nobody
<1>4. Nobody = Promise!NoSession
  BY Zenon DEF Promise!NoSession, Nobody, EmptyGraph
<1>5. CASE txn[e].state
  <2>1. Wrote(txn[e]) /\ txn[e].start = db.clock
    BY Zenon, <1>1, <1>5 DEF Wrote, TransactionInv
  <2>2. db'.tables = txn[e].view /\ db'.clock = db.clock + 1
    BY Zenon, <1>1, <1>5, CommitPublishesView
  <2>3. Promise!Commit(e)
    BY Zenon, <1>2, <1>3, <1>4, <2>1, <2>2 DEF Promise!Commit
  <2>4. QED
    BY Zenon, <2>3 DEF Promise!Next
<1>6. CASE ~txn[e].state
  <2>1. ~Wrote(txn[e])
    BY Zenon, <1>1, <1>6 DEF Wrote, TransactionInv
  <2>2. db' = db
    BY Zenon, <2>1 DEF CommitTransaction
  <2>3. Promise!Commit(e)
    BY Zenon, <1>2, <1>3, <1>4, <2>1, <2>2 DEF Promise!Commit
  <2>4. QED
    BY Zenon, <2>3 DEF Promise!Next
<1>7. QED
  BY Zenon, <1>5, <1>6

\* Without a SQL transaction there is no session.
LEMMA EndedTransaction ==
    ASSUME NEW e \in Engines, NEW r, Inv, Inv',
           db' = db, txn' = [txn EXCEPT ![e] = NoTransaction], eng' = [eng EXCEPT ![e] = r]
    PROVE  Promise!Next
<1>1. eng'[e] = r /\ txn'[e] = NoTransaction
  BY Zenon DEF Inv
<1>2. EngineInv(r, NoTransaction, db')
  BY Zenon, <1>1 DEF Inv
<1>3. ~r.in_transaction \/ r.failed_transaction
  BY Zenon, <1>2 DEF EngineInv, NoTransaction
<1>4. QED
  BY Zenon, <1>3, EndedSession

-----------------------------------------------------------------------------
(* The actions. *)

\* begin, alone or for an automatic transaction, begins a session or is a
\* stutter.
LEMMA BeginThenSimulates ==
    ASSUME "rollback" \notin Faults, Inv, Inv', NEW e \in Engines,
           NEW stage \in {"idle", "exec", "checkpoint", "replace"}, BeginThen(e, stage)
    PROVE  Promise!Next
<1> DEFINE t == BeginTransaction(db)
           r == [eng[e] EXCEPT !.in_transaction = TRUE, !.failed_transaction = FALSE]
           s == RefreshSnapshot(r, t.view)
           u == IF stage = "idle" THEN s ELSE Enter(s, stage, TRUE)
<1>1. DatabaseInv(db) /\ eng[e] \in EngineStates
  BY Zenon, InvAt
<1>2. ~eng[e].in_transaction /\ db' = db
  BY Zenon DEF BeginThen
<1>3. CASE txn' = [txn EXCEPT ![e] = t] /\ eng' = [eng EXCEPT ![e] = u]
  <2>1. r \in EngineStates /\ r.in_transaction /\ ~r.failed_transaction
    BY Zenon, <1>1 DEF EngineStates
  <2>2. t.view \in Tables
    BY Zenon, <1>1 DEF BeginTransaction, DatabaseInv, Databases
  <2> HIDE DEF t, r
  <2>3. s \in EngineStates /\ s.in_transaction /\ ~s.failed_transaction
    BY <2>1, <2>2, RefreshSnapshotFields
  <2> HIDE DEF s
  <2>4. u.in_transaction /\ ~u.failed_transaction
    <3>1. CASE stage = "idle"
      BY Zenon, <2>3, <3>1
    <3>2. CASE stage # "idle"
      <4>1. stage \in Stages /\ TRUE \in BOOLEAN
        BY Zenon DEF Stages
      <4>2. u = Enter(s, stage, TRUE)
        BY Zenon, <3>2
      <4> HIDE DEF u
      <4>3. u.in_transaction = s.in_transaction /\ u.failed_transaction = s.failed_transaction
        BY Zenon, <2>3, <4>1, <4>2, EnterFields
      <4>4. QED
        BY Zenon, <2>3, <4>3
    <3>3. QED
      BY Zenon, <3>1, <3>2
  <2> HIDE DEF u
  <2>5. QED
    BY Zenon, <1>2, <1>3, <2>4, BegunSession DEF t
<1>4. ASSUME NEW sql \in May({"rollback"}), NEW outcome \in May({"refresh", "refreshCommit"}),
             txn' = [txn EXCEPT ![e] = IF sql = "ok" THEN NoTransaction ELSE t],
             eng' = [eng EXCEPT ![e] = Rollback(r, db.tables, sql, outcome)]
      PROVE  Promise!Next
  <2>1. sql = "ok"
    BY Zenon, Outcomes
  <2>2. QED
    BY Zenon, <1>2, <1>4, <2>1, EndedTransaction
<1>5. QED
  BY Zenon, <1>3, <1>4 DEF BeginThen

\* The start of a statement begins a session or is a stutter.
LEMMA StartSimulates ==
    ASSUME "rollback" \notin Faults, Inv, Inv', NEW e \in Engines,
           NEW stage \in {"exec", "checkpoint", "replace"}, Start(e, stage)
    PROVE  Promise!Next \/ UNCHANGED Promise!vars
<1>1. CASE BeginThen(e, stage)
  BY Zenon, <1>1, BeginThenSimulates
<1>2. CASE /\ UNCHANGED <<db, txn>>
           /\ eng' = [eng EXCEPT ![e] = Enter(eng[e], stage, FALSE)]
  <2> DEFINE u == Enter(eng[e], stage, FALSE)
  <2>1. stage \in Stages /\ FALSE \in BOOLEAN /\ eng[e] \in EngineStates
    BY Zenon, InvAt DEF Stages
  <2>2. /\ u.in_transaction = eng[e].in_transaction
        /\ u.failed_transaction = eng[e].failed_transaction
    BY Zenon, <2>1, EnterFields
  <2> HIDE DEF u
  <2>3. SessionOf(u, txn[e]) = SessionOf(eng[e], txn[e])
    BY Zenon, <2>2 DEF SessionOf
  <2>4. eng' = [eng EXCEPT ![e] = u] /\ db' = db /\ txn' = [txn EXCEPT ![e] = txn[e]]
    BY Zenon, <1>2 DEF u, Inv
  <2>5. QED
    BY Zenon, <2>3, <2>4, SameSession
<1>3. QED
  BY Zenon, <1>1, <1>2 DEF Start

\* Running the statement against the cache is a stutter or aborts the
\* session.
LEMMA MutateSimulates ==
    ASSUME Inv, NEW e \in Engines, NEW j \in Keys, Mutate(e, j)
    PROVE  UNCHANGED Promise!vars
<1> DEFINE u == [eng[e] EXCEPT !.graph = [eng[e].graph EXCEPT ![j] = @ + 1],
                               !.pending = eng[e].pending \cup {j}]
<1>1. eng[e] \in EngineStates
  BY Zenon, InvAt
<1>2. /\ u.in_transaction = eng[e].in_transaction
      /\ u.failed_transaction = eng[e].failed_transaction
  BY Zenon, <1>1 DEF EngineStates
<1>3. eng' = [eng EXCEPT ![e] = u] /\ db' = db /\ txn' = [txn EXCEPT ![e] = txn[e]]
  BY Zenon DEF Mutate, Inv
<1> HIDE DEF u
<1>4. SessionOf(u, txn[e]) = SessionOf(eng[e], txn[e])
  BY Zenon, <1>2 DEF SessionOf
<1>5. QED
  BY Zenon, <1>3, <1>4, SameSession

\* The cleanup of an operation inside the caller's transaction keeps its flags.
LEMMA DropKeepsFlags ==
    ASSUME NEW r \in EngineStates, ~r.automatic, NEW ts, NEW sql, NEW outcome
    PROVE  LET u == DropStatement(r, ts, sql, outcome)
               v == DropAdmin(r, ts, sql, outcome)
           IN
           /\ u.in_transaction = r.in_transaction
           /\ u.failed_transaction = r.failed_transaction
           /\ v.in_transaction = r.in_transaction
           /\ v.failed_transaction = r.failed_transaction
<1> DEFINE restored == [r EXCEPT !.graph = r.before, !.pending = {}]
<1>1. /\ restored \in EngineStates
      /\ restored.in_transaction = r.in_transaction
      /\ restored.failed_transaction = r.failed_transaction
  BY Zenon DEF EngineStates
<1>2. /\ DropStatement(r, ts, sql, outcome) = Leave(restored)
      /\ DropAdmin(r, ts, sql, outcome) = Leave(r)
  BY Zenon DEF DropStatement, DropAdmin
<1> HIDE DEF restored
<1>3. QED
  BY <1>1, <1>2, LeaveFields

\* Giving up a statement aborts the session.
LEMMA AbortStatementSimulates ==
    ASSUME "rollback" \notin Faults, Inv, Inv', NEW e \in Engines, AbortStatement(e)
    PROVE  Promise!Next \/ UNCHANGED Promise!vars
<1>1. PICK sql \in May({"rollback"}), outcome \in May({"refresh", "refreshCommit"}) :
         /\ eng' = [eng EXCEPT ![e] = DropStatement(eng[e], db.tables, sql, outcome)]
         /\ txn' = [txn EXCEPT ![e] = Undone(txn[e], eng[e], sql)]
  BY Zenon DEF AbortStatement
<1>2. sql = "ok" /\ db' = db /\ eng[e] \in EngineStates
  BY Zenon, Outcomes, InvAt DEF AbortStatement
<1>3. CASE eng[e].automatic
  BY Zenon, <1>1, <1>2, <1>3, EndedTransaction DEF Undone
<1>4. CASE ~eng[e].automatic
  <2> DEFINE u == DropStatement(eng[e], db.tables, sql, outcome)
  <2>1. /\ u.in_transaction = eng[e].in_transaction
        /\ u.failed_transaction = eng[e].failed_transaction
    BY <1>2, <1>4, DropKeepsFlags
  <2> HIDE DEF u
  <2>2. SessionOf(u, txn[e]) = SessionOf(eng[e], txn[e])
    BY Zenon, <2>1 DEF SessionOf
  <2>3. eng' = [eng EXCEPT ![e] = u] /\ txn' = [txn EXCEPT ![e] = txn[e]]
    BY Zenon, <1>1, <1>4 DEF u, Undone
  <2>4. QED
    BY Zenon, <1>2, <2>2, <2>3, SameSession
<1>5. QED
  BY Zenon, <1>3, <1>4

\* persist writes to the session.
LEMMA PersistSimulates ==
    ASSUME Inv, NEW e \in Engines, Persist(e)
    PROVE  Promise!Next \/ UNCHANGED Promise!vars
<1> DEFINE r == eng[e]
           L == LoadGraph(txn[e].view)
           w == WriteRecords(txn[e], r.graph, r.pending)
<1>1. /\ DatabaseInv(db) /\ TransactionInv(txn[e], db) /\ EngineInv(r, txn[e], db)
      /\ r \in EngineStates /\ txn[e] \in Transactions
  BY Zenon, InvAt
<1>2. /\ r.in_transaction /\ ~r.failed_transaction /\ txn[e].active
      /\ r.graph = [k \in Keys |-> IF k \in r.pending THEN L[k] + 1 ELSE L[k]]
  BY Zenon, <1>1 DEF Persist, EngineInv
<1>3. db' = db /\ "commitStmt" \in Stages
  BY Zenon DEF Persist, Stages
<1>4. CASE /\ eng' = [eng EXCEPT ![e] = Persisted(r, "commitStmt")]
           /\ txn' = txn
  <2> DEFINE u == Persisted(r, "commitStmt")
  <2>1. /\ u.in_transaction = r.in_transaction
        /\ u.failed_transaction = r.failed_transaction
    BY Zenon, <1>1, <1>3, PersistedFields
  <2> HIDE DEF u
  <2>2. SessionOf(u, txn[e]) = SessionOf(r, txn[e])
    BY Zenon, <2>1 DEF SessionOf
  <2>3. eng' = [eng EXCEPT ![e] = u] /\ txn' = [txn EXCEPT ![e] = txn[e]]
    BY Zenon, <1>4 DEF u, Inv
  <2>4. QED
    BY Zenon, <1>3, <2>2, <2>3, SameSession
<1>5. CASE /\ ~RecordsConflict(e, r.pending)
           /\ txn' = [txn EXCEPT ![e] = w]
           /\ eng' = [eng EXCEPT ![e] = Persisted(Saved(r, w), "commitStmt")]
  <2>1. ~(db.stateAt > txn[e].start)
    BY Zenon, <1>5, NoStateConflict DEF RecordsConflict
  <2>2. r.graph \in Graphs /\ r.pending \in SUBSET Keys
    BY Zenon, <1>1 DEF EngineStates
  <2> HIDE DEF r
  <2>3. /\ TransactionInv(w, db) /\ w.state
        /\ \A k \in Keys : LoadGraph(w.view)[k] = IF k \in r.pending THEN r.graph[k]
                                                  ELSE LoadGraph(txn[e].view)[k]
    <3>1. txn[e].active
      BY Zenon, <1>2
    <3>2. QED
      BY <1>1, <2>1, <2>2, <3>1, WriteRecordsConsistent
  <2>4. w.start = txn[e].start
    <3>1. w.start = db.clock
      BY Zenon, <2>3 DEF TransactionInv
    <3>2. txn[e].start = db.clock
      BY <1>1, <2>1 DEF TransactionInv, DatabaseInv, Databases, Transactions
    <3>3. QED
      BY Zenon, <3>1, <3>2
  <2> HIDE DEF w
  <2>5. LoadGraph(w.view) = Promise!Touch(L, r.pending)
    <3>1. LoadGraph(w.view) = [k \in Keys |-> LoadGraph(w.view)[k]]
      BY Zenon DEF LoadGraph
    <3>2. QED
      BY Zenon, <1>2, <2>3, <3>1 DEF Promise!Touch
  <2> DEFINE v == Saved(r, w)
             u == Persisted(v, "commitStmt")
  <2>6. w \in Transactions
    BY Zenon, <2>3 DEF TransactionInv
  <2>7. /\ v \in EngineStates
        /\ v.in_transaction = r.in_transaction
        /\ v.failed_transaction = r.failed_transaction
    BY Zenon, <1>1, <2>2, <2>6, SavedFields
  <2> HIDE DEF v
  <2>8. /\ u.in_transaction = v.in_transaction
        /\ u.failed_transaction = v.failed_transaction
    BY Zenon, <1>3, <2>7, PersistedFields
  <2> HIDE DEF u
  <2>9. txn' = [txn EXCEPT ![e] = w] /\ eng' = [eng EXCEPT ![e] = u]
    BY Zenon, <1>5 DEF u, v
  <2>10. u.in_transaction /\ ~u.failed_transaction
    BY Zenon, <1>2, <2>7, <2>8
  <2>11. eng[e].in_transaction /\ ~eng[e].failed_transaction
    BY Zenon, <1>2 DEF r
  <2>12. \E K \in SUBSET Keys : LoadGraph(w.view) = Promise!Touch(LoadGraph(txn[e].view), K)
    BY Zenon, <2>2, <2>5
  <2>13. QED
    BY Zenon, <1>3, <2>3, <2>4, <2>9, <2>10, <2>11, <2>12, WrittenSession
<1>6. QED
  BY Zenon, <1>4, <1>5 DEF Persist

\* A failed persist aborts the session.
LEMMA PersistFailsSimulates ==
    ASSUME "rollback" \notin Faults, Inv, Inv', NEW e \in Engines, PersistFails(e)
    PROVE  Promise!Next
<1> DEFINE r == eng[e]
           v == Fail(r)
           Partial == IF StateConflict(db, txn, e) THEN {}
                      ELSE {WriteRecords(txn[e], r.graph, K) : K \in
                               {S \in SUBSET r.pending : ~RecordConflict(db, txn, e, S)}}
<1>1. PICK written \in {txn[e]} \cup Partial,
           sql \in May({"rollback"}), outcome \in May({"refresh", "refreshCommit"}) :
         /\ txn' = [txn EXCEPT ![e] = Undone(written, r, sql)]
         /\ eng' = [eng EXCEPT ![e] = DropStatement(v, db.tables, sql, outcome)]
  BY Zenon DEF PersistFails
<1>2. sql = "ok" /\ db' = db /\ r \in EngineStates
  BY Zenon, Outcomes, InvAt DEF PersistFails
<1>3. v \in EngineStates /\ v.failed_transaction /\ v.automatic = r.automatic
  BY Zenon, <1>2, FailFields
<1>4. CASE r.automatic
  BY Zenon, <1>1, <1>2, <1>4, EndedTransaction DEF Undone
<1>5. CASE ~r.automatic
  <2> DEFINE u == DropStatement(v, db.tables, sql, outcome)
  <2> HIDE DEF v
  <2>1. u.failed_transaction
    BY Zenon, <1>3, <1>5, DropKeepsFlags
  <2>2. eng' = [eng EXCEPT ![e] = u]
    BY Zenon, <1>1
  <2> HIDE DEF u
  <2>3. QED
    BY Zenon, <1>1, <1>2, <2>1, <2>2, EndedSession
<1>6. QED
  BY Zenon, <1>4, <1>5

\* checkpoint is a stutter and replace_graph a write of the session.
LEMMA PersistCheckpointSimulates ==
    ASSUME Inv, Inv', NEW e \in Engines, PersistCheckpoint(e)
    PROVE  Promise!Next
<1> DEFINE r == eng[e]
<1>1. /\ DatabaseInv(db) /\ TransactionInv(txn[e], db) /\ EngineInv(r, txn[e], db)
      /\ r \in EngineStates /\ txn[e] \in Transactions
  BY Zenon, InvAt
<1>2. /\ r.pc \in {"checkpoint", "replace"} /\ r.in_transaction
      /\ ~r.failed_transaction /\ txn[e].active /\ r.graph = LoadGraph(txn[e].view)
  BY Zenon, <1>1 DEF PersistCheckpoint, EngineInv
<1>3. PICK g \in Incoming(r) :
         /\ txn' = [txn EXCEPT ![e] = WriteCheckpoint(txn[e], g)]
         /\ eng' = [eng EXCEPT ![e] =
                      Persisted(Saved([r EXCEPT !.graph = g], WriteCheckpoint(txn[e], g)),
                                "commitAdmin")]
  BY Zenon DEF PersistCheckpoint
<1>4. g \in Graphs /\ db' = db /\ "commitAdmin" \in Stages
  BY Zenon, <1>1, IncomingType DEF PersistCheckpoint, Stages
<1>5. ~(db.stateAt > txn[e].start)
  BY Zenon, NoStateConflict DEF PersistCheckpoint, CheckpointConflict, RecordsConflict
<1> DEFINE w == WriteCheckpoint(txn[e], g)
           i == [r EXCEPT !.graph = g]
           v == Saved(i, w)
           u == Persisted(v, "commitAdmin")
<1>6. TransactionInv(w, db) /\ w.state /\ LoadGraph(w.view) = g
  BY <1>1, <1>2, <1>4, <1>5, WriteCheckpointConsistent
<1>7. w \in Transactions /\ w.start = txn[e].start
  <2>1. w \in Transactions /\ w.start = db.clock
    BY Zenon, <1>6 DEF TransactionInv
  <2>2. txn[e].start = db.clock
    BY <1>1, <1>5 DEF TransactionInv, DatabaseInv, Databases, Transactions
  <2>3. QED
    BY Zenon, <2>1, <2>2
<1>8. \/ LoadGraph(w.view) \in Imports
      \/ \E K \in SUBSET Keys : LoadGraph(w.view) = Promise!Touch(LoadGraph(txn[e].view), K)
  <2>1. CASE r.pc = "replace"
    BY Zenon, <1>6, <2>1 DEF Incoming
  <2>2. CASE r.pc # "replace"
    <3>1. g = LoadGraph(txn[e].view)
      BY Zenon, <1>2, <2>2 DEF Incoming
    <3>2. g = Promise!Touch(g, {})
      BY Zenon, <1>4 DEF Promise!Touch, Graphs
    <3>3. QED
      BY Zenon, <1>6, <3>1, <3>2
  <2>3. QED
    BY Zenon, <2>1, <2>2
<1> HIDE DEF w
<1>9. /\ i \in EngineStates
      /\ i.in_transaction = r.in_transaction /\ i.failed_transaction = r.failed_transaction
  BY <1>1, <1>4, <1>7, SavedFields
<1> HIDE DEF i
<1>10. /\ v \in EngineStates
       /\ v.in_transaction = i.in_transaction /\ v.failed_transaction = i.failed_transaction
  BY Zenon, <1>4, <1>7, <1>9, SavedFields
<1> HIDE DEF v
<1>11. u.in_transaction = v.in_transaction /\ u.failed_transaction = v.failed_transaction
  BY Zenon, <1>4, <1>10, PersistedFields
<1> HIDE DEF u
<1>12. u.in_transaction /\ ~u.failed_transaction
  BY Zenon, <1>2, <1>9, <1>10, <1>11
<1>13. txn' = [txn EXCEPT ![e] = w] /\ eng' = [eng EXCEPT ![e] = u]
  BY Zenon, <1>3 DEF w, i, v, u
<1>14. QED
  BY Zenon, <1>2, <1>4, <1>6, <1>7, <1>8, <1>12, <1>13, WrittenSession

\* A failed checkpoint or replacement aborts the session.
LEMMA PersistCheckpointFailsSimulates ==
    ASSUME "rollback" \notin Faults, Inv, Inv', NEW e \in Engines, PersistCheckpointFails(e)
    PROVE  Promise!Next \/ UNCHANGED Promise!vars
<1> DEFINE r == eng[e]
           v == Fail(r)
<1>1. PICK sql \in May({"rollback"}), outcome \in May({"refresh", "refreshCommit"}) :
         \/ /\ txn' = [txn EXCEPT ![e] = Undone(txn[e], r, sql)]
            /\ eng' = [eng EXCEPT ![e] = DropAdmin(r, db.tables, sql, outcome)]
         \/ /\ \E written : txn' = [txn EXCEPT ![e] = Undone(written, r, sql)]
            /\ eng' = [eng EXCEPT ![e] = DropAdmin(v, db.tables, sql, outcome)]
  BY Zenon DEF PersistCheckpointFails
<1>2. sql = "ok" /\ db' = db /\ r \in EngineStates
  BY Zenon, Outcomes, InvAt DEF PersistCheckpointFails
<1>3. v \in EngineStates /\ v.failed_transaction /\ v.automatic = r.automatic
  BY Zenon, <1>2, FailFields
<1>4. CASE r.automatic
  <2>1. txn' = [txn EXCEPT ![e] = NoTransaction]
    BY Zenon, <1>1, <1>2, <1>4 DEF Undone
  <2>2. QED
    BY Zenon, <1>1, <1>2, <2>1, EndedTransaction
<1>5. CASE ~r.automatic /\ eng' = [eng EXCEPT ![e] = DropAdmin(v, db.tables, sql, outcome)]
                        /\ \E written : txn' = [txn EXCEPT ![e] = Undone(written, r, sql)]
  <2> DEFINE u == DropAdmin(v, db.tables, sql, outcome)
  <2>1. eng' = [eng EXCEPT ![e] = u]
    BY Zenon, <1>5
  <2> HIDE DEF v
  <2>2. u.failed_transaction
    BY Zenon, <1>3, <1>5, DropKeepsFlags
  <2> HIDE DEF u
  <2>3. QED
    BY Zenon, <1>2, <1>5, <2>1, <2>2, EndedSession
<1>6. CASE ~r.automatic /\ eng' = [eng EXCEPT ![e] = DropAdmin(r, db.tables, sql, outcome)]
                        /\ txn' = [txn EXCEPT ![e] = Undone(txn[e], r, sql)]
  <2> DEFINE u == DropAdmin(r, db.tables, sql, outcome)
  <2>1. u.in_transaction = r.in_transaction /\ u.failed_transaction = r.failed_transaction
    BY <1>2, <1>6, DropKeepsFlags
  <2>2. eng' = [eng EXCEPT ![e] = u] /\ txn' = [txn EXCEPT ![e] = txn[e]]
    BY Zenon, <1>6 DEF Undone
  <2> HIDE DEF u
  <2>3. SessionOf(u, txn[e]) = SessionOf(r, txn[e])
    BY Zenon, <2>1 DEF SessionOf
  <2>4. QED
    BY Zenon, <1>2, <2>2, <2>3, SameSession
<1>7. QED
  BY Zenon, <1>1, <1>4, <1>5, <1>6

\* commit commits the session, or aborts it when it fails.
LEMMA CommitSimulates ==
    ASSUME Inv, Inv', NEW e \in Engines,
           Commit(e) \/ CommitStatement(e) \/ FinishAutomatic(e)
    PROVE  Promise!Next
<1>1. PICK r : eng' = [eng EXCEPT ![e] = r]
  <2>1. \E r : eng' = [eng EXCEPT ![e] = r]
    <3>1. ASSUME eng' = [eng EXCEPT ![e].in_transaction = FALSE]
          PROVE  eng' = [eng EXCEPT ![e] = [eng[e] EXCEPT !.in_transaction = FALSE]]
      BY Zenon, <3>1 DEF Inv
    <3>2. QED
      BY Zenon, <3>1 DEF Commit, CommitStatement, FinishAutomatic
  <2>2. QED
    BY Zenon, <2>1
<1>2. txn' = [txn EXCEPT ![e] = NoTransaction]
  BY Zenon DEF Commit, CommitStatement, FinishAutomatic
<1>3. CASE db' = db
  BY Zenon, <1>1, <1>2, <1>3, EndedTransaction
<1>4. CASE db' # db
  <2>1. db' = CommitTransaction(db, txn[e])
    BY Zenon, <1>4 DEF Commit, CommitStatement, FinishAutomatic
  <2>2. eng[e].in_transaction /\ ~eng[e].failed_transaction
    BY Zenon, InvAt DEF Commit, CommitStatement, FinishAutomatic, EngineInv
  <2>3. eng'[e] \in EngineStates /\ eng[e] \in EngineStates /\ eng'[e] = r
    BY Zenon, <1>1 DEF Inv
  <2>4. ~r.in_transaction
    <3> DEFINE o == [eng[e] EXCEPT !.in_transaction = FALSE]
    <3>1. o \in EngineStates /\ ~o.in_transaction
      BY Zenon, <2>3 DEF EngineStates
    <3>2. eng'[e] = o \/ eng'[e] = Leave(o)
      BY Zenon, <1>4 DEF Commit, CommitStatement, FinishAutomatic, Inv
    <3> HIDE DEF o
    <3>3. QED
      BY Zenon, <2>3, <3>1, <3>2, LeaveFields
  <2>5. QED
    BY Zenon, <1>1, <1>2, <2>1, <2>2, <2>4, CommittedSession
<1>5. QED
  BY Zenon, <1>3, <1>4

\* open, drop, rollback and reads abort a session or are stutters.
LEMMA QuietSimulates ==
    ASSUME "rollback" \notin Faults, Inv, Inv', NEW e \in Engines,
           Open(e) \/ Drop(e) \/ RollbackCall(e) \/ Read(e)
    PROVE  Promise!Next
<1>1. CASE Drop(e)
  BY Zenon, <1>1, EndedTransaction DEF Drop
<1>2. CASE RollbackCall(e)
  <2>1. May({"rollback"}) = {"ok"}
    BY Zenon, Outcomes
  <2>2. QED
    BY Zenon, <1>2, <2>1, EndedTransaction DEF RollbackCall
<1>3. CASE Open(e) \/ Read(e)
  <2>1. PICK r : eng' = [eng EXCEPT ![e] = r] /\ db' = db /\ txn' = txn
    BY Zenon, <1>3 DEF Open, Read
  <2>2. ~txn[e].active
    BY Zenon, <1>3, InvAt DEF Open, Read, EngineInv
  <2>3. txn' = [txn EXCEPT ![e] = txn[e]] /\ eng'[e] = r /\ txn'[e] = txn[e]
    BY Zenon, <2>1 DEF Inv
  <2>4. EngineInv(r, txn[e], db')
    BY Zenon, <2>3 DEF Inv
  <2>5. ~r.in_transaction \/ r.failed_transaction
    BY Zenon, <2>2, <2>4 DEF EngineInv
  <2>6. QED
    BY Zenon, <2>1, <2>3, <2>5, EndedSession
<1>4. QED
  BY Zenon, <1>1, <1>2, <1>3

\* A crash aborts every session.
LEMMA CrashSimulates ==
    ASSUME Inv, Crash
    PROVE  Promise!Next
<1>1. \A f \in Engines : SessionOf(eng'[f], txn'[f]) = Nobody
  BY Zenon DEF Crash, Closed, SessionOf, Nobody
<1>2. Promise!Abort(Engines)
  BY Zenon, <1>1 DEF Promise!Abort, Promise!NoSession, Nobody, EmptyGraph, Crash
<1>3. QED
  BY Zenon, <1>2 DEF Promise!Next

\* Every step of the engines is a step of GraphTransactions or a stutter.
LEMMA NextSimulates ==
    ASSUME "rollback" \notin Faults, Inv, Inv', [Next]_vars
    PROVE  [Promise!Next]_Promise!vars
<1>1. CASE UNCHANGED vars
  BY Zenon, <1>1 DEF vars, Promise!vars
<1>2. CASE Crash
  BY Zenon, <1>2, CrashSimulates
<1>3. ASSUME NEW e \in Engines, EngineNext(e)
      PROVE  Promise!Next \/ UNCHANGED Promise!vars
  <2>1. CASE Open(e) \/ Drop(e) \/ RollbackCall(e) \/ Read(e)
    BY Zenon, <2>1, QuietSimulates
  <2>2. CASE Begin(e)
    BY Zenon, <2>2, BeginThenSimulates DEF Begin
  <2>3. CASE Commit(e) \/ CommitStatement(e) \/ FinishAutomatic(e)
    BY Zenon, <2>3, CommitSimulates
  <2>4. ASSUME NEW stage \in {"exec", "checkpoint", "replace"}, Start(e, stage)
        PROVE  Promise!Next \/ UNCHANGED Promise!vars
    BY Zenon, <2>4, StartSimulates
  <2>5. ASSUME NEW k \in Keys, Mutate(e, k)
        PROVE  UNCHANGED Promise!vars
    BY Zenon, <2>5, MutateSimulates
  <2>6. CASE AbortStatement(e)
    BY Zenon, <2>6, AbortStatementSimulates
  <2>7. CASE Persist(e)
    BY Zenon, <2>7, PersistSimulates
  <2>8. CASE PersistFails(e)
    BY Zenon, <2>8, PersistFailsSimulates
  <2>9. CASE PersistCheckpoint(e)
    BY Zenon, <2>9, PersistCheckpointSimulates
  <2>10. CASE PersistCheckpointFails(e)
    BY Zenon, <2>10, PersistCheckpointFailsSimulates
  <2>11. CASE CypherStateSnapshot(e)
    <3>1. UNCHANGED vars
      BY Zenon, <2>11, CypherStateSnapshotPreserves
    <3>2. QED
      BY Zenon, <3>1 DEF vars, Promise!vars
  <2>12. QED
    BY Zenon, <1>3, <2>1, <2>2, <2>3, <2>4, <2>5, <2>6, <2>7, <2>8, <2>9, <2>10, <2>11
       DEF EngineNext
<1>4. QED
  BY Zenon, <1>1, <1>2, <1>3 DEF Next

\* A new database is the initial state of GraphTransactions.
LEMMA InitSimulates == Init => Promise!Init
<1> SUFFICES ASSUME Init PROVE Promise!Init
  BY Zenon
<1>1. LoadGraph(db.tables) = [k \in Keys |-> 0] /\ db.clock = 0
  BY Zenon DEF Init, EmptyDatabase, EmptyTables, EmptyGraph, NoRecords, LoadGraph
<1>2. [e \in Engines |-> SessionOf(eng[e], txn[e])] = [e \in Engines |-> Promise!NoSession]
  BY Zenon DEF Init, Closed, SessionOf, EmptyGraph, Promise!NoSession
<1>3. QED
  BY Zenon, <1>1, <1>2 DEF Promise!Init

\* Statements are atomic, no update is lost and nothing uncommitted or failed
\* becomes durable, for any engines, elements and revisions.
THEOREM Refinement ==
    ASSUME "rollback" \notin Faults
    PROVE  Spec => ImplementsGraphTransactions
<1>1. Init => Promise!Init
  BY Zenon, InitSimulates
<1>2. Inv /\ Inv' /\ [Next]_vars => [Promise!Next]_Promise!vars
  BY Zenon, NextSimulates
<1>3. QED
  BY <1>1, <1>2, Invariance, PTL DEF Spec, Promise!Spec, ImplementsGraphTransactions
=============================================================================
