--------------------------- MODULE ManagedEngine ---------------------------
(***************************************************************************)
(* GraphEngine of src/src/engine.rs over managed storage: several engine   *)
(* instances, each with its own connection to one DuckDB database, its own *)
(* decoded graph cache and at most one transaction.                        *)
(*                                                                         *)
(* eng[e] holds the fields of one engine:                                  *)
(*   graph, pending      the cached graph and its unpersisted elements     *)
(*   loaded_revision     the revision the cache was decoded from           *)
(*   in_transaction, failed_transaction                                    *)
(*   pc                  what the engine's one caller is in the middle of: *)
(*                       exec        a mutation between begin and persist  *)
(*                       commitStmt  a persisted mutation, not committed   *)
(*                       checkpoint, replace  between begin and persist    *)
(*                       commitAdmin a persisted checkpoint or import      *)
(*   before, automatic   the fields of ManagedStatement                    *)
(* A method takes the engine by unique reference, so one engine runs one   *)
(* operation at a time; other engines run between any two SQL writes.      *)
(***************************************************************************)
EXTENDS SnapshotStore

CONSTANTS Engines,      \* engine instances
          Imports,      \* graphs a caller may import
          Faults,       \* which storage calls may fail (see FaultKinds)
          None,         \* loaded_revision = None
          MaxRevision   \* bound: no write is started at this revision

FaultKinds == {"refresh", "refreshCommit", "encode", "persist", "commit", "rollback"}

ASSUME ImportsAssumption == Imports \subseteq Graphs
ASSUME FaultsAssumption == Faults \subseteq FaultKinds
ASSUME NoneAssumption == None \notin Nat
ASSUME MaxRevisionAssumption == MaxRevision \in Nat

VARIABLES db, txn, eng
vars == <<db, txn, eng>>

Stages == {"idle", "exec", "commitStmt", "checkpoint", "replace", "commitAdmin"}
EngineStates == [open : BOOLEAN, graph : Graphs, pending : SUBSET Keys,
                 loaded_revision : Nat \cup {None},
                 in_transaction : BOOLEAN, failed_transaction : BOOLEAN,
                 pc : Stages, before : Graphs, automatic : BOOLEAN]

Closed == [open |-> FALSE, graph |-> EmptyGraph, pending |-> {}, loaded_revision |-> None,
           in_transaction |-> FALSE, failed_transaction |-> FALSE,
           pc |-> "idle", before |-> EmptyGraph, automatic |-> FALSE]

\* Outcomes of a call that fails only by one of the faults f.
May(f) == {"ok"} \cup (Faults \cap f)

-----------------------------------------------------------------------------
(* Private methods, as functions of the engine record. *)

\* decode_graph of the checkpoint, then apply_incremental_records over it.
LoadGraph(t) == [k \in Keys |-> IF t.records[k] = Absent THEN t.payload[k] ELSE t.records[k]]

\* Mutant of RefreshSnapshot: any loaded cache is taken to be current.
RefreshOnce(r, t) ==
    IF r.loaded_revision # None THEN r
    ELSE [r EXCEPT !.graph = LoadGraph(t), !.pending = {}, !.loaded_revision = t.revision]

\* refresh_snapshot: keep the cache when its revision is the visible one.
RefreshSnapshot(r, t) ==
    IF r.loaded_revision = t.revision THEN r
    ELSE [r EXCEPT !.graph = LoadGraph(t), !.pending = {}, !.loaded_revision = t.revision]

\* refresh: outside a transaction it reads in one of its own, whose COMMIT may fail.
Refresh(r, t, outcome) ==
    CASE outcome = "ok"            -> RefreshSnapshot(r, t)
      [] outcome = "refreshCommit" -> [RefreshSnapshot(r, t) EXCEPT !.loaded_revision = None]
      [] outcome = "refresh"       -> r

\* Mutant of Rollback: loaded_revision is not reset.
RollbackKeepingRevision(r, t, sql, outcome) ==
    IF sql # "ok" THEN r
    ELSE Refresh([r EXCEPT !.in_transaction = FALSE, !.failed_transaction = FALSE], t, outcome)

\* rollback: an already aborted SQL transaction counts as rolled back; the
\* cache is invalidated and refreshed from the committed tables.
Rollback(r, t, sql, outcome) ==
    IF sql # "ok" THEN r
    ELSE Refresh([r EXCEPT !.in_transaction = FALSE, !.failed_transaction = FALSE,
                           !.loaded_revision = None], t, outcome)

Enter(r, stage, auto) == [r EXCEPT !.pc = stage, !.automatic = auto, !.before = r.graph]
Leave(r) == [r EXCEPT !.pc = "idle", !.automatic = FALSE, !.before = EmptyGraph]
Fail(r) == [r EXCEPT !.failed_transaction = TRUE]

\* Mutant of DropStatement: the graph of before the statement is not restored.
DropWithoutRestore(r, t, sql, outcome) ==
    LET undone == Rollback(r, t, sql, outcome)
    IN  Leave(IF ~(r.automatic /\ r.in_transaction) THEN [r EXCEPT !.pending = {}]
              ELSE IF sql = "ok" /\ outcome = "ok" THEN undone
              ELSE Fail(undone))

\* Drop of ManagedStatement with before still set.
DropStatement(r, t, sql, outcome) ==
    LET restored == [r EXCEPT !.graph = r.before, !.pending = {}]
        undone   == Rollback(restored, t, sql, outcome)
    IN  Leave(IF ~(r.automatic /\ r.in_transaction) THEN restored
              ELSE IF sql = "ok" /\ outcome = "ok" THEN undone
              ELSE Fail(undone))

\* The error path of checkpoint, replace_graph and finish_automatic.
DropAdmin(r, t, sql, outcome) ==
    Leave(IF r.automatic THEN Rollback(r, t, sql, outcome) ELSE r)

\* The SQL transaction after an automatic operation was rolled back, or not.
Undone(t, r, sql) == IF r.automatic /\ sql = "ok" THEN NoTransaction ELSE t

\* What the engine's connection reads.
Visible(e) == IF txn[e].active THEN txn[e].view ELSE db.tables

-----------------------------------------------------------------------------
Init ==
    /\ db = EmptyDatabase
    /\ txn = [e \in Engines |-> NoTransaction]
    /\ eng = [e \in Engines |-> Closed]

\* from_connection on storage that already has the current format, with its
\* trailing refresh.  An open that fails leaves nothing behind.
Open(e) ==
    /\ ~eng[e].open
    /\ eng' = [eng EXCEPT ![e] = RefreshSnapshot([Closed EXCEPT !.open = TRUE], db.tables)]
    /\ UNCHANGED <<db, txn>>

\* Drop of GraphEngine: an open transaction is rolled back.
Drop(e) ==
    /\ eng[e].open /\ eng[e].pc = "idle"
    /\ eng' = [eng EXCEPT ![e] = Closed]
    /\ txn' = [txn EXCEPT ![e] = NoTransaction]
    /\ UNCHANGED db

\* The process stops: every engine and every SQL transaction is gone.
Crash ==
    /\ eng' = [e \in Engines |-> Closed]
    /\ txn' = [e \in Engines |-> NoTransaction]
    /\ UNCHANGED db

\* begin, then go on to the given stage; a failed refresh rolls back and the
\* result of that rollback is ignored.
BeginThen(e, stage) ==
    LET t == BeginTransaction(db)
        r == [eng[e] EXCEPT !.in_transaction = TRUE, !.failed_transaction = FALSE]
        s == RefreshSnapshot(r, t.view)
    IN  /\ ~eng[e].in_transaction
        /\ \/ /\ txn' = [txn EXCEPT ![e] = t]
              /\ eng' = [eng EXCEPT ![e] = IF stage = "idle" THEN s ELSE Enter(s, stage, TRUE)]
           \/ /\ "refresh" \in Faults
              /\ \E sql \in May({"rollback"}), outcome \in May({"refresh", "refreshCommit"}) :
                    /\ txn' = [txn EXCEPT ![e] = IF sql = "ok" THEN NoTransaction ELSE t]
                    /\ eng' = [eng EXCEPT ![e] = Rollback(r, db.tables, sql, outcome)]
        /\ UNCHANGED db

Idle(e) == eng[e].open /\ eng[e].pc = "idle"

Begin(e) == Idle(e) /\ BeginThen(e, "idle")

\* commit; after a failed COMMIT no SQL transaction is active.
Commit(e) ==
    /\ Idle(e) /\ eng[e].in_transaction /\ ~eng[e].failed_transaction
    /\ \/ /\ db' = CommitTransaction(db, txn[e])
          /\ eng' = [eng EXCEPT ![e].in_transaction = FALSE]
       \/ /\ "commit" \in Faults
          /\ eng' = [eng EXCEPT ![e] = Fail(eng[e])]
          /\ UNCHANGED db
    /\ txn' = [txn EXCEPT ![e] = NoTransaction]

RollbackCall(e) ==
    /\ Idle(e) /\ eng[e].in_transaction
    /\ \E sql \in May({"rollback"}), outcome \in May({"refresh", "refreshCommit"}) :
          /\ eng' = [eng EXCEPT ![e] = Rollback(eng[e], db.tables, sql, outcome)]
          /\ txn' = [txn EXCEPT ![e] = IF sql = "ok" THEN NoTransaction ELSE txn[e]]
    /\ UNCHANGED db

\* A mutation, a checkpoint or an import starts: it joins the open transaction
\* or begins one.  replace_graph begins before it looks at failed_transaction,
\* the others look first.
Start(e, stage) ==
    /\ Idle(e)
    /\ Visible(e).revision < MaxRevision
    /\ eng[e].failed_transaction => stage = "replace" /\ ~eng[e].in_transaction
    /\ \/ /\ eng[e].in_transaction
          /\ eng' = [eng EXCEPT ![e] = Enter(eng[e], stage, FALSE)]
          /\ UNCHANGED <<db, txn>>
       \/ BeginThen(e, stage)

\* execute_dag changes one more element of the cached graph.
Mutate(e, k) ==
    /\ eng[e].pc = "exec" /\ k \notin eng[e].pending
    /\ eng' = [eng EXCEPT ![e].graph[k] = @ + 1, ![e].pending = @ \cup {k}]
    /\ UNCHANGED <<db, txn>>

\* execute_dag fails, its caller drops the future, or incremental_records fails.
AbortStatement(e) ==
    /\ eng[e].pc = "exec"
    /\ \E sql \in May({"rollback"}), outcome \in May({"refresh", "refreshCommit"}) :
          /\ eng' = [eng EXCEPT ![e] = DropStatement(eng[e], db.tables, sql, outcome)]
          /\ txn' = [txn EXCEPT ![e] = Undone(txn[e], eng[e], sql)]
    /\ UNCHANGED db

-----------------------------------------------------------------------------
(* persist and persist_checkpoint_payload, as writes of a SQL transaction. *)

\* Mutant of AdvanceRevision: the row is locked, its revision kept.
LockRevision(t) == [t EXCEPT !.state = TRUE]

AdvanceRevision(t) == [t EXCEPT !.view.revision = @ + 1, !.state = TRUE]

\* The overlay rows of the elements K, with their cached contents.
UpsertRecords(t, g, K) ==
    [t EXCEPT !.view.records = [k \in Keys |-> IF k \in K THEN g[k] ELSE t.view.records[k]],
              !.keys = @ \cup K]

\* Mutant of WriteRecords: records are written without the revision row.
WriteRecordsOnly(t, g, K) == UpsertRecords(t, g, K)

WriteRecords(t, g, K) == UpsertRecords(AdvanceRevision(t), g, K)

DeleteRecords(t) ==
    [t EXCEPT !.keys = @ \cup {k \in Keys : t.view.records[k] # Absent},
              !.view.records = NoRecords]

ReplacePayload(t, g) == [AdvanceRevision(t) EXCEPT !.view.payload = g]

WriteCheckpoint(t, g) == DeleteRecords(ReplacePayload(t, g))

RecordsConflict(e, K) == StateConflict(db, txn, e) \/ RecordConflict(db, txn, e, K)
CheckpointConflict(e) ==
    RecordsConflict(e, {k \in Keys : txn[e].view.records[k] # Absent})

Saved(r, t) == [r EXCEPT !.loaded_revision = t.view.revision, !.pending = {}]

\* A persisted mutation: done in the caller's transaction, else to be committed.
Persisted(r, stage) == IF r.automatic THEN [r EXCEPT !.pc = stage] ELSE Leave(r)

\* persist with nothing pending writes nothing.
Persist(e) ==
    LET r == eng[e]
        t == WriteRecords(txn[e], r.graph, r.pending)
    IN  /\ r.pc = "exec"
        /\ \/ /\ r.pending = {}
              /\ eng' = [eng EXCEPT ![e] = Persisted(r, "commitStmt")]
              /\ UNCHANGED txn
           \/ /\ r.pending # {} /\ ~RecordsConflict(e, r.pending)
              /\ txn' = [txn EXCEPT ![e] = t]
              /\ eng' = [eng EXCEPT ![e] = Persisted(Saved(r, t), "commitStmt")]
        /\ UNCHANGED db

\* persist fails: on the revision row, or after some of its upserts.
PersistFails(e) ==
    LET r == eng[e] IN
    /\ r.pc = "exec" /\ r.pending # {}
    /\ \/ RecordsConflict(e, r.pending)
       \/ "persist" \in Faults
    /\ \E written \in {txn[e]} \cup
                      (IF StateConflict(db, txn, e) THEN {}
                       ELSE {WriteRecords(txn[e], r.graph, K) : K \in
                               {S \in SUBSET r.pending : ~RecordConflict(db, txn, e, S)}}),
          sql \in May({"rollback"}), outcome \in May({"refresh", "refreshCommit"}) :
          /\ txn' = [txn EXCEPT ![e] = Undone(written, r, sql)]
          /\ eng' = [eng EXCEPT ![e] = DropStatement(Fail(r), db.tables, sql, outcome)]
    /\ UNCHANGED db

\* The automatic commit of a mutation.
CommitStatement(e) ==
    LET r == eng[e] IN
    /\ r.pc = "commitStmt"
    /\ \/ /\ db' = CommitTransaction(db, txn[e])
          /\ eng' = [eng EXCEPT ![e] = Leave([r EXCEPT !.in_transaction = FALSE])]
       \/ /\ "commit" \in Faults
          /\ \E sql \in May({"rollback"}), outcome \in May({"refresh", "refreshCommit"}) :
                eng' = [eng EXCEPT ![e] = DropStatement(Fail(r), db.tables, sql, outcome)]
          /\ UNCHANGED db
    /\ txn' = [txn EXCEPT ![e] = NoTransaction]

\* What a checkpoint saves: the cached graph, or the imported one.
Incoming(r) == IF r.pc = "replace" THEN Imports ELSE {r.graph}

\* persist_checkpoint
PersistCheckpoint(e) ==
    LET r == eng[e] IN
    /\ r.pc \in {"checkpoint", "replace"}
    /\ ~CheckpointConflict(e)
    /\ \E g \in Incoming(r) :
          LET t == WriteCheckpoint(txn[e], g) IN
          /\ txn' = [txn EXCEPT ![e] = t]
          /\ eng' = [eng EXCEPT ![e] =
                        Persisted(Saved([r EXCEPT !.graph = g], t), "commitAdmin")]
    /\ UNCHANGED db

\* encode_graph fails before any write and does not fail the transaction; a
\* failed write does.  replace_graph puts the previous graph back.
PersistCheckpointFails(e) ==
    LET r == eng[e] IN
    /\ r.pc \in {"checkpoint", "replace"}
    /\ \E sql \in May({"rollback"}), outcome \in May({"refresh", "refreshCommit"}) :
       \/ /\ "encode" \in Faults
          /\ txn' = [txn EXCEPT ![e] = Undone(txn[e], r, sql)]
          /\ eng' = [eng EXCEPT ![e] = DropAdmin(r, db.tables, sql, outcome)]
       \/ /\ "persist" \in Faults \/ CheckpointConflict(e)
          /\ \E written \in {txn[e]} \cup
                            (IF StateConflict(db, txn, e) THEN {}
                             ELSE {AdvanceRevision(txn[e])} \cup
                                  {ReplacePayload(txn[e], g) : g \in Incoming(r)}) :
                txn' = [txn EXCEPT ![e] = Undone(written, r, sql)]
          /\ eng' = [eng EXCEPT ![e] = DropAdmin(Fail(r), db.tables, sql, outcome)]
    /\ UNCHANGED db

\* finish_automatic
FinishAutomatic(e) ==
    LET r == eng[e] IN
    /\ r.pc = "commitAdmin"
    /\ \/ /\ db' = CommitTransaction(db, txn[e])
          /\ eng' = [eng EXCEPT ![e] = Leave([r EXCEPT !.in_transaction = FALSE])]
       \/ /\ "commit" \in Faults
          /\ \E sql \in May({"rollback"}), outcome \in May({"refresh", "refreshCommit"}) :
                eng' = [eng EXCEPT ![e] = DropAdmin(Fail(r), db.tables, sql, outcome)]
          /\ UNCHANGED db
    /\ txn' = [txn EXCEPT ![e] = NoTransaction]

\* A read query refreshes the cache outside a transaction only.
Read(e) ==
    /\ Idle(e) /\ ~eng[e].failed_transaction /\ ~eng[e].in_transaction
    /\ \E outcome \in May({"refresh", "refreshCommit"}) :
          eng' = [eng EXCEPT ![e] = Refresh(eng[e], db.tables, outcome)]
    /\ UNCHANGED <<db, txn>>

\* cypher_state_snapshot refreshes inside a transaction too.
CypherStateSnapshot(e) ==
    /\ Idle(e) /\ ~eng[e].failed_transaction /\ eng[e].in_transaction
    /\ \E outcome \in May({"refresh"}) :
          eng' = [eng EXCEPT ![e] = Refresh(eng[e], Visible(e), outcome)]
    /\ UNCHANGED <<db, txn>>

EngineNext(e) ==
    \/ Open(e) \/ Drop(e)
    \/ Begin(e) \/ Commit(e) \/ RollbackCall(e)
    \/ \E stage \in {"exec", "checkpoint", "replace"} : Start(e, stage)
    \/ \E k \in Keys : Mutate(e, k)
    \/ AbortStatement(e) \/ Persist(e) \/ PersistFails(e) \/ CommitStatement(e)
    \/ PersistCheckpoint(e) \/ PersistCheckpointFails(e) \/ FinishAutomatic(e)
    \/ Read(e) \/ CypherStateSnapshot(e)

Next == Crash \/ \E e \in Engines : EngineNext(e)

Spec == Init /\ [][Next]_vars
-----------------------------------------------------------------------------
(* Properties. *)

\* Every variable keeps its type.
TypeOK ==
    /\ db \in Databases
    /\ txn \in [Engines -> Transactions]
    /\ eng \in [Engines -> EngineStates]

\* refresh_snapshot keeps its cache whenever the stored revision equals
\* loaded_revision: that comparison is enough, because an engine that may still
\* be used never caches, under a revision, anything but the graph its connection
\* would decode at that revision -- also when another engine has meanwhile
\* committed a revision number that this one wrote and rolled back.
CacheHitIsSound ==
    \A e \in Engines :
        Idle(e) /\ ~eng[e].failed_transaction /\ eng[e].loaded_revision = Visible(e).revision
            => eng[e].graph = LoadGraph(Visible(e)) /\ eng[e].pending = {}

\* "Do not let later writes join a transaction that could not be recovered":
\* a mutation, checkpoint or import only ever starts from the graph of the
\* transaction it will be persisted in.
WritesStartFromTheirSnapshot ==
    \A e \in Engines :
        eng[e].pc \in {"exec", "checkpoint", "replace"}
            => txn[e].active /\ eng[e].before = LoadGraph(txn[e].view)

\* A transaction that is not failed serves reads from the cache alone: the
\* cache is the transaction's own graph, earlier statements included and
\* failed or cancelled ones left out.
TransactionReadsItsOwnWrites ==
    \A e \in Engines :
        Idle(e) /\ eng[e].in_transaction /\ ~eng[e].failed_transaction
            => txn[e].active /\ eng[e].graph = LoadGraph(txn[e].view)

\* An engine whose transaction failed is one its caller can roll back, as every
\* refusal ("transaction failed; roll it back") tells them to.
FailedTransactionCanBeRolledBack ==
    \A e \in Engines : eng[e].failed_transaction => eng[e].in_transaction

\* Readers compare revisions to decide whether the graph changed: no commit
\* changes the stored graph without a new, larger revision.
EveryGraphChangeHasANewRevision ==
    [][LoadGraph(db'.tables) # LoadGraph(db.tables)
           => db'.tables.revision > db.tables.revision]_vars

\* What a client sees of its engine: no session, or the graph of its transaction.
SessionOf(r, t) ==
    IF r.in_transaction /\ ~r.failed_transaction
    THEN [active |-> TRUE, view |-> LoadGraph(t.view), base |-> t.start, dirty |-> Wrote(t)]
    ELSE [active |-> FALSE, view |-> EmptyGraph, base |-> 0, dirty |-> FALSE]

Promise == INSTANCE GraphTransactions WITH
    graph   <- LoadGraph(db.tables),
    version <- db.clock,
    session <- [e \in Engines |-> SessionOf(eng[e], txn[e])]

\* Every statement is atomic, no update is lost and nothing uncommitted or
\* failed becomes durable: the engines implement GraphTransactions.
ImplementsGraphTransactions == Promise!Spec
=============================================================================
