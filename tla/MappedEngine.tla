---------------------------- MODULE MappedEngine ----------------------------
(***************************************************************************)
(* The engines over a caller's own tables: GraphEngine::mapped             *)
(* (src/src/engine.rs) and the facade MappedGraphEngine                    *)
(* (src/src/mapped_engine.rs) with cypher_update. Both run a statement     *)
(* through execute_mapped_dag on the caller's connection, in the caller's  *)
(* transaction or in one of the statement's own.                           *)
(*                                                                         *)
(* A statement that writes makes two changes, <<s, 1>> and <<s, 2>>, since *)
(* a graph change is several SQL statements. The future of a call may be   *)
(* dropped where it awaits, and a timeout may cost the session.            *)
(*                                                                         *)
(* tx, tables and written are the session: the transaction, what is        *)
(* committed, what the session sees. inTx and failed are in_transaction    *)
(* and failed_transaction of GraphEngine; of the facade's executor, inTx   *)
(* is transaction_active where the session cannot be asked.                *)
(***************************************************************************)
EXTENDS Naturals

CONSTANTS Statements,
          DropUpdates    \* the future of cypher_update may be dropped

ASSUME DropAssumption == DropUpdates \in BOOLEAN

VARIABLES facade,     \* the engine is MappedGraphEngine, not GraphEngine
          tx, tables, written, inTx, failed,
          lost,       \* the facade's executor has lost its connection
          pc, call,
          began,      \* the caller has begun a transaction and not ended it
          answered,   \* Ok inside the caller's transaction, not committed yet
          promised    \* Ok, and not to be undone any more
mappedVars == <<facade, tx, tables, written, inTx, failed, lost, pc, call, began, answered, promised>>
session == <<tx, tables, written>>

NoCall == [s |-> CHOOSE s \in Statements : TRUE, kind |-> "read", own |-> FALSE, outer |-> FALSE]

MappedInit ==
    /\ facade \in BOOLEAN
    /\ tx \in {"none", "open"} /\ inTx = (tx = "open") /\ began = inTx
    /\ tables = {} /\ written = {} /\ failed = FALSE /\ lost = FALSE
    /\ pc = "idle" /\ call = NoCall /\ answered = {} /\ promised = {}

\* executor.in_transaction: an aborted transaction cannot be asked, and an
\* executor made for one statement takes it to be there.
Joins == IF tx = "aborted" THEN inTx \/ ~facade ELSE tx = "open"
InTransaction == IF facade THEN Joins ELSE inTx
Idle == pc = "idle" /\ ~lost

-----------------------------------------------------------------------------
(* The caller's transaction. *)

Begin ==
    /\ Idle /\ ~InTransaction /\ tx = "none"
    /\ \/ tx' = "open" /\ inTx' = TRUE /\ began' = TRUE /\ failed' = FALSE
       \* refresh fails and begin has rolled back
       \/ ~facade /\ UNCHANGED <<tx, inTx, began>> /\ failed' = FALSE
    /\ answered' = {}
    /\ UNCHANGED <<tables, written, lost, pc, call, promised>>

\* Mutant of Commit: the answer of COMMIT is not looked at.
CommitBlindly ==
    /\ Idle /\ InTransaction /\ ~failed
    /\ tx' = "none" /\ inTx' = FALSE /\ began' = FALSE /\ UNCHANGED failed
    /\ promised' = promised \cup answered /\ answered' = {}
    /\ tables' \in {tables, written} /\ written' = tables'
    /\ UNCHANGED <<lost, pc, call>>

\* A COMMIT that fails has rolled back; GraphEngine waits for rollback().
Commit ==
    /\ Idle /\ InTransaction /\ ~failed
    /\ \/ /\ tx = "open" /\ tx' = "none" /\ tables' = written
          /\ inTx' = FALSE /\ began' = FALSE
          /\ promised' = promised \cup answered /\ answered' = {}
          /\ UNCHANGED <<written, failed>>
       \/ /\ tx = "open" /\ tx' = "none" /\ written' = tables
          /\ failed' = ~facade /\ began' = ~facade /\ answered' = {}
          /\ UNCHANGED <<tables, inTx, promised>>
       \/ /\ tx # "open"
          /\ failed' = ~facade
          /\ UNCHANGED <<session, inTx, began, answered, promised>>
    /\ UNCHANGED <<lost, pc, call>>

\* GraphEngine takes "no transaction is active" for success.
Rollback ==
    /\ Idle /\ InTransaction
    /\ tx' = "none" /\ written' = tables
    /\ inTx' = FALSE /\ began' = FALSE /\ failed' = FALSE /\ answered' = {}
    /\ UNCHANGED <<tables, lost, pc, call, promised>>

-----------------------------------------------------------------------------
(* A statement. *)

Fails == tx' \in IF tx = "open" THEN {"open", "aborted"} ELSE {tx}

\* cypher_state_snapshot: a read in the caller's transaction or its own.
Snapshot ==
    /\ Idle /\ ~facade /\ ~failed
    /\ Fails
    /\ UNCHANGED <<tables, written, inTx, failed, lost, pc, call, began, answered, promised>>

\* Mutant of Start: the transaction is marked once the statement has failed.
StartUnmarked(s, kind) ==
    /\ Idle /\ ~failed /\ (kind = "update" => facade)
    /\ \A k \in 1..2 : <<s, k>> \notin tables \cup written
    /\ call' = [s |-> s, kind |-> kind, own |-> ~Joins, outer |-> FALSE]
    /\ pc' = "run" /\ (Joins \/ tx = "none")
    /\ tx' = IF Joins THEN tx ELSE "open"
    /\ UNCHANGED <<failed, inTx, tables, written, lost, began, answered, promised>>

\* execute_plan and execute_mapped_dag begin: without a transaction of the
\* caller, one of the statement's own. GraphEngine marks the caller's as failed
\* until the statement has succeeded. cypher_update begins before its check,
\* and its two statements find that transaction.
Start(s, kind) ==
    /\ Idle /\ ~failed /\ (kind = "update" => facade)
    /\ \A k \in 1..2 : <<s, k>> \notin tables \cup written
    /\ call' = [s |-> s, kind |-> kind, own |-> ~Joins /\ kind # "update",
                outer |-> ~Joins /\ kind = "update"]
    /\ pc' = IF kind = "update" THEN "check" ELSE "run"
    /\ Joins \/ tx = "none"
    /\ tx' = IF Joins THEN tx ELSE "open"
    /\ inTx' = (inTx \/ facade) /\ failed' = (~facade /\ inTx)
    /\ UNCHANGED <<tables, written, lost, began, answered, promised>>

\* cypher_update: the matches are unique.
Checked ==
    /\ pc = "check" /\ tx = "open"
    /\ pc' = "run"
    /\ UNCHANGED <<session, inTx, failed, lost, call, began, answered, promised>>

\* The plan has run; persist_observed writes without awaiting in between.
Executed ==
    /\ pc = "run" /\ tx = "open"
    /\ pc' = IF call.kind = "read" THEN "ok" ELSE "half"
    /\ written' = IF call.kind = "read" THEN written ELSE written \cup {<<call.s, 1>>}
    /\ UNCHANGED <<tx, tables, inTx, failed, lost, call, began, answered, promised>>
Persisted ==
    /\ pc = "half"
    /\ pc' = "ok" /\ written' = written \cup {<<call.s, 2>>}
    /\ UNCHANGED <<tx, tables, inTx, failed, lost, call, began, answered, promised>>
StatementFails ==
    /\ pc \in {"check", "run", "half"}
    /\ pc' = "error" /\ Fails
    /\ UNCHANGED <<tables, written, inTx, failed, lost, call, began, answered, promised>>

\* The query does not stop after its timeout, and takes the session with it.
\* GraphEngine goes on with the placeholder, another session of the database.
SessionLost ==
    /\ pc \in {"check", "run"}
    /\ tx' = "none" /\ written' = tables
    /\ lost' = facade /\ pc' = "idle" /\ call' = NoCall
    /\ answered' = IF facade THEN {} ELSE answered
    /\ UNCHANGED <<tables, inTx, failed, began, promised>>

Returns == pc' = "idle" /\ call' = NoCall /\ UNCHANGED <<lost, began>>
\* The statement commits what it began, or leaves it to the caller. The
\* executor's flag stays when COMMIT fails.
Succeeds ==
    /\ pc = "ok"
    /\ LET own == call.own \/ call.outer
           writes == IF call.kind = "read" THEN {} ELSE {call.s}
       IN  \/ /\ own /\ tx' = "none" /\ tables' = written /\ UNCHANGED written
              /\ promised' = promised \cup writes /\ UNCHANGED <<answered, failed>>
              /\ inTx' = (inTx /\ ~facade)
           \/ /\ own /\ tx' = "none" /\ written' = tables
              /\ UNCHANGED <<tables, inTx, failed, answered, promised>>
           \/ /\ ~own /\ failed' = FALSE /\ UNCHANGED <<session, inTx>>
              /\ answered' = IF began THEN answered \cup writes ELSE answered
              /\ promised' = IF began THEN promised ELSE promised \cup writes
    /\ Returns

\* The statement has failed, or its future is dropped where it awaits: what the
\* statement began is rolled back by MappedExecutorLease, what cypher_update
\* began only if it gets to its end.
Unfinished ==
    /\ \/ pc = "error"
       \/ pc = "run" /\ (call.kind = "update" => DropUpdates)
       \/ pc = "check" /\ DropUpdates
    /\ LET undo == call.own \/ (call.outer /\ pc = "error")
       IN  /\ tx' = IF undo THEN "none" ELSE tx
           /\ written' = IF undo THEN tables ELSE written
           /\ inTx' = (inTx /\ ~(facade /\ undo))
    /\ UNCHANGED <<tables, failed, answered, promised>>
    /\ Returns

\* Every call on a lost executor is refused.
Refused == pc = "idle" /\ lost /\ UNCHANGED mappedVars

MappedNext ==
    /\ facade' = facade
    /\ \/ Begin \/ Commit \/ Rollback \/ Snapshot \/ Refused
       \/ \E s \in Statements, kind \in {"read", "write", "update"} : Start(s, kind)
       \/ Checked \/ Executed \/ Persisted \/ StatementFails \/ SessionLost \/ Succeeds \/ Unfinished
MappedSpec == MappedInit /\ [][MappedNext]_mappedVars

-----------------------------------------------------------------------------
(* Properties. *)

Changes == Statements \X (1..2)

\* Every variable keeps its type.
MappedTypeOK ==
    /\ tx \in {"none", "open", "aborted"} /\ tables \subseteq Changes /\ written \subseteq Changes
    /\ {facade, inTx, failed, lost, began} \subseteq BOOLEAN /\ answered \subseteq Statements /\ promised \subseteq Statements
    /\ pc \in {"idle", "check", "run", "half", "ok", "error"}

\* "Joins an explicit executor transaction, otherwise commits atomically": what
\* was answered Ok outside a transaction of the caller, or in one whose commit
\* was answered Ok, is in the tables.
AnsweredIsCommitted == \A s \in promised : {s} \X (1..2) \subseteq tables

\* GraphEngine never commits half of a change of the graph, also when the
\* caller goes on to commit after a statement that failed or was dropped
\* (MappedGraphEngine leaves it to the caller to roll back then).
NoHalfCommits ==
    ~facade => \A s \in Statements : <<s, 1>> \in tables <=> <<s, 2>> \in tables

\* No call leaves a transaction behind that the caller did not begin, which the
\* next statement would take for the caller's.
NoTransactionLeftBehind == pc = "idle" /\ ~began => tx = "none"
=============================================================================
