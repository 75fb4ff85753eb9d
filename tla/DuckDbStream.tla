---------------------------- MODULE DuckDbStream ----------------------------
(***************************************************************************)
(* DuckDbSession::prepared (src/src/ir/rel/sql/duckdb_stream.rs): a worker *)
(* thread per query runs it on the one connection of the session and sends *)
(* its batches through a bounded channel; a consumer reads them or drops   *)
(* the stream; a deadline thread may cancel. cancel() raises a flag, wakes *)
(* the scans that wait for input, and interrupts the connection if the     *)
(* query still has its handle.                                             *)
(*                                                                         *)
(* DuckDB (external): starting a statement clears an interrupt, so one     *)
(* that comes between two statements is lost; a statement that is          *)
(* interrupted fails, or ends before it notices. The result of every query *)
(* is Batches batches. Every input relation has the same name, as with     *)
(* successive queries of one plan.                                         *)
(***************************************************************************)
EXTENDS Naturals, Sequences

CONSTANTS Queries, NoQuery,
          WithInput,    \* the queries that read an Arrow input
          Deadlines,    \* the queries with a deadline
          Batches, Capacity

ASSUME QueriesAssumption == NoQuery \notin Queries /\ Batches \in Nat /\ Capacity \in Nat \ {0}

VARIABLES thread,     \* the worker thread's place
          fine,       \* its result so far: run.and(cleanup)
          owner,      \* who holds the executor's mutex
          statement,  \* the statement on the connection: quiet, running, interrupted
          view,       \* whose temporary view has the input's name
          registry,   \* the queries whose inputs the scan function can find
          cancelFlag, handle,   \* Cancellation
          scan,       \* the input scan: idle, registered, selecting
          woken,      \* notify_waiters came after notified()
          schema, channel, produced,
          consumer, got,
          canceller   \* the calls of cancel: by the consumer, by the deadline thread
sessionVars == <<thread, fine, owner, statement, view, registry, cancelFlag, handle, scan, woken,
                 schema, channel, produced, consumer, got, canceller>>
threads == <<thread, fine, owner, statement, view, registry, scan>>
flow == <<schema, channel, produced, consumer, got>>
signals == <<cancelFlag, handle, woken, canceller>>

SessionInit ==
    /\ thread = [q \in Queries |-> "lock"] /\ fine = [q \in Queries |-> TRUE]
    /\ owner = NoQuery /\ statement = "quiet" /\ view = NoQuery /\ registry = {}
    /\ cancelFlag = [q \in Queries |-> FALSE] /\ handle = [q \in Queries |-> FALSE]
    /\ scan = [q \in Queries |-> "idle"] /\ woken = [q \in Queries |-> FALSE]
    /\ schema = [q \in Queries |-> "none"] /\ channel = [q \in Queries |-> <<>>]
    /\ produced = [q \in Queries |-> 0] /\ got = [q \in Queries |-> 0]
    /\ consumer = [q \in Queries |-> "opening"]
    /\ canceller = [q \in Queries |-> [consumer |-> "no", deadline |-> "no"]]

Moves(q, place) == thread' = [thread EXCEPT ![q] = place]
FailsTo(q, place) == Moves(q, place) /\ fine' = [fine EXCEPT ![q] = FALSE]
\* A statement begins at the place where the worker now stands.
Executes(q, place) == Moves(q, place) /\ statement' = "running"
Gone(q) == consumer[q] = "gone"
\* The receiver is dropped, with what it holds.
Leaves(q) ==
    /\ consumer' = [consumer EXCEPT ![q] = "gone"]
    /\ channel' = [channel EXCEPT ![q] = <<>>] /\ got' = [got EXCEPT ![q] = 0]

-----------------------------------------------------------------------------
(* Cancellation::cancel. *)

Calls(q, who) == canceller' = [canceller EXCEPT ![q][who] = "flag"]
CancelFlag(q, who) ==
    /\ canceller[q][who] = "flag"
    /\ canceller' = [canceller EXCEPT ![q][who] = "notify"]
    /\ cancelFlag' = [cancelFlag EXCEPT ![q] = TRUE]
    /\ UNCHANGED <<threads, flow, handle, woken>>
CancelNotify(q, who) ==
    /\ canceller[q][who] = "notify"
    /\ canceller' = [canceller EXCEPT ![q][who] = "interrupt"]
    /\ woken' = [woken EXCEPT ![q] = @ \/ scan[q] # "idle"]
    /\ UNCHANGED <<threads, flow, handle, cancelFlag>>
\* Under the lock of the handle. Only now does the consumer's receiver go.
CancelInterrupt(q, who) ==
    /\ canceller[q][who] = "interrupt"
    /\ canceller' = [canceller EXCEPT ![q][who] = "done"]
    /\ statement' = IF handle[q] /\ statement = "running" THEN "interrupted" ELSE statement
    /\ IF who = "consumer" THEN Leaves(q) ELSE UNCHANGED <<consumer, channel, got>>
    /\ UNCHANGED <<thread, fine, owner, view, registry, scan, cancelFlag, handle, woken,
                   schema, produced>>

-----------------------------------------------------------------------------
(* The consumer. *)

\* schema_rx.await: an error drops Pending, which cancels.
Opened(q) ==
    /\ consumer[q] = "opening" /\ schema[q] # "none"
    /\ \/ schema[q] = "ok" /\ consumer' = [consumer EXCEPT ![q] = "reading"] /\ UNCHANGED canceller
       \/ schema[q] = "error" /\ consumer' = [consumer EXCEPT ![q] = "failed"] /\ Calls(q, "consumer")
    /\ UNCHANGED <<threads, schema, channel, produced, got, cancelFlag, handle, woken>>
Read(q) ==
    /\ consumer[q] = "reading" /\ channel[q] # <<>>
    /\ channel' = [channel EXCEPT ![q] = Tail(@)]
    /\ got' = [got EXCEPT ![q] = @ + IF Head(channel[q]) = "batch" THEN 1 ELSE 0]
    /\ consumer' = [consumer EXCEPT ![q] = IF Head(channel[q]) = "batch" THEN "reading" ELSE "failed"]
    /\ UNCHANGED <<threads, signals, schema, produced>>
\* The sender is gone with the worker thread.
ReadEnd(q) ==
    /\ consumer[q] = "reading" /\ channel[q] = <<>> /\ thread[q] = "done"
    /\ consumer' = [consumer EXCEPT ![q] = "ended"]
    /\ UNCHANGED <<threads, signals, schema, channel, produced, got>>
\* The future of prepared is dropped, its receivers before Pending; or the
\* stream is dropped, its receiver after cancel().
LeaveStream(q) ==
    /\ consumer[q] \in {"opening", "reading", "ended", "failed"} /\ canceller[q].consumer = "no"
    /\ IF consumer[q] = "opening" THEN Leaves(q) ELSE UNCHANGED <<consumer, channel, got>>
    /\ Calls(q, "consumer")
    /\ UNCHANGED <<threads, cancelFlag, handle, woken, schema, produced>>

-----------------------------------------------------------------------------
(* The worker thread. *)

\* The mutex is taken and the interrupt handle stored; then prepare_stream_setup.
LockExecutor(q) ==
    /\ thread[q] = "lock" /\ owner = NoQuery
    /\ owner' = q /\ handle' = [handle EXCEPT ![q] = TRUE] /\ Executes(q, "setup")
    /\ UNCHANGED <<fine, view, registry, scan, cancelFlag, woken, canceller, flow>>
SetUp(q) ==
    /\ thread[q] = "setup"
    /\ \/ Moves(q, "check") /\ UNCHANGED fine
       \/ FailsTo(q, "leave")
    /\ UNCHANGED <<owner, statement, view, registry, scan, signals, flow>>
\* Cancelled so far: nothing is cleaned up. Otherwise the deadline starts, which
\* may fire until the worker leaves.
Check(q) ==
    /\ thread[q] = "check"
    /\ \/ cancelFlag[q] /\ FailsTo(q, "leave") /\ UNCHANGED <<registry, statement, canceller>>
       \/ /\ ~cancelFlag[q] /\ UNCHANGED fine
          /\ registry' = registry \cup ({q} \cap WithInput)
          /\ Executes(q, IF q \in WithInput THEN "view" ELSE "query")
          /\ canceller' = [canceller EXCEPT ![q].deadline = IF q \in Deadlines THEN "armed" ELSE @]
    /\ UNCHANGED <<owner, view, scan, cancelFlag, handle, woken, flow>>
DeadlineFires(q) ==
    /\ canceller[q].deadline = "armed"
    /\ Calls(q, "deadline")
    /\ UNCHANGED <<threads, flow, cancelFlag, handle, woken>>
\* CREATE TEMP VIEW.
CreateView(q) ==
    /\ thread[q] = "view"
    /\ \/ /\ view = NoQuery
          /\ view' = q /\ Executes(q, "query") /\ UNCHANGED fine
       \/ /\ view # NoQuery \/ statement = "interrupted"
          /\ FailsTo(q, "clear") /\ statement' = "running" /\ UNCHANGED view
    /\ UNCHANGED <<owner, registry, scan, signals, flow>>

Drops(q) == IF view = q THEN "drop" ELSE "clear"
\* The query fails: of itself, by its input, or by an interrupt.
QueryFails(q) ==
    /\ thread[q] \in {"query", "rows"} /\ scan[q] = "idle"
    /\ FailsTo(q, Drops(q)) /\ statement' = "running"
    /\ UNCHANGED <<owner, view, registry, scan, signals, flow>>
\* The query has started; nobody may wait for its schema any more.
PublishSchema(q) ==
    /\ thread[q] = "query" /\ scan[q] = "idle"
    /\ \/ Gone(q) /\ Executes(q, Drops(q)) /\ UNCHANGED schema
       \/ ~Gone(q) /\ schema' = [schema EXCEPT ![q] = "ok"] /\ Moves(q, "rows") /\ UNCHANGED statement
    /\ UNCHANGED <<fine, owner, view, registry, scan, signals, channel, produced, consumer, got>>

\* next_result: a batch, from input if the query has one, or the end.
NextBatch(q) ==
    /\ thread[q] = "rows" /\ q \notin WithInput /\ produced[q] < Batches
    /\ Moves(q, "send")
    /\ UNCHANGED <<fine, owner, statement, view, registry, scan, signals, flow>>
EndOfRows(q) ==
    /\ thread[q] = "rows" /\ scan[q] = "idle" /\ produced[q] = Batches
    /\ Executes(q, Drops(q))
    /\ UNCHANGED <<fine, owner, view, registry, scan, signals, flow>>

\* Mutant of ScanRegister: the flag is read before notified() is created.
ScanLooksFirst(q) ==
    /\ thread[q] = "rows" /\ q \in WithInput /\ produced[q] < Batches /\ scan[q] = "idle"
    /\ ~cancelFlag[q]
    /\ scan' = [scan EXCEPT ![q] = "selecting"] /\ woken' = [woken EXCEPT ![q] = FALSE]
    /\ UNCHANGED <<thread, fine, owner, statement, view, registry, cancelFlag, handle, canceller, flow>>

\* Scan::func. notified() is created, the flag is read, then select! waits.
ScanRegister(q) ==
    /\ thread[q] = "rows" /\ q \in WithInput /\ produced[q] < Batches /\ scan[q] = "idle"
    /\ scan' = [scan EXCEPT ![q] = "registered"] /\ woken' = [woken EXCEPT ![q] = FALSE]
    /\ UNCHANGED <<thread, fine, owner, statement, view, registry, cancelFlag, handle, canceller, flow>>
ScanFails(q) ==
    /\ scan' = [scan EXCEPT ![q] = "idle"] /\ FailsTo(q, Drops(q)) /\ statement' = "running"
ScanLook(q) ==
    /\ scan[q] = "registered"
    /\ \/ cancelFlag[q] /\ ScanFails(q)
       \/ ~cancelFlag[q] /\ scan' = [scan EXCEPT ![q] = "selecting"] /\ UNCHANGED <<thread, fine, statement>>
    /\ UNCHANGED <<owner, view, registry, signals, flow>>
\* Mutant of ScanWoken: a cancelled input looks like the end of the input.
ScanEndsEarly(q) ==
    /\ scan[q] = "selecting" /\ woken[q]
    /\ scan' = [scan EXCEPT ![q] = "idle"] /\ Executes(q, Drops(q)) /\ UNCHANGED fine
    /\ UNCHANGED <<owner, view, registry, signals, flow>>
ScanWoken(q) ==
    /\ scan[q] = "selecting" /\ woken[q]
    /\ ScanFails(q)
    /\ UNCHANGED <<owner, view, registry, signals, flow>>
ScanReads(q) ==
    /\ scan[q] = "selecting"
    /\ scan' = [scan EXCEPT ![q] = "idle"]
    /\ Moves(q, "send")
    /\ UNCHANGED <<fine, owner, statement, view, registry, signals, flow>>

\* blocking_send.
Send(q) ==
    /\ thread[q] = "send"
    /\ \/ Gone(q) /\ Executes(q, Drops(q)) /\ UNCHANGED <<channel, produced>>
       \/ /\ ~Gone(q) /\ Len(channel[q]) < Capacity
          /\ channel' = [channel EXCEPT ![q] = Append(@, "batch")]
          /\ produced' = [produced EXCEPT ![q] = @ + 1]
          /\ Moves(q, "rows") /\ UNCHANGED statement
    /\ UNCHANGED <<fine, owner, view, registry, scan, signals, schema, consumer, got>>

\* DROP VIEW, its error ignored; then finish_stream_setup.
DropView(q) ==
    /\ thread[q] = "drop"
    /\ view' \in {NoQuery} \cup (IF statement = "interrupted" THEN {q} ELSE {})
    /\ Executes(q, "clear")
    /\ UNCHANGED <<fine, owner, registry, scan, signals, flow>>
Clear(q) ==
    /\ thread[q] = "clear"
    /\ \/ Moves(q, "leave") /\ UNCHANGED fine
       \/ FailsTo(q, "leave")
    /\ UNCHANGED <<owner, statement, view, registry, scan, signals, flow>>

\* Mutant of Unarm: WorkerDone outlives the guard of the executor.
UnlockFirst(q) ==
    /\ thread[q] = "leave"
    /\ owner' = NoQuery /\ Moves(q, "unlock")
    /\ canceller' = [canceller EXCEPT ![q].deadline = IF @ = "armed" THEN "no" ELSE @]
    /\ UNCHANGED <<fine, statement, view, registry, scan, cancelFlag, handle, woken, flow>>
\* The guards go in reverse order: Deadline, WorkerDone, the executor's mutex.
Unarm(q) ==
    /\ thread[q] = "leave"
    /\ canceller' = [canceller EXCEPT ![q].deadline = IF @ = "armed" THEN "no" ELSE @]
    /\ handle' = [handle EXCEPT ![q] = FALSE]
    /\ Moves(q, "unlock")
    /\ UNCHANGED <<fine, owner, statement, view, registry, scan, cancelFlag, woken, flow>>
Unlock(q) ==
    /\ thread[q] = "unlock"
    /\ owner' = IF owner = q THEN NoQuery ELSE owner
    /\ handle' = [handle EXCEPT ![q] = FALSE]
    /\ Moves(q, "report")
    /\ UNCHANGED <<fine, statement, view, registry, scan, cancelFlag, woken, canceller, flow>>
\* The registry is cleared; an error goes to whoever still waits; the thread
\* ends, and what it knew is gone.
Report(q) ==
    /\ thread[q] = "report"
    /\ registry' = registry \ {q}
    /\ \/ (fine[q] \/ Gone(q)) /\ UNCHANGED <<schema, channel>>
       \/ /\ ~fine[q] /\ ~Gone(q) /\ schema[q] = "none"
          /\ schema' = [schema EXCEPT ![q] = "error"] /\ UNCHANGED channel
       \/ /\ ~fine[q] /\ ~Gone(q) /\ schema[q] = "ok" /\ Len(channel[q]) < Capacity
          /\ channel' = [channel EXCEPT ![q] = Append(@, "error")] /\ UNCHANGED schema
    /\ Moves(q, "done")
    /\ fine' = [fine EXCEPT ![q] = TRUE] /\ produced' = [produced EXCEPT ![q] = 0]
    /\ woken' = [woken EXCEPT ![q] = FALSE]
    /\ UNCHANGED <<owner, statement, view, scan, cancelFlag, handle, canceller, consumer, got>>

\* Nothing is left to do.
Rest == (\A q \in Queries : thread[q] = "done" /\ Gone(q)) /\ UNCHANGED sessionVars

WorkerStep(q) ==
    \/ LockExecutor(q) \/ SetUp(q) \/ Check(q) \/ CreateView(q) \/ PublishSchema(q) \/ NextBatch(q)
    \/ EndOfRows(q) \/ ScanRegister(q) \/ ScanLook(q) \/ ScanWoken(q)
    \/ Send(q) \/ DropView(q) \/ Clear(q) \/ Unarm(q) \/ Unlock(q) \/ Report(q)
CancelStep(q, who) == CancelFlag(q, who) \/ CancelNotify(q, who) \/ CancelInterrupt(q, who)
SessionNext ==
    \/ \E q \in Queries :
          \/ WorkerStep(q) \/ QueryFails(q) \/ ScanReads(q) \/ DeadlineFires(q)
          \/ Opened(q) \/ Read(q) \/ ReadEnd(q) \/ LeaveStream(q)
          \/ \E who \in {"consumer", "deadline"} : CancelStep(q, who)
    \/ Rest
SessionSpec == SessionInit /\ [][SessionNext]_sessionVars
\* The threads run, and DuckDB ends each statement; inputs and consumers may
\* be silent for ever.  A thread takes finitely many steps, so fairness of all
\* together is fairness of each.
ThreadStep ==
    \E q \in Queries : WorkerStep(q) \/ \E who \in {"consumer", "deadline"} : CancelStep(q, who)
SessionLiveSpec == SessionSpec /\ WF_sessionVars(ThreadStep)

-----------------------------------------------------------------------------
(* Properties. *)

\* Every variable keeps its type, and the channel its bound.
SessionTypeOK ==
    /\ owner \in Queries \cup {NoQuery} /\ view \in Queries \cup {NoQuery}
    /\ statement \in {"quiet", "running", "interrupted"} /\ registry \subseteq WithInput
    /\ \A q \in Queries :
          /\ {fine[q], cancelFlag[q], handle[q], woken[q]} \subseteq BOOLEAN
          /\ schema[q] \in {"none", "ok", "error"} /\ scan[q] \in {"idle", "registered", "selecting"}
          /\ channel[q] \in Seq({"batch", "error"}) /\ Len(channel[q]) <= Capacity
          /\ {produced[q], got[q]} \subseteq 0..Batches

\* A cancellation or a deadline interrupts the query it was meant for: never the
\* next one, which has the connection since.
OnlyCancelledAreInterrupted ==
    [][statement # "interrupted" /\ statement' = "interrupted"
          => owner \in Queries /\ cancelFlag[owner]]_sessionVars

\* A stream that ends without an error has delivered the whole result, also
\* when its input was cancelled by the deadline while it was read.
EndIsComplete == \A q \in Queries : consumer[q] = "ended" => got[q] = Batches

\* A query whose consumer has gone gives the session back, also when its input
\* never delivers another batch.
SessionIsFreed == (\E q \in Queries : owner = q /\ Gone(q)) ~> owner = NoQuery

\* The session remains usable: a free session has no view left of a query, which
\* would make the next query with an input of that name fail.
SessionRemainsUsable == owner = NoQuery => view = NoQuery
=============================================================================
