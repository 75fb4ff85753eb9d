-------------------------- MODULE DuckDbExecutor --------------------------
(***************************************************************************)
(* A DuckDbExecutor (src/src/ir/rel/sql/duckdb_exec.rs) and the DuckDB     *)
(* session it owns.                                                        *)
(*                                                                         *)
(* x holds the executor's fields                                           *)
(*   conn       connection and lost_connection: "none" (None, not lost),   *)
(*              "here", "away" (with the worker of run_query), "lost"      *)
(*   active     transaction_active                                         *)
(*   applied    applied_setup: the block a relation was set up with        *)
(*   scans      scan_tables: the table loaded with a content               *)
(*   views, transient, retired                                             *)
(* and, external to the code, the session                                  *)
(*   tx         "none", "open" or "aborted" by a failed statement          *)
(*   main       the block each relation holds, or Other: none or no block  *)
(*   temp       the temporary objects; by: the kind of query it was made   *)
(*              for, or "caller"                                           *)
(*   saved      main and temp at BEGIN                                     *)
(* pc is where the call on the executor is; worker the thread that runs    *)
(* setup and query. The executor is one &mut value, so calls do not        *)
(* overlap; the worker and the supervising call do. Without a timeout the  *)
(* same steps run on the calling thread, which nobody can tell.            *)
(***************************************************************************)
EXTENDS Naturals, FiniteSets

CONSTANTS Relations, Blocks,   \* set up by the blocks of a query
          Contents,            \* of scanned tables; also the alias of a scan
          Budget,              \* scan tables the cache may keep
          Kinds,               \* of queries: "run", "tables", "stream"
          Timed,               \* a query timeout is set
          HalfBlocks,          \* a block in a caller's transaction may fail half done and not abort it
          MaxOid,
          NoBlock, Other

ASSUME BoundsAssumption == {Budget, MaxOid} \subseteq Nat
ASSUME KindsAssumption == Kinds \subseteq {"run", "tables", "stream"}
ASSUME FlagsAssumption == {Timed, HalfBlocks} \subseteq BOOLEAN
ASSUME ValuesAssumption == NoBlock # Other /\ {NoBlock, Other} \cap Blocks = {}

VARIABLES x, pc, job, worker
vars == <<x, pc, job, worker>>

NoEntry == [name |-> 0, oid |-> 0]
NoJob == [kind |-> "run", setup |-> [r \in Relations |-> NoBlock], tables |-> {}, loads |-> {},
          todo |-> {}, done |-> {}, cache |-> FALSE, ready |-> FALSE]
NoSave == [main |-> [r \in Relations |-> Other], temp |-> {}]
Fresh == [conn |-> "none", active |-> FALSE, applied |-> [r \in Relations |-> NoBlock],
          scans |-> [c \in Contents |-> NoEntry], views |-> {}, transient |-> {}, retired |-> {},
          tx |-> "none", main |-> [r \in Relations |-> Other], temp |-> {},
          saved |-> NoSave]

\* new(), or from_connection in or outside a transaction.
Init ==
    /\ x \in {Fresh} \cup {[Fresh EXCEPT !.conn = "here", !.tx = t, !.active = (t # "none")] :
                               t \in {"none", "open", "aborted"}}
    /\ pc = "idle" /\ job = NoJob /\ worker = "none"

-----------------------------------------------------------------------------
(* The session. *)

Entry(o) == [name |-> o.name, oid |-> o.oid]
Mine(o) == o.by # "caller"
Cached(s) == {s.scans[c] : c \in Contents} \ {NoEntry}
Tracked(s) == Cached(s) \cup s.views \cup s.transient \cup s.retired

Begun(s) == [s EXCEPT !.tx = "open", !.saved = [main |-> s.main, temp |-> s.temp]]
Committed(s) == [s EXCEPT !.tx = "none", !.saved = NoSave]
RolledBack(s) == [s EXCEPT !.tx = "none", !.main = s.saved.main, !.temp = s.saved.temp, !.saved = NoSave]
\* A failed statement aborts the open transaction, or (a catalog or binder
\* error) only fails.
AfterFailure(s) == {s} \cup (IF s.tx = "open" THEN {[s EXCEPT !.tx = "aborted"]} ELSE {})

\* Names and oids nothing refers to any more stand for new ones.
FreshOids(s) ==
    LET used == s.temp \cup s.saved.temp \cup Tracked(s)
    IN  (1..MaxOid) \ ({o.oid : o \in used} \cup {o.name : o \in used})
NextOid(s) == CHOOSE n \in FreshOids(s) : TRUE

-----------------------------------------------------------------------------
(* The executor's helpers. *)

\* detect_transaction fails in an aborted transaction.
InTransaction(s) == IF s.conn = "here" /\ s.tx # "aborted" THEN s.tx = "open" ELSE s.active

\* Mutant of InvalidateSetup: cached scan tables are forgotten, not retired.
ForgetSetup(s) ==
    [s EXCEPT !.applied = [r \in Relations |-> NoBlock], !.scans = [c \in Contents |-> NoEntry]]
InvalidateSetup(s) ==
    [s EXCEPT !.applied = [r \in Relations |-> NoBlock], !.scans = [c \in Contents |-> NoEntry],
              !.retired = @ \cup Cached(s)]

\* Mutant of DropObjects: an object is known by its name.
DropNamed(s, entries) == {o \in s.temp : \A e \in entries : e.name # o.name}
\* drop_scan_object: the catalog's oid is compared first.
DropObjects(s, entries) == {o \in s.temp : Entry(o) \notin entries}

\* Catalog reads, and so the two cleanups, fail in an aborted transaction.
Readable(s) == s.conn = "here" /\ s.tx # "aborted"
ClearQueryScans(s) ==
    IF ~Readable(s) THEN s
    ELSE [s EXCEPT !.temp = DropObjects(s, s.views \cup s.transient), !.views = {}, !.transient = {}]
ClearRetiredScans(s) ==
    IF ~Readable(s) \/ InTransaction(s) THEN s
    ELSE [s EXCEPT !.temp = DropObjects(s, s.retired), !.retired = {}]
ClearFails(s) ==
    /\ s.conn = "here" /\ s.tx = "aborted"
    /\ s.views \cup s.transient # {} \/ (s.retired # {} /\ ~InTransaction(s))

\* The cache is brought down to its budget, in any order; nothing in use goes.
Evicted(s, inUse) ==
    LET old == {c \in Contents \ inUse : s.scans[c] # NoEntry}
        over == Cardinality(Cached(s)) - Budget
        Without(gone) == [s EXCEPT !.temp = DropObjects(s, {s.scans[c] : c \in gone}),
                                   !.scans = [c \in Contents |-> IF c \in gone THEN NoEntry ELSE @[c]]]
    IN  IF ~Readable(s) \/ over <= 0 THEN {s}
        ELSE {Without(gone) : gone \in {g \in SUBSET old :
                  Cardinality(g) = (IF over > Cardinality(old) THEN Cardinality(old) ELSE over)}}

EnsureConnection(s) == IF s.conn = "none" THEN [s EXCEPT !.conn = "here"] ELSE s

\* connection(), after ensure_connection.
Connection(s) ==
    LET i == InvalidateSetup(s)
    IN  IF InTransaction(i) THEN i ELSE ClearRetiredScans(ClearQueryScans(i))
ConnectionFails(s) == LET i == InvalidateSetup(s) IN ~InTransaction(i) /\ ClearFails(i)

-----------------------------------------------------------------------------
(* Calls of the caller. *)

Idle == pc = "idle" /\ EnsureConnection(x).conn = "here"
Here == EnsureConnection(x)
\* connection() refuses; what it invalidated stays so.
Refuses == ConnectionFails(Here) /\ x' = InvalidateSetup(Here)

\* ensure_connection refuses every call on a lost session.
LostCall == pc = "idle" /\ EnsureConnection(x).conn = "lost" /\ UNCHANGED vars

\* BEGIN fails where the flag does not know of the transaction.
Begin ==
    /\ Idle /\ ~InTransaction(Here)
    /\ \/ Refuses
       \/ /\ ~ConnectionFails(Here)
          /\ LET c == Connection(Here)
             IN  x' = IF c.tx = "none" THEN [Begun(c) EXCEPT !.active = TRUE] ELSE c
    /\ UNCHANGED <<pc, job, worker>>

\* A failed COMMIT of an open transaction has rolled it back; the flag stays.
Commit ==
    /\ Idle /\ InTransaction(Here)
    /\ LET c == Connection(Here) IN
       \/ c.tx = "open"
          /\ x' = ClearRetiredScans(ClearQueryScans([Committed(c) EXCEPT !.active = FALSE]))
       \/ c.tx = "open" /\ x' = RolledBack(c)
       \/ c.tx = "aborted" /\ x' = c
    /\ UNCHANGED <<pc, job, worker>>

Rollback ==
    /\ Idle /\ InTransaction(Here)
    /\ LET r == [RolledBack(Connection(Here)) EXCEPT !.active = FALSE]
       IN  x' = ClearRetiredScans(ClearQueryScans(InvalidateSetup(r)))
    /\ UNCHANGED <<pc, job, worker>>

\* connection() or execute_batch: the caller has the connection.
Borrow(kind) ==
    /\ Idle
    /\ \/ Refuses /\ UNCHANGED pc
       \/ ~ConnectionFails(Here) /\ x' = Connection(Here) /\ pc' = kind
    /\ UNCHANGED <<job, worker>>

\* One statement of the caller: BEGIN, COMMIT, ROLLBACK, a write of a
\* relation, a temporary object under any name, an error.
CallerSql ==
    /\ pc \in {"borrowed", "batch"}
    /\ \/ x.tx = "none" /\ x' = Begun(x)
       \/ x.tx = "open" /\ x' = Committed(x)
       \/ x.tx # "none" /\ x' = RolledBack(x)
       \/ x.tx = "open" /\ x' = [x EXCEPT !.tx = "aborted"]
       \/ /\ x.tx # "aborted"
          /\ \/ \E r \in Relations : x' = [x EXCEPT !.main[r] = Other]
             \/ /\ FreshOids(x) # {}
                /\ \E n \in Contents \cup {o.name : o \in x.temp} :
                     x' = [x EXCEPT !.temp = {o \in @ : o.name # n}
                                             \cup {[name |-> n, oid |-> NextOid(x), by |-> "caller"]}]
             \/ \E o \in x.temp : x' = [x EXCEPT !.temp = @ \ {o}]
    /\ UNCHANGED <<pc, job, worker>>

\* execute_batch looks at the transaction once more.
EndBorrow ==
    /\ pc \in {"borrowed", "batch"}
    /\ x' = IF pc = "batch" /\ x.tx # "aborted" THEN [x EXCEPT !.active = (x.tx = "open")] ELSE x
    /\ pc' = "idle" /\ UNCHANGED <<job, worker>>

-----------------------------------------------------------------------------
(* A query: run, run_with_tables (execute_prepared_arrow), or the setup of *)
(* a stream (prepare_stream_setup).                                        *)

Start(kind, setup, tables) ==
    /\ Idle /\ (kind = "run" => tables = {})
    /\ Cardinality(FreshOids(x)) >= 2 * Cardinality(tables)
    /\ IF kind = "run"
       THEN x' = Here
       ELSE x' = IF kind = "tables" THEN ClearRetiredScans(ClearQueryScans(Here)) ELSE ClearQueryScans(Here)
    /\ IF kind # "run" /\ ClearFails(Here)
       THEN UNCHANGED <<pc, job>>
       ELSE /\ pc' = "load"
            /\ job' = [NoJob EXCEPT !.kind = kind, !.setup = setup, !.tables = tables,
                                    !.loads = tables, !.cache = ~InTransaction(x')]
    /\ UNCHANGED worker

\* load_scan_table, from Arrow or with literal rows: all of it, or nothing
\* that is left behind.
LoadScanTable(s, n) == [s EXCEPT !.temp = @ \cup {[name |-> n, oid |-> n, by |-> job.kind]}]

\* ensure_scan_table: a table for the content, from the cache outside a
\* transaction, and a view under the alias.
LoadTable(c) ==
    /\ pc = "load" /\ c \in job.loads /\ x.tx # "aborted"
    /\ \E m, n \in FreshOids(x) : m # n    \* Start has seen to it
    /\ \A o \in x.temp : o.name # c
    /\ LET hit == job.cache /\ x.scans[c] # NoEntry
           n == NextOid(x)
           t == [name |-> n, oid |-> n]
           made == LoadScanTable(x, n)
           loaded == IF hit THEN x
                     ELSE IF job.cache THEN [made EXCEPT !.scans[c] = t]
                     ELSE [made EXCEPT !.transient = @ \cup {t}]
           v == NextOid(loaded)
       IN  x' = [loaded EXCEPT !.temp = @ \cup {[name |-> c, oid |-> v, by |-> job.kind]},
                               !.views = @ \cup {[name |-> c, oid |-> v]}]
    /\ job' = [job EXCEPT !.loads = @ \ {c}]
    /\ UNCHANGED <<pc, worker>>

\* The call returns: what follows run, which a stream leaves to its end.
\* On a lost connection both are without effect.
Returned(s) ==
    IF job.kind # "tables" THEN {s}
    ELSE IF job.cache THEN Evicted(ClearQueryScans(s), job.tables)
    ELSE {ClearQueryScans(s)}

\* The load of a table, its alias or the registration of the scan fails.
LoadFails ==
    /\ pc = "load" /\ job.loads # {}
    /\ \E f \in AfterFailure(x) :
         x' \in IF job.kind = "stream" THEN {f}
                ELSE IF job.cache THEN Evicted(ClearQueryScans(f), {})
                ELSE {ClearQueryScans(f)}
    /\ pc' = "idle" /\ job' = NoJob /\ UNCHANGED worker

\* A stream without setup needs no worker.
OnlyStreams == job.kind = "stream" /\ \A r \in Relations : job.setup[r] = NoBlock

\* run_query: the blocks that are not applied already go to the worker, with
\* the connection. Every way into a transaction has retired and dropped what was
\* cached, so clear_retired_scans finds nothing to fail on in an aborted one.
RunQuery ==
    /\ pc = "load" /\ job.loads = {} /\ ~OnlyStreams
    /\ x' = [ClearRetiredScans(x) EXCEPT !.conn = "away"]
    /\ job' = [job EXCEPT !.todo = {r \in Relations : job.setup[r] \notin {NoBlock, x.applied[r]}}]
    /\ pc' = "setup" /\ worker' = "setup"
StartStream ==
    /\ pc = "load" /\ job.loads = {} /\ OnlyStreams
    /\ x' = ClearRetiredScans(x) /\ pc' = "stream" /\ UNCHANGED <<job, worker>>

\* execute_setup_block, in a transaction of its own or in the caller's.
RunBlock(r) ==
    /\ worker = "setup" /\ r \in job.todo /\ x.tx # "aborted"
    /\ x' = [x EXCEPT !.main[r] = job.setup[r]]
    /\ job' = [job EXCEPT !.todo = @ \ {r}, !.done = @ \cup {r}]
    /\ UNCHANGED <<pc, worker>>
BlockFails(r) ==
    /\ worker = "setup" /\ r \in job.todo
    /\ \/ x' \in AfterFailure(x)
       \/ HalfBlocks /\ x.tx = "open" /\ x' = [x EXCEPT !.main[r] = Other]
    /\ worker' = "sent" /\ UNCHANGED <<pc, job>>
\* The worker says that setup is done, and executes the query.
SetupDone ==
    /\ worker = "setup" /\ job.todo = {}
    /\ worker' = "query" /\ job' = [job EXCEPT !.ready = TRUE]
    /\ UNCHANGED <<x, pc>>
QueryEnds ==
    /\ worker = "query"
    /\ x' \in IF job.kind = "stream" THEN {x} ELSE AfterFailure(x)
    /\ worker' = "sent" /\ UNCHANGED <<pc, job>>
WorkerPanics ==
    /\ Timed /\ worker \in {"setup", "query"}
    /\ worker' = "dead" /\ UNCHANGED <<x, pc, job>>

\* The connection is back, and what the worker completed is remembered.
Restored(s) ==
    [s EXCEPT !.conn = "here",
              !.applied = [r \in Relations |-> IF r \in job.done THEN job.setup[r] ELSE @[r]]]
\* A stream goes on to read its query, unless its setup has failed.
Ended(s, ok) ==
    /\ worker' = "none"
    /\ \/ job.kind = "stream" /\ ok /\ pc' = "stream" /\ x' = s /\ UNCHANGED job
       \/ ~(job.kind = "stream" /\ ok) /\ pc' = "idle" /\ x' \in Returned(s) /\ job' = NoJob

\* recv_timeout on the two channels: the message, or their end, or the timeout.
SetupSeen == pc = "setup" /\ job.ready /\ pc' = "query" /\ UNCHANGED <<x, job, worker>>
SetupFailed == pc = "setup" /\ ~job.ready /\ worker = "sent" /\ Ended(Restored(x), FALSE)
SetupTimesOut ==
    /\ Timed /\ pc = "setup" /\ worker = "setup"
    /\ pc' = "graceSetup" /\ UNCHANGED <<x, job, worker>>
Answered == pc = "query" /\ worker = "sent" /\ Ended(Restored(x), TRUE)
QueryTimesOut ==
    /\ Timed /\ pc = "query" /\ worker = "query"
    /\ pc' = "graceQuery" /\ UNCHANGED <<x, job, worker>>
\* Mutant of BackInTime: setup that did not finish is remembered as well.
BackAsApplied ==
    /\ worker = "sent" /\ pc \in {"graceSetup", "graceQuery"}
    /\ Ended([x EXCEPT !.conn = "here",
                       !.applied = [r \in Relations |-> IF job.setup[r] # NoBlock THEN job.setup[r] ELSE @[r]]],
             FALSE)
\* Within two seconds of the interrupt.
BackInTime ==
    /\ worker = "sent" /\ pc \in {"graceSetup", "graceQuery"}
    /\ Ended(IF pc = "graceQuery" THEN Restored(x) ELSE InvalidateSetup([x EXCEPT !.conn = "here"]), FALSE)
\* Mutant of GivenUp: the call waits until the worker is done.
NeverGivenUp ==
    /\ pc \in {"graceSetup", "graceQuery"} /\ worker = "dead"
    /\ Ended(InvalidateSetup([x EXCEPT !.conn = "lost"]), FALSE)
GivenUp ==
    /\ pc \in {"graceSetup", "graceQuery"} /\ worker # "sent"
    /\ Ended(InvalidateSetup([x EXCEPT !.conn = "lost"]), FALSE)
Disconnected ==
    /\ pc \in {"setup", "query"} /\ worker = "dead"
    /\ Ended([x EXCEPT !.conn = "lost"], FALSE)

\* prepared() sees that the stream was cancelled meanwhile, and returns.
StreamCancelled ==
    /\ pc = "stream"
    /\ pc' = "idle" /\ job' = NoJob /\ UNCHANGED <<x, worker>>
\* The stream has ended, or failed: finish_stream_setup.
FinishStream ==
    /\ pc = "stream"
    /\ \E f \in AfterFailure(x) :
         LET c == ClearQueryScans(f)
         IN  x' \in IF ~ClearFails(f) /\ ~InTransaction(c) THEN Evicted(c, {}) ELSE {c}
    /\ pc' = "idle" /\ job' = NoJob /\ UNCHANGED worker

-----------------------------------------------------------------------------
Caller ==
    \/ Begin \/ Commit \/ Rollback \/ CallerSql \/ EndBorrow \/ LostCall
    \/ \E kind \in {"borrowed", "batch"} : Borrow(kind)
    \/ \E kind \in Kinds, setup \in [Relations -> Blocks \cup {NoBlock}],
          tables \in SUBSET Contents : Start(kind, setup, tables)
Load == (\E c \in Contents : LoadTable(c)) \/ LoadFails \/ RunQuery \/ StartStream
Worker == (\E r \in Relations : RunBlock(r) \/ BlockFails(r)) \/ SetupDone \/ QueryEnds \/ WorkerPanics
Supervisor ==
    SetupSeen \/ SetupFailed \/ SetupTimesOut \/ Answered \/ QueryTimesOut
    \/ BackInTime \/ GivenUp \/ Disconnected
Next == Caller \/ Load \/ Worker \/ Supervisor \/ StreamCancelled \/ FinishStream

Spec == Init /\ [][Next]_vars

-----------------------------------------------------------------------------
(* Properties. *)

\* Every variable keeps its type.
TypeOK ==
    /\ x.conn \in {"none", "here", "away", "lost"} /\ x.active \in BOOLEAN
    /\ x.tx \in {"none", "open", "aborted"}
    /\ x.main \in [Relations -> Blocks \cup {Other}]
    /\ x.applied \in [Relations -> Blocks \cup {NoBlock}]
    /\ pc \in {"idle", "borrowed", "batch", "load", "setup", "query", "graceSetup", "graceQuery", "stream"}
    /\ worker \in {"none", "setup", "query", "sent", "dead"}
    /\ (x.conn = "away") = (worker # "none")
    /\ job.setup \in [Relations -> Blocks \cup {NoBlock}] /\ job.loads \subseteq job.tables

\* A query that runs finds the relations as its own setup leaves them, and its
\* scans on tables of the executor, whatever timeouts, rollbacks, evictions and
\* statements of the caller came before: no cache entry outlives its object.
QueryReadsItsInputs ==
    worker = "query" \/ pc = "stream" =>
        /\ \A r \in Relations : job.setup[r] \in {NoBlock, x.main[r]}
        /\ \A c \in job.tables :
             /\ \E o \in x.temp : o.name = c /\ Mine(o)
             /\ job.cache => \E o \in x.temp : Entry(o) = x.scans[c] /\ Mine(o)

\* What a query creates in the caller's session the executor can always drop
\* again: the object, also one that a rollback would bring back, is in one of
\* its four lists.  (A stream that fails early leaves its objects, see
\* ScansAreReleased, and in a later transaction of the caller they are
\* forgotten.)
OwnedObjectsAreTracked ==
    x.conn # "lost" =>
        \A o \in x.temp \cup x.saved.temp : o.by = "tables" => Entry(o) \in Tracked(x)

\* Only the caller's own statements and rollbacks remove the caller's temporary
\* objects, also those under a name the executor has used.
CallersObjectsAreKept ==
    [][pc \notin {"borrowed", "batch"} /\ x'.tx = x.tx /\ x'.conn # "lost"
         => {o \in x.temp : ~Mine(o)} \subseteq x'.temp]_vars

\* The supervisor's waits are bounded; nothing is asked of DuckDB.
LiveSpec == Spec /\ WF_vars(Load \/ Supervisor)

\* With a timeout set, a call returns although DuckDB neither finishes nor
\* reacts to the interrupt.
CallReturns == pc \in {"load", "setup", "query", "graceSetup", "graceQuery"} ~> pc \in {"idle", "stream"}

\* The comment on clear_query_scans: aliases and transaction-local tables are
\* released even on query failure (where the session can be read at all).
ScansAreReleased ==
    pc = "idle" /\ x.conn = "here" /\ x.tx # "aborted" =>
        \A o \in x.temp : Entry(o) \notin x.views \cup x.transient

\* The comment in connection(): an aborted transaction leaves the connection
\* available, so that the caller can roll back.
ConnectionAvailableForRollback ==
    pc = "idle" /\ x.conn = "here" /\ x.tx = "aborted" => ~ConnectionFails(x)
=============================================================================
