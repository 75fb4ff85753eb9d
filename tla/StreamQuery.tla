---------------------------- MODULE StreamQuery ----------------------------
(***************************************************************************)
(* Bounded reads of a materialization topic: query and query_hybrid of     *)
(* src/src/streaming/mod.rs.  A hybrid query starts from a published       *)
(* snapshot and reads the log from the snapshot's offsets up to the high   *)
(* watermarks it asked for; a plain query reads the whole log.             *)
(*                                                                         *)
(* q holds the local variables of query_snapshot and where the query is:   *)
(*   idle                                                                  *)
(*   bounds   the watermarks of the partitions are being fetched           *)
(*   start    all are known                                                *)
(*   read     the loop over the log                                        *)
(*   graph    the entities are being authorized                            *)
(*   done, failed                                                          *)
(***************************************************************************)
EXTENDS ChangeLog

CONSTANTS MaxEntities,     \* limits.entities
          MaxRecords,      \* limits.records
          None

ASSUME LimitsAssumption == MaxEntities \in Nat /\ MaxRecords \in Nat
ASSUME NoneAssumption == None \notin Changes /\ None \notin Nat

VARIABLES snapshot,     \* the published Snapshot: next offsets and the changes before them
          q,            \* the query
          pos           \* the position of its reader
queryVars == <<snapshot, q, pos>>
vars == <<logVars, queryVars>>

Empty == [k \in Entities |-> None]
Unknown == [p \in Partitions |-> None]
NoQuery == [pc |-> "idle", state |-> Empty, positions |-> ZeroOffsets,
            low |-> Unknown, high |-> Unknown, records |-> 0]

Held(state) == {k \in Entities : state[k] # None}
Over == q.pc \in {"idle", "done", "failed"}
Failed == [NoQuery EXCEPT !.pc = "failed"]

-----------------------------------------------------------------------------
\* The materializer (external): it has read every committed change before
\* offsets, and keeps the newest version of each entity, deletes included.
Before(offsets) ==
    {ChangeAt(c[1], c[2]) : c \in UNION {{p} \X {o \in Committed(p) : o < offsets[p]} : p \in Partitions}}
Newest(changes, k) ==
    LET mine == {c \in changes : c.key = k} IN
    IF mine = {} THEN None ELSE CHOOSE c \in mine : \A d \in mine : d.version <= c.version
Publish(offsets) ==
    /\ \A p \in Partitions : snapshot.offsets[p] <= offsets[p] /\ offsets[p] <= High[p]
    /\ snapshot' = [offsets |-> offsets,
                    changes |-> [k \in Entities |-> Newest(Before(offsets), k)]]
    /\ UNCHANGED <<logVars, q, pos>>

Init ==
    /\ LogInit
    /\ snapshot = [offsets |-> ZeroOffsets, changes |-> Empty]
    /\ q = NoQuery
    /\ pos = ZeroOffsets

\* query reads from offset 0.
Query ==
    /\ Over
    /\ q' = [NoQuery EXCEPT !.pc = "bounds"]
    /\ UNCHANGED <<logVars, snapshot, pos>>

\* query_hybrid loads the snapshot before it asks for the bounds.
QueryHybrid ==
    /\ Over
    /\ q' = [NoQuery EXCEPT !.pc = "bounds", !.state = snapshot.changes,
                            !.positions = snapshot.offsets]
    /\ UNCHANGED <<logVars, snapshot, pos>>

\* The watermarks of one partition.
FetchWatermarks(p) ==
    LET r == [q EXCEPT !.low[p] = low[p], !.high[p] = High[p]] IN
    /\ q.pc = "bounds" /\ q.high[p] = None
    /\ q' = IF \A s \in Partitions : r.high[s] # None THEN [r EXCEPT !.pc = "start"] ELSE r
    /\ UNCHANGED <<logVars, snapshot, pos>>

ValidOffsets(r) ==
    \A p \in Partitions : r.low[p] <= r.positions[p] /\ r.positions[p] <= r.high[p]
\* Mutant of Complete: one partition is enough.
CompleteSomewhere(r) == \E p \in Partitions : r.positions[p] >= r.high[p]

Complete(r) == \A p \in Partitions : r.positions[p] >= r.high[p]

\* The snapshot's changes are merged, the offsets validated, the reader assigned.
Start ==
    LET entities == Cardinality(Held(q.state)) IN
    /\ q.pc = "start"
    /\ q' = IF entities <= MaxRecords /\ entities <= MaxEntities /\ ValidOffsets(q)
            THEN [q EXCEPT !.pc = IF Complete(q) THEN "graph" ELSE "read"]
            ELSE Failed
    /\ pos' = q.positions
    /\ UNCHANGED <<logVars, snapshot>>

\* merge: whether it refuses the change, and the state it leaves.
Conflicts(state, c) ==
    /\ state[c.key] # None /\ state[c.key].version = c.version /\ state[c.key] # c
Overflows(state, c) == state[c.key] = None /\ Cardinality(Held(state)) >= MaxEntities
Merged(state, c) ==
    IF state[c.key] # None /\ state[c.key].version >= c.version THEN state
    ELSE [state EXCEPT ![c.key] = c]

\* Mutant of Progressed: a gap at the end of a partition is never crossed.
ProgressIgnored(r, item) == r

Progressed(r, item) ==
    [r EXCEPT !.positions[item.partition] = IF @ < item.next_offset THEN item.next_offset ELSE @]
\* Mutant of Beyond: everything the reader yields is merged.
NeverBeyond(r, item) == FALSE

Beyond(r, item) == item.offset >= r.high[item.partition]

TooMany(r) == r.records > MaxRecords

\* One item of the stream, as the loop handles it.
Handled(r, item) ==
    LET at == [r EXCEPT !.positions[item.partition] = item.offset + 1]
        counted == [at EXCEPT !.records = @ + 1]
    IN  CASE ~IsRecord(item) -> Progressed(r, item)
          [] IsRecord(item) /\ item.offset < r.positions[item.partition] -> r
          [] IsRecord(item) /\ item.offset >= r.positions[item.partition] ->
               IF Beyond(r, item) THEN at
               ELSE IF \/ TooMany(counted)
                       \/ Conflicts(r.state, item.change) \/ Overflows(r.state, item.change)
               THEN Failed
               ELSE [counted EXCEPT !.state = Merged(@, item.change)]
Read ==
    /\ q.pc = "read"
    /\ \E item \in Yields(pos) :
          LET r == Handled(q, item) IN
          /\ q' = IF r.pc = "read" /\ Complete(r) THEN [r EXCEPT !.pc = "graph"] ELSE r
          /\ pos' = After(pos, item)
    /\ UNCHANGED <<logVars, snapshot>>

\* The reader's connection starts again from an earlier offset.
Redeliver ==
    /\ q.pc = "read"
    /\ \E p \in Partitions : \E o \in 0..pos[p] :
          /\ o < pos[p]
          /\ pos' = [pos EXCEPT ![p] = o]
    /\ UNCHANGED <<logVars, snapshot, q>>

\* A timeout, or an error of the log, the authorizer or the execution.
Fail ==
    /\ q.pc \in {"bounds", "start", "read", "graph"}
    /\ q' = Failed
    /\ UNCHANGED <<logVars, snapshot, pos>>

\* graph and execute: the query runs over the entities of q.state that the
\* authorizer grants.
Answer ==
    /\ q.pc = "graph"
    /\ q' = [q EXCEPT !.pc = "done"]
    /\ UNCHANGED <<logVars, snapshot, pos>>

Next ==
    \/ LogNext /\ UNCHANGED queryVars
    \/ \E offsets \in [Partitions -> 0..MaxLog] : Publish(offsets)
    \/ Query \/ QueryHybrid
    \/ \E p \in Partitions : FetchWatermarks(p)
    \/ Start \/ Read \/ Redeliver \/ Fail \/ Answer

Spec == Init /\ [][Next]_vars

-----------------------------------------------------------------------------
(* Properties. *)

\* Every variable keeps its type, and a query holds no more than its limits.
TypeOK ==
    /\ log \in [Partitions -> Seq(Changes)] /\ low \in Offsets
    /\ snapshot.offsets \in Offsets /\ snapshot.changes \in [Entities -> Changes \cup {None}]
    /\ pos \in Offsets
    /\ q \in [pc : {"idle", "bounds", "start", "read", "graph", "done", "failed"},
               state : [Entities -> Changes \cup {None}], positions : Offsets,
               low : [Partitions -> Nat \cup {None}], high : [Partitions -> Nat \cup {None}],
               records : 0..MaxRecords]
    /\ q.pc \in {"read", "graph", "done"} => Cardinality(Held(q.state)) <= MaxEntities

Answered == q.pc \in {"graph", "done"}

\* A query sees every committed change before the watermarks it asked for, or a
\* newer version of the entity, however its snapshot, the watermarks of the
\* partitions, the retention and the compaction of the log fall together.  Only
\* compaction may hide a change from it: for a record at or beyond the
\* watermark, or for a late record of an older version.
HiddenByCompaction(p, o) ==
    /\ <<p, o>> \in compacted
    /\ \E later \in Committed(p) :
          /\ o < later /\ ChangeAt(p, later).key = ChangeAt(p, o).key
          /\ later >= q.high[p] \/ ChangeAt(p, later).version < ChangeAt(p, o).version
QueryFindsEveryChange ==
    Answered =>
        \A p \in Partitions : \A o \in Committed(p) :
            o < q.high[p] /\ ~HiddenByCompaction(p, o) =>
                LET c == ChangeAt(p, o) IN
                q.state[c.key] # None /\ q.state[c.key].version >= c.version

\* A query sees nothing else: each entity is a committed change from before the
\* watermarks, never one of an aborted transaction or one produced after them.
QueryInventsNothing ==
    Answered => \A k \in Held(q.state) : q.state[k] \in Before(q.high)

\* The broker answers, in the end without reconnecting; a reader that retention
\* has overtaken gets an error.
Fairness == WF_vars(Read) /\ WF_vars(Fail /\ q.pc = "read" /\ \E p \in Partitions : pos[p] < low[p])
LiveSpec == Spec /\ Fairness /\ <>[][~Redeliver]_vars

\* Progress items carry a bounded read over the offsets that hold no record: it
\* ends without its timeout, even when the last offsets before a watermark were
\* aborted or compacted.
BoundedReadCompletes == q.pc = "read" ~> q.pc # "read"
=============================================================================
