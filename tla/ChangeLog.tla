----------------------------- MODULE ChangeLog -----------------------------
(***************************************************************************)
(* A materialization topic as src/src/streaming uses it (external: Kafka   *)
(* behind the ChangeLog trait, read through rdkafka with read_committed    *)
(* and auto.offset.reset=error).                                           *)
(*                                                                         *)
(*   log[p]      every change ever written to partition p; the change at   *)
(*               offset o is log[p][o + 1]                                 *)
(*   low[p]      the first offset that retention has kept                  *)
(*   aborted     offsets no reader sees: transaction markers and records   *)
(*               of aborted transactions                                   *)
(*   compacted   offsets whose record log compaction removed               *)
(***************************************************************************)
EXTENDS Naturals, Sequences, FiniteSets

CONSTANTS Partitions,
          Entities,      \* (table, key) pairs
          MaxVersion,    \* bound: versions a materializer assigns
          Payloads,      \* contents of a change; a delete is one of them
          MaxLog         \* bound: offsets written to the topic

ASSUME MaxVersionAssumption == MaxVersion \in Nat
ASSUME MaxLogAssumption == MaxLog \in Nat

VARIABLES log, low, aborted, compacted
logVars == <<log, low, aborted, compacted>>

Changes == [key : Entities, version : 1..MaxVersion, data : Payloads]
Offsets == [Partitions -> Nat]
ZeroOffsets == [p \in Partitions |-> 0]

High == [p \in Partitions |-> Len(log[p])]
ChangeAt(p, o) == log[p][o + 1]

\* The changes of committed transactions, and those a reader still finds.
Committed(p) == {o \in 0..(Len(log[p]) - 1) : <<p, o>> \notin aborted}
Readable(p) == {o \in Committed(p) : o >= low[p] /\ <<p, o>> \notin compacted}

Written == UNION {{p} \X DOMAIN log[p] : p \in Partitions}

LogInit ==
    /\ log = [p \in Partitions |-> << >>]
    /\ low = ZeroOffsets
    /\ aborted = {}
    /\ compacted = {}

\* A producer: any change in any order, so that retries, late materializers
\* and two payloads for one version all occur.
Produce(p, c) ==
    /\ Cardinality(Written) < MaxLog
    /\ log' = [log EXCEPT ![p] = Append(@, c)]
    /\ UNCHANGED <<low, aborted, compacted>>

ProduceAborted(p, c) ==
    /\ Cardinality(Written) < MaxLog
    /\ log' = [log EXCEPT ![p] = Append(@, c)]
    /\ aborted' = aborted \cup {<<p, Len(log[p])>>}
    /\ UNCHANGED <<low, compacted>>

\* Compaction removes a record that a later one of the same key supersedes.
Compact(p) ==
    \E o \in Readable(p), later \in Readable(p) :
        /\ o < later /\ ChangeAt(p, o).key = ChangeAt(p, later).key
        /\ compacted' = compacted \cup {<<p, o>>}
        /\ UNCHANGED <<log, low, aborted>>

Retain(p) ==
    /\ low[p] < Len(log[p])
    /\ low' = [low EXCEPT ![p] = @ + 1]
    /\ UNCHANGED <<log, aborted, compacted>>

LogNext ==
    \E p \in Partitions :
        \/ \E c \in Changes : Produce(p, c)
        \/ ProduceAborted(p, CHOOSE c \in Changes : TRUE)
        \/ Compact(p)
        \/ Retain(p)

-----------------------------------------------------------------------------
(* One assigned reader, at the positions pos. *)

Record(p, o) == [partition |-> p, offset |-> o, change |-> ChangeAt(p, o)]
IsRecord(item) == "change" \in DOMAIN item

\* What the stream may yield: the next record of a partition, or, where none is
\* left, a progress over offsets that hold nothing to read (a progress that
\* does not move changes nothing and is left out).  A reader behind the
\* retained offsets yields only an error.
Yields(pos) ==
    UNION {LET ahead == {o \in Readable(p) : o >= pos[p]} IN
           IF pos[p] < low[p] THEN {}
           ELSE IF ahead # {}
           THEN {Record(p, CHOOSE o \in ahead : \A a \in ahead : o <= a)}
           ELSE {[partition |-> p, next_offset |-> o] : o \in (pos[p] + 1)..Len(log[p])}
           : p \in Partitions}

\* The reader's position after an item.
After(pos, item) ==
    [pos EXCEPT ![item.partition] =
        IF IsRecord(item) THEN item.offset + 1 ELSE item.next_offset]
=============================================================================
