------------------------- MODULE NativeTransactions -------------------------
(***************************************************************************)
(* The transaction state of a native store, Store of jvm_bridge.rs: the    *)
(* graph being written, the graph of the last commit (checkpoint) and the  *)
(* stack of savepoints, each an atomic block with the graph it started     *)
(* from and the mark of a failure inside it. A graph is any value:         *)
(* NativeStore uses rows of elements, OrchidGraph a set of writes.         *)
(*                                                                         *)
(* An operator stands for one request and returns the reply's "ok" and the *)
(* store after it. The runtime values the store keeps beside the graph are *)
(* saved, restored and dropped at the same places as the graph and are     *)
(* part of that value.                                                     *)
(***************************************************************************)
EXTENDS Naturals, Sequences

NewStore(g) == [graph |-> g, checkpoint |-> g, savepoints |-> <<>>,
                next_savepoint |-> 1, closed |-> FALSE]

Done(st) == [ok |-> TRUE, store |-> st]
Refused(st) == [ok |-> FALSE, store |-> st]

InBlock(st) == st.savepoints # <<>>
Innermost(st) == st.savepoints[Len(st.savepoints)]
Enclosing(st) == SubSeq(st.savepoints, 1, Len(st.savepoints) - 1)
Poisoned(st) == InBlock(st) /\ Innermost(st).failed

\* protocol_error: a failure marks the innermost block.
FailedUnmarked(st) == Refused(st)
Failed(st) ==
    Refused(IF InBlock(st)
            THEN [st EXCEPT !.savepoints = Append(Enclosing(st), [Innermost(st) EXCEPT !.failed = TRUE])]
            ELSE st)

\* request: a failed block refuses everything but rollbackTo and close;
\* dispatch then refuses everything on a closed store.
Request(st, result) ==
    IF Poisoned(st) THEN Refused(st)
    ELSE IF st.closed THEN Failed(st)
    ELSE result

\* A mutation that reaches graph g.  Outside a block a failed one restores
\* the graph; inside, what it had written stays until the block rolls back.
Mutate(st, g) == Request(st, Done([st EXCEPT !.graph = g]))
MutationFails(st, g) ==
    Request(st, IF InBlock(st) THEN Failed([st EXCEPT !.graph = g]) ELSE Refused(st))

Read(st) == Request(st, Done(st))
ReadFails(st) == Request(st, Failed(st))
\* read_committed: of the checkpoint, whatever state the writer's block is in.
CommittedRead(st) == IF st.closed THEN Refused(st) ELSE Done(st)

Commit(st) ==
    Request(st, IF InBlock(st) THEN Failed(st)
                ELSE Done([st EXCEPT !.checkpoint = st.graph]))
CommitFails(st) == Request(st, Failed(st))

Rollback(st) ==
    Request(st, IF InBlock(st) THEN Failed(st)
                ELSE Done([st EXCEPT !.graph = st.checkpoint]))

Savepoint(st) ==
    Request(st, Done([st EXCEPT
        !.savepoints = Append(@, [id |-> st.next_savepoint, graph |-> st.graph, failed |-> FALSE]),
        !.next_savepoint = @ + 1]))

IsInnermost(st, id) == InBlock(st) /\ Innermost(st).id = id

RollbackTo(st, id) ==
    IF st.closed \/ ~IsInnermost(st, id) THEN Failed(st)
    ELSE Done([st EXCEPT !.savepoints = Enclosing(st), !.graph = Innermost(st).graph])

Release(st, id) ==
    Request(st, IF IsInnermost(st, id) THEN Done([st EXCEPT !.savepoints = Enclosing(st)])
                ELSE Failed(st))

\* close discards what is pending; empty is the default graph left behind.
Close(st, empty) ==
    IF st.closed THEN Failed(st)
    ELSE Done([st EXCEPT !.graph = st.checkpoint, !.checkpoint = empty,
                         !.savepoints = <<>>, !.closed = TRUE])
=============================================================================
