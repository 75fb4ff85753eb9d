----------------------------- MODULE NativeStore -----------------------------
(***************************************************************************)
(* One native store process (Store of jvm_bridge.rs): its transaction,     *)
(* the handles it gives its client, and the snapshot file a commit leaves. *)
(*                                                                         *)
(* A graph is the sequence of its rows: the element of each row, or Gone.  *)
(* A new element takes the row after the last one, and the row count is    *)
(* part of the graph, so restoring an older graph frees rows for reuse.  A *)
(* handle names a row; its generation tells the uses of a row apart.       *)
(***************************************************************************)
EXTENDS NativeTransactions, FiniteSets, Functions

CONSTANTS
    MaxElements,    \* elements ever inserted
    MaxSavepoints,  \* savepoints per session
    MaxDepth,       \* blocks open at once
    MaxSessions,    \* openings of the store
    Gone            \* a row whose element was removed

Elements == 1 .. MaxElements

\* A removed row holds no element.
ASSUME GoneAssumption == MaxElements \in Nat /\ Gone \notin Elements

VARIABLES
    up,             \* the process runs
    st,             \* the transaction state
    disk,           \* the graph of the snapshot file
    persisting,     \* commit has renamed its file and not yet returned
    generations,    \* handle_generations: row |-> generation
    next_generation,
    born,           \* elements inserted so far
    sessions,       \* openings so far
    issued,         \* handles the client was given in this session
    partial         \* elements of statements that failed

vars == <<up, st, disk, persisting, generations, next_generation, born, sessions, issued, partial>>

Live(graph) == {r \in DOMAIN graph : graph[r] # Gone}

Init ==
    /\ up = TRUE
    /\ st = NewStore(<<>>)
    /\ disk = <<>>
    /\ persisting = FALSE
    /\ generations = <<>>
    /\ next_generation = 1
    /\ born = 0
    /\ sessions = 1
    /\ issued = {}
    /\ partial = {}

\* resolve, in the view of the given graph.
Resolves(h, graph) ==
    /\ h.row \in DOMAIN generations
    /\ generations[h.row] = h.generation
    /\ h.row \in Live(graph)

\* handle: a row keeps its generation, or gets the next one.
Number(S, r) == Cardinality({q \in S : q < r})
Generations(rows) ==
    LET new == rows \ DOMAIN generations IN
    [r \in DOMAIN generations \cup new |->
        IF r \in new THEN next_generation + Number(new, r) ELSE generations[r]]
Issue(graph, rows) ==
    /\ generations' = Generations(rows)
    /\ next_generation' = next_generation + Cardinality(rows \ DOMAIN generations)
    /\ issued' = issued \cup
           {[row |-> r, generation |-> Generations(rows)[r], element |-> graph[r]] : r \in rows}

\* prune_handles: forget the rows live in neither view of the new store.
PruneWriterOnly(s) ==
    generations' = [r \in DOMAIN generations \cap Live(s.graph) |-> generations[r]]
PruneNothing(s) == generations' = generations
prune_handles(s) ==
    generations' = [r \in DOMAIN generations \cap (Live(s.graph) \cup Live(s.checkpoint)) |->
                        generations[r]]

Ready == up /\ ~persisting

KeepHandles == UNCHANGED <<generations, next_generation, issued>>
KeepFile == UNCHANGED <<up, disk, persisting, sessions>>

\* addVertex with its reply, which carries the new element's handle.
AddVertex ==
    /\ Ready /\ born < MaxElements
    /\ LET graph == Append(st.graph, born + 1)
           reply == Mutate(st, graph)
       IN /\ reply.ok
          /\ st' = reply.store
          /\ born' = born + 1
          /\ Issue(graph, {Len(graph)})
    /\ KeepFile /\ UNCHANGED partial

\* addVertex whose public id is taken: it fails after the row was inserted.
AddVertexFails ==
    /\ Ready /\ Read(st).ok /\ born < MaxElements
    /\ LET reply == MutationFails(st, Append(st.graph, born + 1))
       IN /\ st' = reply.store
          /\ IF InBlock(st) THEN UNCHANGED generations ELSE prune_handles(reply.store)
    /\ born' = born + 1
    /\ partial' = partial \cup {born + 1}
    /\ KeepFile /\ UNCHANGED <<next_generation, issued>>

\* remove with a handle of the client: it fails when the handle has expired.
RemoveElement(h) ==
    /\ Ready
    /\ LET done == Resolves(h, st.graph)
           reply == IF done THEN Mutate(st, [st.graph EXCEPT ![h.row] = Gone])
                    ELSE MutationFails(st, st.graph)
       IN /\ st' = reply.store
          /\ IF reply.ok \/ InBlock(st) THEN UNCHANGED generations ELSE prune_handles(reply.store)
    /\ KeepFile /\ UNCHANGED <<next_generation, issued, born, partial>>

\* vertices in the writer's view.
Vertices ==
    /\ Ready /\ Read(st).ok
    /\ Issue(st.graph, Live(st.graph))
    /\ KeepFile /\ UNCHANGED <<st, born, partial>>

\* A read with a handle that does not resolve, or a malformed request.
RequestFails ==
    /\ Ready
    /\ st' = ReadFails(st).store
    /\ KeepFile /\ KeepHandles /\ UNCHANGED <<born, partial>>

\* read_committed: the views are swapped around the read; a failed block does
\* not refuse it.
CommittedVertices ==
    /\ Ready /\ CommittedRead(st).ok
    /\ Issue(st.checkpoint, Live(st.checkpoint))
    /\ KeepFile /\ UNCHANGED <<st, born, partial>>

TakeSavepoint ==
    /\ Ready /\ st.next_savepoint <= MaxSavepoints /\ Len(st.savepoints) < MaxDepth
    /\ st' = Savepoint(st).store
    /\ KeepFile /\ KeepHandles /\ UNCHANGED <<born, partial>>

RollbackToSavepoint(id) ==
    /\ Ready
    /\ LET reply == RollbackTo(st, id)
       IN /\ st' = reply.store
          /\ IF reply.ok THEN prune_handles(reply.store) ELSE UNCHANGED generations
    /\ KeepFile /\ UNCHANGED <<next_generation, issued, born, partial>>

ReleaseSavepoint(id) ==
    /\ Ready
    /\ st' = Release(st, id).store
    /\ KeepFile /\ KeepHandles /\ UNCHANGED <<born, partial>>

RollbackAll ==
    /\ Ready
    /\ LET reply == Rollback(st)
       IN /\ st' = reply.store
          /\ IF reply.ok THEN prune_handles(reply.store) ELSE UNCHANGED generations
    /\ KeepFile /\ UNCHANGED <<next_generation, issued, born, partial>>

\* persist renames the new snapshot over the old one, ...
Persist ==
    /\ Ready /\ Commit(st).ok
    /\ disk' = st.graph
    /\ persisting' = TRUE
    /\ UNCHANGED <<up, st, sessions, born, partial>> /\ KeepHandles
\* ... and commit moves the checkpoint and returns.
CommitForgets ==
    /\ up /\ persisting
    /\ persisting' = FALSE
    /\ UNCHANGED <<up, st, disk, sessions, born, partial>> /\ KeepHandles
CommitReturns ==
    /\ up /\ persisting
    /\ st' = Commit(st).store
    /\ prune_handles(Commit(st).store)
    /\ persisting' = FALSE
    /\ UNCHANGED <<up, disk, sessions, next_generation, issued, born, partial>>
\* The file could not be written, or a block is open.
CommitError ==
    /\ Ready
    /\ st' = CommitFails(st).store
    /\ KeepFile /\ KeepHandles /\ UNCHANGED <<born, partial>>

CloseStore ==
    /\ Ready /\ ~st.closed
    /\ st' = Close(st, <<>>).store
    /\ generations' = <<>>
    /\ KeepFile /\ UNCHANGED <<next_generation, issued, born, partial>>

\* The process ends, at end of input or by a signal, between any two steps.
Crash ==
    /\ up
    /\ up' = FALSE
    /\ persisting' = FALSE
    /\ UNCHANGED <<st, disk, generations, next_generation, born, sessions, issued, partial>>

\* open: a new session from the snapshot file.  A handle carries the session it
\* was given in and no other session resolves it.
Open ==
    /\ ~up /\ sessions < MaxSessions
    /\ up' = TRUE
    /\ st' = NewStore(disk)
    /\ generations' = <<>>
    /\ next_generation' = 1
    /\ issued' = {}
    /\ sessions' = sessions + 1
    /\ UNCHANGED <<disk, persisting, born, partial>>

Next ==
    \/ AddVertex \/ AddVertexFails \/ Vertices \/ RequestFails \/ CommittedVertices
    \/ \E h \in issued : RemoveElement(h)
    \/ TakeSavepoint
    \/ \E id \in 1 .. MaxSavepoints : RollbackToSavepoint(id) \/ ReleaseSavepoint(id)
    \/ RollbackAll \/ Persist \/ CommitReturns \/ CommitError
    \/ CloseStore \/ Crash \/ Open

Spec == Init /\ [][Next]_vars
-----------------------------------------------------------------------------
Graphs == {st.graph, st.checkpoint, disk} \cup {b.graph : b \in Range(st.savepoints)}

\* The state has its types; a generation is given to one row at a time.
TypeOK ==
    /\ up \in BOOLEAN /\ persisting \in BOOLEAN
    /\ \A g \in Graphs : g \in Seq(Elements \cup {Gone})
    /\ DOMAIN generations \subseteq Elements
    /\ IsInjective(generations)
    /\ \A r \in DOMAIN generations : generations[r] < next_generation
    /\ born \in 0 .. MaxElements /\ sessions \in 1 .. MaxSessions
    /\ Len(st.savepoints) <= MaxDepth
    /\ partial \subseteq 1 .. born

\* A handle never reaches an element other than the one it was given for, in
\* the writer's view or in the committed view: rows are reused after a rollback
\* (the row count is restored with the graph), and the generation must have
\* been forgotten before the row gets its next element.
HandlesNeverAlias ==
    \A h \in issued : \A g \in {st.graph, st.checkpoint} :
        Resolves(h, g) => g[h.row] = h.element

\* A handle a committed reader can use stays usable until a commit (or the end
\* of the session): what the writer removes, rolls back or fails to do must not
\* expire it, although prune_handles runs in all those requests.
CommittedHandlesSurvive ==
    [][st'.checkpoint = st.checkpoint /\ ~st'.closed /\ sessions' = sessions =>
          \A h \in issued : Resolves(h, st.checkpoint) => Resolves(h, st.checkpoint)']_vars

\* What a failed statement wrote is never committed: outside a block the graph
\* is restored, inside one the block can only be rolled back, whichever
\* savepoints surround it.
PartialWritesNeverCommit ==
    partial \cap (Range(st.checkpoint) \cup Range(disk)) = {}

\* The committed view is the snapshot file, except between the rename and the
\* end of a commit, when the file already holds the graph being committed.
FileIsTheCheckpoint ==
    up /\ ~st.closed => disk = IF persisting THEN st.graph ELSE st.checkpoint

\* An element that is live in the writer's view can be reached by every handle
\* given for it, also after a rollback has brought it back.
LiveElementsKeepTheirHandles ==
    up /\ ~st.closed => \A h \in issued :
        h.row \in Live(st.graph) /\ st.graph[h.row] = h.element => Resolves(h, st.graph)
=============================================================================
