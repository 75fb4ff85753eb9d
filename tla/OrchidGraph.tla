----------------------------- MODULE OrchidGraph -----------------------------
(***************************************************************************)
(* The TinkerPop graph of jvm/ (OrchidGraph.java) over its native process    *)
(* (OrchidSession.java): threads share one native transaction, of which one  *)
(* of them is the writer; the others read what is committed.  Every request  *)
(* is made under the lease; an atomic mutation or a bulk load keeps the      *)
(* lease over all its requests.                                             *)
(*                                                                         *)
(* A thread may be interrupted at any time.  A request that is waiting for   *)
(* its reply is then drained: the store has executed it and the caller gets  *)
(* a CancellationException.  When a reply does not come in time the process  *)
(* is stopped and the session is of no more use.                            *)
(*                                                                         *)
(* A graph is the set of the writes in it.                                  *)
(***************************************************************************)
EXTENDS NativeTransactions, FiniteSets

CONSTANTS
    Threads,
    Nobody,
    NoAnswer,
    MaxWrites,
    MaxSavepoints,
    MaxInterrupts

ASSUME NobodyAssumption == Nobody \notin Threads

VARIABLES
    st,           \* the native store
    alive,        \* the session is usable
    closed,       \* the graph was closed or aborted
    lease,        \* the thread that keeps the lease between requests
    writeOwner,
    open,         \* thread-local: the thread has a transaction
    interrupted,  \* the threads' interrupt flags
    cache,        \* the cached answer of a read, or NoAnswer
    pc,           \* where that thread is in its mutation or load
    job,          \* that mutation or load, or the last one
    writes,       \* writes so far
    interrupts    \* interrupts so far

vars == <<st, alive, closed, lease, writeOwner, open, interrupted, cache, pc, job, writes,
          interrupts>>

NoJob == [bulk |-> FALSE, had |-> FALSE, id |-> 0, was |-> FALSE,
          from |-> {}, blocks |-> <<>>, wrote |-> {}]

Init ==
    /\ st = NewStore({})
    /\ alive = TRUE /\ closed = FALSE
    /\ lease = Nobody /\ writeOwner = Nobody
    /\ open = [t \in Threads |-> FALSE]
    /\ interrupted = [t \in Threads |-> FALSE]
    /\ cache = NoAnswer
    /\ pc = "idle"
    /\ job = NoJob
    /\ writes = 0 /\ interrupts = 0

HasLease(t) == lease \in {Nobody, t}
MayWrite(t) == writeOwner \in {Nobody, t}
Submits(t) == alive /\ ~closed /\ ~interrupted[t]

\* The ends of session.call for a request to which the store replies r: not
\* submitted; replied; replied while the caller was interrupted; or not in
\* time, when the store may or may not have executed it.
Ends(t, r) ==
    IF ~Submits(t) THEN {[ok |-> FALSE, store |-> st, alive |-> alive, interrupted |-> interrupted[t]]}
    ELSE {[ok |-> r.ok, store |-> r.store, alive |-> TRUE, interrupted |-> FALSE]}
         \cup {[ok |-> FALSE, store |-> s, alive |-> FALSE, interrupted |-> FALSE] : s \in {st, r.store}}
         \cup (IF interrupts < MaxInterrupts
               THEN {[ok |-> FALSE, store |-> r.store, alive |-> TRUE, interrupted |-> TRUE]} ELSE {})

\* A request ends with e.  Every request but a read clears the caches first, and
\* a failure clears them again.
called == <<st, alive, interrupted, interrupts, cache>>
Called(t, e, flag) ==
    /\ st' = e.store
    /\ alive' = e.alive
    /\ interrupted' = [interrupted EXCEPT ![t] = flag \/ e.interrupted]
    /\ interrupts' = IF e.interrupted /\ ~interrupted[t] THEN interrupts + 1 ELSE interrupts
Sent(t, e, flag) == Called(t, e, flag) /\ cache' = NoAnswer

\* claimWrite, which only a submitted request reaches.
Claims(t) == writeOwner' = IF Submits(t) THEN t ELSE writeOwner
Opens(t) == open' = [open EXCEPT ![t] = @ \/ Submits(t)]

\* The store's replies to a mutation: it is done, or it fails before or after
\* it has written.
Replies ==
    LET g == st.graph \cup {writes + 1} IN
    {Mutate(st, g), MutationFails(st, g), MutationFails(st, st.graph)}

\* A mutation of its own.
Write(t) ==
    /\ lease = Nobody /\ MayWrite(t) /\ writes < MaxWrites
    /\ \E reply \in Replies :
       \E e \in Ends(t, reply) : Sent(t, e, FALSE)
    /\ Claims(t) /\ Opens(t)
    /\ writes' = writes + 1
    /\ UNCHANGED <<closed, lease, pc, job>>

\* A read: of the committed view when another thread is the writer, else of the
\* cache or the writer's view.  Its answer is cached outside atomic mutations.
IsCommittedRead(t) == ~MayWrite(t)
CacheableAlways(t) == lease = Nobody
Cacheable(t) == lease = Nobody /\ ~IsCommittedRead(t)
CacheHit(t) == Cacheable(t) /\ cache # NoAnswer
Answer(t) ==
    IF CacheHit(t) THEN cache ELSE IF IsCommittedRead(t) THEN st.checkpoint ELSE st.graph

RequestRead(t) ==
    \E e \in Ends(t, IF IsCommittedRead(t) THEN CommittedRead(st) ELSE Read(st)) :
        /\ Called(t, e, FALSE)
        /\ cache' = IF ~e.ok THEN NoAnswer ELSE IF Cacheable(t) THEN Answer(t) ELSE cache
GetAnswer(t) ==
    /\ HasLease(t) /\ pc \in {"idle", "atomic"}
    /\ IF Submits(t) /\ CacheHit(t) THEN UNCHANGED called ELSE RequestRead(t)
    /\ Opens(t)
    /\ UNCHANGED <<closed, lease, writeOwner, pc, job, writes>>

\* finish: the writer's commit or rollback; the transaction stays the writer's
\* when the request fails.  A thread that is no writer has nothing to finish.
FreedAlways(e) == Nobody
Freed(e) == IF e.ok THEN Nobody ELSE writeOwner
Finish(t, r, flag) ==
    IF writeOwner # t
    THEN /\ open' = [open EXCEPT ![t] = FALSE]
         /\ interrupted' = [interrupted EXCEPT ![t] = flag \/ @]
         /\ UNCHANGED <<st, alive, interrupts, cache, writeOwner>>
    ELSE \E e \in Ends(t, r) :
         /\ Sent(t, e, flag)
         /\ writeOwner' = Freed(e)
         /\ open' = [open EXCEPT ![t] = @ /\ ~e.ok]

CommitTx(t) ==
    /\ lease = Nobody
    /\ \E r \in {Commit(st), CommitFails(st)} : Finish(t, r, FALSE)
    /\ UNCHANGED <<closed, lease, pc, job, writes>>
RollbackTx(t) ==
    /\ lease = Nobody
    /\ Finish(t, Rollback(st), FALSE)
    /\ UNCHANGED <<closed, lease, pc, job, writes>>
-----------------------------------------------------------------------------
(***************************************************************************)
(* atomicMutation, alone or inside bulkLoad.                                *)
(***************************************************************************)
\* The lease is taken once the thread may be the writer.
Enter(t, bulk) ==
    /\ lease = Nobody /\ MayWrite(t) /\ ~closed
    /\ lease' = t
    /\ pc' = "entered"
    /\ job' = [NoJob EXCEPT !.bulk = bulk, !.had = open[t], !.from = st.graph, !.blocks = st.savepoints]
    /\ UNCHANGED <<st, alive, closed, writeOwner, open, interrupted, cache, writes, interrupts>>

\* What follows the mutation: its load commits or rolls back the transaction it
\* opened, otherwise the lease is free.
After(t, ok) ==
    LET load == job.bulk /\ ~job.had IN
    /\ pc' = IF ~load THEN "idle" ELSE IF ok THEN "loaded" ELSE "unloading"
    /\ lease' = IF load THEN t ELSE Nobody

\* A failure of the savepoint request leaves the mutation at once.
TakeSavepoint(t) ==
    /\ lease = t /\ pc = "entered" /\ st.next_savepoint <= MaxSavepoints
    /\ \E e \in Ends(t, Savepoint(st)) :
       /\ Sent(t, e, FALSE)
       /\ job' = [job EXCEPT !.id = st.next_savepoint]
       /\ IF e.ok THEN pc' = "atomic" /\ UNCHANGED lease ELSE After(t, FALSE)
    /\ Claims(t) /\ Opens(t)
    /\ UNCHANGED <<closed, writes>>

\* The action writes; when a write fails it goes on or lets the failure out.
AtomicWrite(t) ==
    /\ lease = t /\ pc = "atomic" /\ writes < MaxWrites
    /\ \E reply \in Replies :
       \E e \in Ends(t, reply) :
       /\ Sent(t, e, FALSE)
       /\ pc' \in {pc} \cup (IF e.ok THEN {} ELSE {"failing"})
    /\ job' = [job EXCEPT !.wrote = @ \cup {writes + 1}]
    /\ writes' = writes + 1
    /\ UNCHANGED <<closed, lease, writeOwner, open>>

\* The action commits or rolls back, which the store refuses inside the block;
\* a load defers the commit.
AtomicFinish(t) ==
    /\ lease = t /\ pc = "atomic"
    /\ \/ ~job.bulk /\ Finish(t, Commit(st), FALSE)
       \/ Finish(t, Rollback(st), FALSE)
    /\ pc' \in {"atomic", "failing"}
    /\ UNCHANGED <<closed, lease, job, writes>>

AtomicThrows(t) ==
    /\ lease = t /\ pc = "atomic"
    /\ pc' = "failing"
    /\ UNCHANGED <<st, alive, closed, lease, writeOwner, open, interrupted, cache, job, writes, interrupts>>

ReleaseSavepoint(t) ==
    /\ lease = t /\ pc = "atomic"
    /\ \E e \in Ends(t, Release(st, job.id)) :
       /\ Sent(t, e, FALSE)
       /\ IF e.ok THEN After(t, TRUE) ELSE pc' = "failing" /\ UNCHANGED lease
    /\ UNCHANGED <<closed, writeOwner, open, job, writes>>

\* The failure is caught: the interrupt flag is put aside, ...
CatchFailure(t) ==
    /\ lease = t /\ pc = "failing"
    /\ pc' = "undoing"
    /\ job' = [job EXCEPT !.was = interrupted[t]]
    /\ interrupted' = [interrupted EXCEPT ![t] = FALSE]
    /\ UNCHANGED <<st, alive, closed, lease, writeOwner, open, cache, writes, interrupts>>
\* ... the block is rolled back, and the flag is raised again.  A failure of
\* this request is only added to the one being thrown.
UndoIgnored(t) ==
    /\ lease = t /\ pc = "undoing"
    /\ \E e \in Ends(t, Release(st, job.id)) : Sent(t, e, job.was)
    /\ After(t, FALSE)
    /\ UNCHANGED <<closed, writeOwner, open, job, writes>>
Undo(t) ==
    /\ lease = t /\ pc = "undoing"
    /\ \E e \in Ends(t, RollbackTo(st, job.id)) : Sent(t, e, job.was)
    /\ After(t, FALSE)
    /\ UNCHANGED <<closed, writeOwner, open, job, writes>>

\* bulkLoad's commit.
CommitLoad(t) ==
    /\ lease = t /\ pc = "loaded"
    /\ \E r \in {Commit(st), CommitFails(st)} : Finish(t, r, FALSE)
    /\ IF writeOwner' = Nobody
       THEN lease' = Nobody /\ pc' = "idle"
       ELSE UNCHANGED lease /\ pc' = "unloading"
    /\ UNCHANGED <<closed, job, writes>>
\* Its rollback, with the interrupt flag put aside and raised again.
CatchLoad(t) ==
    /\ lease = t /\ pc = "unloading"
    /\ pc' = "unload"
    /\ job' = [job EXCEPT !.was = interrupted[t]]
    /\ interrupted' = [interrupted EXCEPT ![t] = FALSE]
    /\ UNCHANGED <<st, alive, closed, lease, writeOwner, open, cache, writes, interrupts>>
UndoLoad(t) ==
    /\ lease = t /\ pc = "unload"
    /\ Finish(t, Rollback(st), job.was)
    /\ lease' = Nobody
    /\ pc' = "idle"
    /\ UNCHANGED <<closed, job, writes>>
-----------------------------------------------------------------------------
\* A thread is interrupted.  Between its requests that only sets the flag.
Interrupt(t) ==
    /\ interrupts < MaxInterrupts /\ ~interrupted[t]
    /\ interrupted' = [interrupted EXCEPT ![t] = TRUE]
    /\ interrupts' = interrupts + 1
    /\ UNCHANGED <<st, alive, closed, lease, writeOwner, open, cache, pc, job, writes>>
\* The application takes note of it.
ClearInterrupt(t) ==
    /\ lease # t /\ interrupted[t]
    /\ interrupted' = [interrupted EXCEPT ![t] = FALSE]
    /\ UNCHANGED <<st, alive, closed, lease, writeOwner, open, cache, pc, job, writes, interrupts>>

\* abort, by any thread and without the lease; close is a rollback before it.
Abort ==
    /\ ~closed
    /\ closed' = TRUE /\ alive' = FALSE /\ cache' = NoAnswer
    /\ UNCHANGED <<st, lease, writeOwner, open, interrupted, pc, job, writes, interrupts>>

Next ==
    \/ \E t \in Threads :
          \/ Write(t) \/ GetAnswer(t) \/ CommitTx(t) \/ RollbackTx(t)
          \/ Enter(t, FALSE) \/ Enter(t, TRUE) \/ TakeSavepoint(t) \/ AtomicWrite(t)
          \/ AtomicFinish(t) \/ AtomicThrows(t) \/ ReleaseSavepoint(t)
          \/ CatchFailure(t) \/ Undo(t) \/ CommitLoad(t) \/ CatchLoad(t) \/ UndoLoad(t)
          \/ Interrupt(t) \/ ClearInterrupt(t)
    \/ Abort

Spec == Init /\ [][Next]_vars
-----------------------------------------------------------------------------
\* The state has its types; the lease is kept by the one thread in a mutation.
TypeOK ==
    /\ alive \in BOOLEAN /\ closed \in BOOLEAN
    /\ writeOwner \in Threads \cup {Nobody}
    /\ (lease = Nobody) = (pc = "idle")
    /\ cache \in SUBSET (1 .. MaxWrites) \cup {NoAnswer}
    /\ \A g \in {st.graph, st.checkpoint} : g \subseteq 1 .. writes

\* Uncommitted writes and open blocks belong to the writer: when no thread is
\* the writer the store holds exactly what is committed.  The next thread to
\* write would otherwise commit another thread's writes with its own.
PendingWritesHaveAnOwner ==
    alive /\ writeOwner = Nobody => st.graph = st.checkpoint /\ ~InBlock(st)

\* What a read would be answered is the writer's view for the writer, and for
\* everybody when there is no writer, and the committed view otherwise, as they
\* are now: the caches are never stale and never show one thread the pending
\* writes of another.
ReadsAreExact ==
    \A t \in Threads : alive /\ HasLease(t) =>
        Answer(t) = IF writeOwner \in {Nobody, t} THEN st.graph ELSE st.checkpoint

\* A bulk load that opened its own transaction commits all its writes or none,
\* whatever fails and wherever it is interrupted.
BulkLoadsAreAtomic ==
    job.bulk /\ ~job.had => job.wrote \cap st.checkpoint \in {{}, job.wrote}

\* An atomic mutation that throws leaves the graph and the blocks of the
\* surrounding transaction as they were when it started, while the session
\* lives ("Native savepoint preserves the surrounding caller transaction on
\* failure").  An interrupt may make any request of it fail but three: it must
\* not find the savepoint or the release waiting for the reply, which the store
\* then executes all the same, nor come just before the rollback.
Cut ==
    \/ pc = "entered" /\ interrupts' # interrupts
    \/ pc = "undoing" /\ (interrupted[lease] \/ st.savepoints = job.blocks)
FailedMutationsRollBack ==
    [][(pc \in {"entered", "undoing"} /\ pc' \in {"idle", "unloading"} /\ alive' /\ ~Cut)
       => (st'.graph = job.from /\ st'.savepoints = job.blocks)]_vars
=============================================================================
