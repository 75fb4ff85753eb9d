-------------------------- MODULE OrchidGraphProofs --------------------------
(***************************************************************************)
(* Proofs about OrchidGraph for any number of threads, writes, savepoints   *)
(* and interrupts, wherever the interrupts land.                            *)
(***************************************************************************)
EXTENDS OrchidGraph, SequenceTheorems, TLAPS

Blocks == [id : Nat, graph : SUBSET Nat, failed : BOOLEAN]
Stores == [graph : SUBSET Nat, checkpoint : SUBSET Nat, savepoints : Seq(Blocks),
           next_savepoint : Nat, closed : {FALSE}]
Jobs == [bulk : BOOLEAN, had : BOOLEAN, id : Nat, was : BOOLEAN, from : SUBSET Nat,
         blocks : Seq(Blocks), wrote : SUBSET Nat]

\* A reply of the store that keeps its type, that has executed the request when
\* it says so, and that keeps the open blocks when it refuses.
Replying(r) == r.ok \in BOOLEAN /\ r.store \in Stores

Types ==
    /\ st \in Stores
    /\ alive \in BOOLEAN /\ closed \in BOOLEAN
    /\ writeOwner \in Threads \cup {Nobody}
    /\ lease \in Threads \cup {Nobody}
    /\ interrupted \in [Threads -> BOOLEAN]
    /\ writes \in Nat
    /\ pc \in {"idle", "entered", "atomic", "failing", "undoing", "loaded", "unloading", "unload"}
    /\ job \in Jobs /\ open \in [Threads -> BOOLEAN]

\* A thread inside its block is the writer, and its block is open while the
\* action runs.
Owned ==
    /\ pc \in {"atomic", "failing", "undoing"} => writeOwner = lease /\ lease # Nobody
    /\ pc = "atomic" /\ alive => InBlock(st)

CacheIsCurrent == alive /\ cache # NoAnswer => cache = st.graph

IInv == Types /\ Owned /\ PendingWritesHaveAnOwner /\ CacheIsCurrent

-----------------------------------------------------------------------------
\* The innermost block can be marked, and completed.
LEMMA BlockFacts ==
    ASSUME NEW s \in Stores, InBlock(s)
    PROVE  LET marked == Append(Enclosing(s), [Innermost(s) EXCEPT !.failed = TRUE])
           IN  /\ Innermost(s) \in Blocks
               /\ Enclosing(s) \in Seq(Blocks)
               /\ marked \in Seq(Blocks) /\ marked # <<>>
<1>0. s.savepoints \in Seq(Blocks) /\ s.savepoints # <<>>
  BY Zenon DEF Stores, InBlock
<1>1. Len(s.savepoints) \in Nat \ {0} /\ Len(s.savepoints) - 1 \in Nat
  BY <1>0
<1>2. Innermost(s) \in Blocks
  BY <1>0, <1>1 DEF Innermost
<1>3. Enclosing(s) \in Seq(Blocks)
  BY <1>0, <1>1 DEF Enclosing
<1>4. [Innermost(s) EXCEPT !.failed = TRUE] \in Blocks
  BY Zenon, <1>2 DEF Blocks
<1>5. ASSUME NEW q \in Seq(Blocks), NEW y \in Blocks
      PROVE  Append(q, y) \in Seq(Blocks) /\ Append(q, y) # <<>>
  <2>1. Append(q, y) \in Seq(Blocks) /\ Len(Append(q, y)) = Len(q) + 1 /\ Len(q) \in Nat
    OBVIOUS
  <2>2. Len(Append(q, y)) # Len(<<>>)
    BY <2>1
  <2> QED
    BY Zenon, <2>1, <2>2
<1> QED
  BY Zenon, <1>2, <1>3, <1>4, <1>5

\* A failure keeps the graphs and the blocks.
LEMMA FailedFacts ==
    ASSUME NEW s \in Stores
    PROVE  /\ Replying(Failed(s)) /\ ~Failed(s).ok
           /\ InBlock(Failed(s).store) = InBlock(s)
           /\ Failed(s).store.graph = s.graph
<1>1. CASE InBlock(s)
  BY Zenon, <1>1, BlockFacts DEF Failed, Refused, Replying, InBlock, Stores
<1>2. CASE ~InBlock(s)
  BY Zenon, <1>2 DEF Failed, Refused, Replying, InBlock, Stores
<1> QED
  BY Zenon, <1>1, <1>2

\* A mutation keeps the blocks, done or not.
LEMMA MutateFacts ==
    ASSUME NEW s \in Stores, NEW g \in SUBSET Nat
    PROVE  \A r \in {Mutate(s, g), MutationFails(s, g)} :
               Replying(r) /\ (InBlock(s) => InBlock(r.store))
<1>1. [s EXCEPT !.graph = g] \in Stores /\ ~s.closed
      /\ InBlock([s EXCEPT !.graph = g]) = InBlock(s)
  BY Zenon DEF Stores, InBlock
<1>2. Replying(Mutate(s, g)) /\ (InBlock(s) => InBlock(Mutate(s, g).store))
  BY Zenon, <1>1 DEF Mutate, Request, Replying, Done, Refused
<1>3. Replying(MutationFails(s, g)) /\ (InBlock(s) => InBlock(MutationFails(s, g).store))
  BY Zenon, <1>1, FailedFacts DEF MutationFails, Request, Replying, Refused
<1> QED
  BY Zenon, <1>2, <1>3

\* A read leaves the store as it is.
LEMMA ReadFacts ==
    ASSUME NEW s \in Stores
    PROVE  \A r \in {Read(s), CommittedRead(s)} : r.ok \in BOOLEAN /\ r.store = s
<1>1. ~s.closed
  BY Zenon DEF Stores
<1>2. Read(s) \in {Refused(s), Done(s)} /\ CommittedRead(s) = Done(s)
  BY Zenon, <1>1 DEF Read, CommittedRead, Request
<1>3. Refused(s).ok = FALSE /\ Refused(s).store = s
  BY Zenon DEF Refused
<1>4. Done(s).ok = TRUE /\ Done(s).store = s
  BY Zenon DEF Done
<1> QED
  BY Zenon, <1>2, <1>3, <1>4

\* A commit or rollback that is done leaves nothing pending; inside a block it
\* is not done.
LEMMA FinishFacts ==
    ASSUME NEW s \in Stores
    PROVE  \A r \in {Commit(s), CommitFails(s), Rollback(s)} :
               /\ Replying(r)
               /\ r.ok => ~InBlock(r.store) /\ r.store.graph = r.store.checkpoint /\ ~InBlock(s)
               /\ InBlock(s) => InBlock(r.store)
<1>1. Replying(Refused(s)) /\ ~Refused(s).ok /\ Refused(s).store = s /\ ~s.closed
  BY Zenon DEF Refused, Replying, Stores
<1>2. CASE InBlock(s)
  BY Zenon, <1>1, <1>2, FailedFacts DEF Commit, CommitFails, Rollback, Request
<1>3. CASE ~InBlock(s)
  <2>1. ~Poisoned(s)
    BY Zenon, <1>3 DEF Poisoned
  <2>2. CommitFails(s) = Failed(s)
    BY Zenon, <1>1, <2>1 DEF CommitFails, Request
  <2>3. Commit(s) = Done([s EXCEPT !.checkpoint = s.graph])
        /\ Rollback(s) = Done([s EXCEPT !.graph = s.checkpoint])
    BY Zenon, <1>1, <1>3, <2>1 DEF Commit, Rollback, Request
  <2>4. [s EXCEPT !.checkpoint = s.graph] \in Stores /\ [s EXCEPT !.graph = s.checkpoint] \in Stores
    BY Zenon DEF Stores
  <2>5. ~InBlock([s EXCEPT !.checkpoint = s.graph]) /\ ~InBlock([s EXCEPT !.graph = s.checkpoint])
    BY Zenon, <1>3 DEF InBlock, Stores
  <2>6. [s EXCEPT !.checkpoint = s.graph].checkpoint = s.graph
        /\ [s EXCEPT !.checkpoint = s.graph].graph = s.graph
        /\ [s EXCEPT !.graph = s.checkpoint].checkpoint = s.checkpoint
        /\ [s EXCEPT !.graph = s.checkpoint].graph = s.checkpoint
    BY Zenon DEF Stores
  <2>7. Replying(Commit(s)) /\ Replying(Rollback(s))
    BY <2>3, <2>4 DEF Done, Replying
  <2>8. Commit(s).store = [s EXCEPT !.checkpoint = s.graph]
        /\ Rollback(s).store = [s EXCEPT !.graph = s.checkpoint]
    BY <2>3 DEF Done
  <2>9. ASSUME NEW r \in {Commit(s), Rollback(s)}
        PROVE  Replying(r) /\ ~InBlock(r.store) /\ r.store.graph = r.store.checkpoint
    BY Zenon, <2>5, <2>6, <2>7, <2>8
  <2>10. Replying(CommitFails(s)) /\ ~CommitFails(s).ok
    BY Zenon, <2>2, FailedFacts
  <2> QED
    BY Zenon, <1>3, <2>9, <2>10
<1> QED
  BY Zenon, <1>2, <1>3

\* The requests that open and complete blocks keep the store's type, and a
\* savepoint that is taken leaves a block open.
LEMMA SavepointFacts ==
    ASSUME NEW s \in Stores, NEW id \in Nat
    PROVE  /\ \A r \in {Savepoint(s), RollbackTo(s, id), Release(s, id)} : Replying(r)
           /\ Savepoint(s).ok => InBlock(Savepoint(s).store)
<1>1. Replying(Refused(s)) /\ ~Refused(s).ok /\ ~s.closed
  BY Zenon DEF Refused, Replying, Stores
<1>2. /\ Replying(Savepoint(s))
      /\ Savepoint(s).ok => InBlock(Savepoint(s).store)
  <2> DEFINE b == [id |-> s.next_savepoint, graph |-> s.graph, failed |-> FALSE]
             n == [s EXCEPT !.savepoints = Append(@, b), !.next_savepoint = @ + 1]
  <2>1. b \in Blocks
    BY Zenon DEF Blocks, Stores
  <2>2. Append(s.savepoints, b) \in Seq(Blocks) /\ Append(s.savepoints, b) # <<>>
    BY <2>1 DEF Stores
  <2>3. n \in Stores /\ n.savepoints = Append(s.savepoints, b)
    <3>1. s.next_savepoint + 1 \in Nat
      BY DEF Stores
    <3> HIDE DEF b
    <3> QED
      BY Zenon, <2>2, <3>1 DEF Stores
  <2>4. InBlock(n)
    BY Zenon, <2>2, <2>3 DEF InBlock
  <2>5. Savepoint(s) = Request(s, Done(n))
    BY Zenon DEF Savepoint
  <2>6. Savepoint(s) \in {Refused(s), Done(n)}
    BY Zenon, <1>1, <2>5 DEF Request
  <2> HIDE DEF n
  <2>7. Done(n).ok = TRUE /\ Done(n).store = n
    BY Zenon DEF Done
  <2>8. CASE Savepoint(s) = Refused(s)
    BY Zenon, <1>1, <2>8
  <2>9. CASE Savepoint(s) = Done(n)
    BY Zenon, <2>3, <2>4, <2>7, <2>9 DEF Replying
  <2> QED
    BY Zenon, <2>6, <2>8, <2>9
<1>3. ASSUME IsInnermost(s, id)
      PROVE  /\ [s EXCEPT !.savepoints = Enclosing(s)] \in Stores
             /\ [s EXCEPT !.savepoints = Enclosing(s), !.graph = Innermost(s).graph] \in Stores
  BY Zenon, <1>3, BlockFacts DEF IsInnermost, InBlock, Stores, Blocks
<1>4. Replying(RollbackTo(s, id))
  BY Zenon, <1>1, <1>3, FailedFacts DEF RollbackTo, Done, Replying
<1>5. Replying(Release(s, id))
  BY Zenon, <1>1, <1>3, FailedFacts DEF Release, Request, Done, Replying
<1> QED
  BY Zenon, <1>2, <1>4, <1>5

-----------------------------------------------------------------------------
\* How a request ends.
LEMMA EndsFacts ==
    ASSUME Types, NEW t \in Threads, NEW r, Replying(r), NEW e \in Ends(t, r)
    PROVE  /\ e.ok \in BOOLEAN /\ e.alive \in BOOLEAN /\ e.interrupted \in BOOLEAN
           /\ e.store \in Stores /\ e.store \in {st, r.store}
           /\ e.alive => alive
           /\ e.ok => Submits(t) /\ r.ok /\ e.store = r.store
           /\ ~Submits(t) => e.store = st
<1> DEFINE end(ok, s, a, i) == [ok |-> ok, store |-> s, alive |-> a, interrupted |-> i]
<1>1. CASE ~Submits(t)
  <2>1. e = end(FALSE, st, alive, interrupted[t])
    BY Zenon, <1>1 DEF Ends
  <2> QED
    BY Zenon, <1>1, <2>1 DEF Types
<1>2. CASE Submits(t)
  <2>1. alive /\ st \in Stores /\ r.store \in Stores /\ r.ok \in BOOLEAN
    BY Zenon, <1>2 DEF Submits, Types, Replying
  <2>2. \/ e = end(r.ok, r.store, TRUE, FALSE)
        \/ \E s \in {st, r.store} : e = end(FALSE, s, FALSE, FALSE)
        \/ e = end(FALSE, r.store, TRUE, TRUE)
    BY Zenon, <1>2 DEF Ends
  <2>3. CASE e = end(r.ok, r.store, TRUE, FALSE)
    BY Zenon, <1>2, <2>1, <2>3
  <2>4. CASE \E s \in {st, r.store} : e = end(FALSE, s, FALSE, FALSE)
    BY <1>2, <2>1, <2>4
  <2>5. CASE e = end(FALSE, r.store, TRUE, TRUE)
    BY Zenon, <1>2, <2>1, <2>5
  <2> QED
    BY Zenon, <2>2, <2>3, <2>4, <2>5
<1> QED
  BY Zenon, <1>1, <1>2

\* A request other than a read, sent by a thread that is the writer after it,
\* keeps the types and clears the caches; nothing is said about the block.
LEMMA SentFacts ==
    ASSUME IInv, NEW t \in Threads, NEW r, Replying(r), NEW e \in Ends(t, r),
           NEW flag \in BOOLEAN, Sent(t, e, flag)
    PROVE  /\ st' \in Stores /\ st' \in {st, r.store} /\ (~Submits(t) => st' = st)
           /\ alive' \in BOOLEAN /\ (alive' => alive)
           /\ interrupted' \in [Threads -> BOOLEAN]
           /\ CacheIsCurrent'
<1>1. /\ e.ok \in BOOLEAN /\ e.alive \in BOOLEAN /\ e.interrupted \in BOOLEAN
      /\ e.store \in Stores /\ e.store \in {st, r.store}
      /\ e.alive => alive
      /\ ~Submits(t) => e.store = st
  BY Zenon, EndsFacts DEF IInv
<1>2. interrupted' \in [Threads -> BOOLEAN]
  BY Zenon, <1>1 DEF Sent, Called, IInv, Types
<1>3. CacheIsCurrent'
  BY Zenon DEF Sent, CacheIsCurrent
<1> QED
  BY Zenon, <1>1, <1>2, <1>3 DEF Sent, Called

\* A transaction is open or not.
LEMMA OpensFacts ==
    ASSUME Types, NEW t \in Threads, Opens(t)
    PROVE  open' \in [Threads -> BOOLEAN]
<1>1. Submits(t) \in BOOLEAN
  BY Zenon DEF Submits
<1> QED
  BY Zenon, <1>1 DEF Types, Opens

\* finish keeps everything but the block: the thread is the writer until what
\* it wrote is committed or rolled back.
LEMMA FinishSteps ==
    ASSUME IInv, NEW t \in Threads, NEW flag \in BOOLEAN,
           NEW r \in {Commit(st), CommitFails(st), Rollback(st)}, Finish(t, r, flag)
    PROVE  /\ st' \in Stores
           /\ alive' \in BOOLEAN /\ (alive' => alive)
           /\ interrupted' \in [Threads -> BOOLEAN]
           /\ writeOwner' \in Threads \cup {Nobody} /\ open' \in [Threads -> BOOLEAN]
           /\ CacheIsCurrent' /\ PendingWritesHaveAnOwner'
           /\ alive /\ InBlock(st) => writeOwner' = writeOwner /\ InBlock(st')
           /\ ~alive => writeOwner' = writeOwner
<1>0. /\ Replying(r) /\ (InBlock(st) => InBlock(r.store))
      /\ r.ok => ~InBlock(r.store) /\ r.store.graph = r.store.checkpoint /\ ~InBlock(st)
  BY FinishFacts DEF IInv, Types
<1>1. CASE writeOwner # t
  BY Zenon, <1>1 DEF Finish, IInv, Types, CacheIsCurrent, PendingWritesHaveAnOwner, InBlock
<1>2. CASE writeOwner = t
  <2>1. PICK e \in Ends(t, r) : Sent(t, e, flag) /\ writeOwner' = Freed(e)
    BY Zenon, <1>2 DEF Finish
  <2>2. /\ e.ok \in BOOLEAN /\ (e.ok => Submits(t) /\ r.ok /\ e.store = r.store)
        /\ e.store \in {st, r.store}
    BY Zenon, <1>0, EndsFacts DEF IInv
  <2>3. /\ st' \in Stores /\ st' = e.store
        /\ alive' \in BOOLEAN /\ (alive' => alive)
        /\ interrupted' \in [Threads -> BOOLEAN]
        /\ CacheIsCurrent'
    BY Zenon, <1>0, <2>1, SentFacts DEF Sent, Called
  <2>o. open' \in [Threads -> BOOLEAN]
    <3>1. \E b \in BOOLEAN : open' = [open EXCEPT ![t] = b]
      BY Zenon, <1>0, <1>2, EndsFacts DEF Finish, IInv, Types
    <3> QED
      BY Zenon, <3>1 DEF IInv, Types
  <2>4. CASE e.ok
    BY Zenon, <1>0, <2>1, <2>2, <2>3, <2>o, <2>4 DEF Freed, PendingWritesHaveAnOwner, InBlock, Submits
  <2>5. CASE ~e.ok
    <3>1. writeOwner' = t /\ t # Nobody
      BY Zenon, <1>2, <2>1, <2>5, NobodyAssumption DEF Freed
    <3>2. InBlock(st) => InBlock(st')
      BY Zenon, <1>0, <2>2, <2>3
    <3> QED
      BY Zenon, <1>2, <2>3, <2>o, <3>1, <3>2 DEF PendingWritesHaveAnOwner
  <2> QED
    BY Zenon, <2>2, <2>4, <2>5
<1> QED
  BY Zenon, <1>1, <1>2

\* A thread that becomes, or stays, the writer when it submits.
LEMMA ClaimSteps ==
    ASSUME IInv, NEW t \in Threads, NEW r, Replying(r), NEW e \in Ends(t, r),
           NEW flag \in BOOLEAN, Sent(t, e, flag), Claims(t)
    PROVE  /\ writeOwner' \in Threads \cup {Nobody}
           /\ PendingWritesHaveAnOwner'
           /\ e.ok => writeOwner' = t
<1>1. st' \in {st, r.store} /\ (~Submits(t) => st' = st) /\ (alive' => alive)
  BY Zenon, SentFacts
<1>2. e.ok => Submits(t)
  BY Zenon, EndsFacts DEF IInv
<1>3. CASE Submits(t)
  BY Zenon, <1>1, <1>2, <1>3, NobodyAssumption DEF Claims, PendingWritesHaveAnOwner
<1>4. CASE ~Submits(t)
  BY Zenon, <1>1, <1>2, <1>4 DEF Claims, PendingWritesHaveAnOwner, IInv, Types, InBlock
<1> QED
  BY Zenon, <1>3, <1>4

\* At the start nothing is pending and nothing is cached.
LEMMA InitInv == Init => IInv
<1> SUFFICES ASSUME Init PROVE IInv
  BY Zenon
<1>1. st \in Stores
  BY DEF Init, NewStore, Stores
<1>2. Types
  <2>1. NoJob \in Jobs
    BY DEF NoJob, Jobs
  <2> QED
    BY Zenon, <1>1, <2>1 DEF Init, Types
<1>3. Owned /\ CacheIsCurrent
  BY Zenon DEF Init, Owned, CacheIsCurrent
<1>4. PendingWritesHaveAnOwner
  BY Zenon DEF Init, NewStore, PendingWritesHaveAnOwner, InBlock
<1> QED
  BY Zenon, <1>2, <1>3, <1>4 DEF IInv

\* The steps of an action that are outside every block or inside one keep the
\* invariant.
LEMMA StepInv == IInv /\ [Next]_vars => IInv'
<1> SUFFICES ASSUME IInv, [Next]_vars PROVE IInv'
  BY Zenon
<1>0. Types /\ Owned /\ PendingWritesHaveAnOwner /\ CacheIsCurrent
  BY Zenon DEF IInv
<1>b. job.id \in Nat /\ job.was \in BOOLEAN /\ st \in Stores
  BY Zenon, <1>0 DEF Types, Jobs
<1>a. \A r \in Replies : Replying(r) /\ (InBlock(st) => InBlock(r.store))
  <2>1. st \in Stores /\ st.graph \in SUBSET Nat /\ st.graph \cup {writes + 1} \in SUBSET Nat
    <3>1. st \in Stores /\ writes + 1 \in Nat
      BY <1>0 DEF Types
    <3>2. st.graph \in SUBSET Nat
      BY Zenon, <3>1 DEF Stores
    <3> QED
      BY Zenon, <3>1, <3>2
  <2>2. \A r \in {Mutate(st, st.graph \cup {writes + 1}), MutationFails(st, st.graph \cup {writes + 1})} :
           Replying(r) /\ (InBlock(st) => InBlock(r.store))
    BY Zenon, <2>1, MutateFacts
  <2>3. \A r \in {Mutate(st, st.graph), MutationFails(st, st.graph)} :
           Replying(r) /\ (InBlock(st) => InBlock(r.store))
    BY Zenon, <2>1, MutateFacts
  <2> QED
    BY Zenon, <2>2, <2>3 DEF Replies
<1>1. ASSUME NEW t \in Threads, Write(t) PROVE IInv'
  <2>0. PICK reply \in Replies : \E e \in Ends(t, reply) : Sent(t, e, FALSE)
    BY Zenon, <1>1 DEF Write
  <2>1. PICK e \in Ends(t, reply) : Sent(t, e, FALSE)
    BY Zenon, <2>0
  <2>2. /\ st' \in Stores /\ alive' \in BOOLEAN /\ interrupted' \in [Threads -> BOOLEAN]
        /\ CacheIsCurrent'
    BY Zenon, <1>a, <2>1, SentFacts
  <2>3. writeOwner' \in Threads \cup {Nobody} /\ PendingWritesHaveAnOwner'
    BY Zenon, <1>a, <1>1, <2>1, ClaimSteps DEF Write
  <2>4. /\ UNCHANGED <<closed, lease, pc, job>> /\ writes' = writes + 1 /\ lease = Nobody
        /\ open' \in [Threads -> BOOLEAN]
    BY Zenon, <1>0, <1>1, OpensFacts DEF Write
  <2>5. pc \notin {"atomic", "failing", "undoing"}
    BY Zenon, <1>0, <2>4 DEF Owned
  <2> QED
    BY <1>0, <2>2, <2>3, <2>4, <2>5 DEF IInv, Types, Owned
<1>2. ASSUME NEW t \in Threads, GetAnswer(t) PROVE IInv'
  <2>1. /\ UNCHANGED <<closed, lease, writeOwner, pc, job, writes>>
        /\ open' \in [Threads -> BOOLEAN]
    BY Zenon, <1>0, <1>2, OpensFacts DEF GetAnswer
  <2>2. CASE UNCHANGED called
    BY Zenon, <1>0, <2>1, <2>2 DEF called, IInv, Types, Owned, CacheIsCurrent, PendingWritesHaveAnOwner, InBlock
  <2>3. CASE RequestRead(t) /\ ~(Submits(t) /\ CacheHit(t))
    <3> DEFINE r == IF IsCommittedRead(t) THEN CommittedRead(st) ELSE Read(st)
    <3>1. r.ok \in BOOLEAN /\ r.store = st /\ Replying(r)
      BY Zenon, <1>0, ReadFacts DEF Types, Replying
    <3>2. PICK e \in Ends(t, r) :
             /\ Called(t, e, FALSE)
             /\ cache' = IF ~e.ok THEN NoAnswer ELSE IF Cacheable(t) THEN Answer(t) ELSE cache
      BY Zenon, <2>3 DEF RequestRead
    <3> HIDE DEF r
    <3>3. /\ e.ok \in BOOLEAN /\ e.alive \in BOOLEAN /\ e.interrupted \in BOOLEAN
          /\ e.store = st /\ (e.alive => alive) /\ (e.ok => Submits(t))
      BY Zenon, <1>0, <3>1, EndsFacts
    <3>4. st' = st /\ alive' \in BOOLEAN /\ (alive' => alive)
      BY Zenon, <3>2, <3>3 DEF Called
    <3>5. interrupted' \in [Threads -> BOOLEAN]
      BY Zenon, <1>0, <3>2, <3>3 DEF Called, Types
    <3>6. e.ok /\ Cacheable(t) => Answer(t) = st.graph
      BY Zenon, <2>3, <3>3 DEF Answer, Cacheable, CacheHit
    <3>7. CacheIsCurrent'
      BY Zenon, <1>0, <3>2, <3>3, <3>4, <3>6 DEF CacheIsCurrent
    <3> QED
      BY Zenon, <1>0, <2>1, <3>4, <3>5, <3>7 DEF IInv, Types, Owned, PendingWritesHaveAnOwner, InBlock
  <2> QED
    BY Zenon, <1>2, <2>2, <2>3 DEF GetAnswer
<1>3. ASSUME NEW t \in Threads, CommitTx(t) \/ RollbackTx(t) PROVE IInv'
  <2>1. PICK r \in {Commit(st), CommitFails(st), Rollback(st)} : Finish(t, r, FALSE)
    BY Zenon, <1>3 DEF CommitTx, RollbackTx
  <2>2. UNCHANGED <<closed, lease, pc, job, writes>> /\ lease = Nobody
    BY Zenon, <1>3 DEF CommitTx, RollbackTx
  <2>3. /\ st' \in Stores /\ alive' \in BOOLEAN /\ interrupted' \in [Threads -> BOOLEAN]
        /\ writeOwner' \in Threads \cup {Nobody} /\ open' \in [Threads -> BOOLEAN]
        /\ CacheIsCurrent' /\ PendingWritesHaveAnOwner'
    BY Zenon, <2>1, FinishSteps
  <2>4. pc \notin {"atomic", "failing", "undoing"}
    BY Zenon, <1>0, <2>2 DEF Owned
  <2> QED
    BY Zenon, <1>0, <2>2, <2>3, <2>4 DEF IInv, Types, Owned
<1>4. ASSUME NEW t \in Threads, NEW bulk \in BOOLEAN, Enter(t, bulk) PROVE IInv'
  <2>1. job' \in Jobs
    <3>1. open[t] \in BOOLEAN /\ st.graph \in SUBSET Nat /\ st.savepoints \in Seq(Blocks)
      BY Zenon, <1>0 DEF Types, Stores
    <3>2. NoJob \in Jobs
      BY DEF NoJob, Jobs
    <3> QED
      BY Zenon, <1>4, <3>1, <3>2 DEF Enter, Jobs
  <2> QED
    BY Zenon, <1>0, <1>4, <2>1 DEF Enter, IInv, Types, Owned, CacheIsCurrent, PendingWritesHaveAnOwner, InBlock
<1>5. ASSUME NEW t \in Threads, TakeSavepoint(t) PROVE IInv'
  <2>1. PICK e \in Ends(t, Savepoint(st)) :
          /\ Sent(t, e, FALSE)
          /\ job' = [job EXCEPT !.id = st.next_savepoint]
          /\ IF e.ok THEN pc' = "atomic" /\ UNCHANGED lease ELSE After(t, FALSE)
    BY Zenon, <1>5 DEF TakeSavepoint
  <2>2. Replying(Savepoint(st)) /\ (Savepoint(st).ok => InBlock(Savepoint(st).store))
    <3>1. 0 \in Nat
      BY Zenon
    <3> QED
      BY Zenon, <1>0, <3>1, SavepointFacts DEF Types
  <2>3. /\ st' \in Stores /\ alive' \in BOOLEAN /\ interrupted' \in [Threads -> BOOLEAN]
        /\ CacheIsCurrent'
    BY Zenon, <2>1, <2>2, SentFacts
  <2>4. /\ writeOwner' \in Threads \cup {Nobody} /\ PendingWritesHaveAnOwner'
        /\ e.ok => writeOwner' = t
    BY Zenon, <1>5, <2>1, <2>2, ClaimSteps DEF TakeSavepoint
  <2>5. e.ok \in BOOLEAN /\ (e.ok => InBlock(st'))
    BY <1>0, <2>1, <2>2, EndsFacts DEF Sent, Called
  <2>6. /\ lease = t /\ UNCHANGED <<closed, writes>>
        /\ job' \in Jobs /\ open' \in [Threads -> BOOLEAN]
    <3>1. st.next_savepoint \in Nat
      BY Zenon, <1>0 DEF Types, Stores
    <3>2. job' \in Jobs
      BY Zenon, <1>0, <2>1, <3>1 DEF Types, Jobs
    <3>3. open' \in [Threads -> BOOLEAN]
      BY Zenon, <1>0, <1>5, OpensFacts DEF TakeSavepoint
    <3> QED
      BY Zenon, <1>5, <3>2, <3>3 DEF TakeSavepoint
  <2>7. CASE e.ok
    BY Zenon, <1>0, <2>1, <2>3, <2>4, <2>5, <2>6, <2>7, NobodyAssumption DEF IInv, Types, Owned
  <2>8. CASE ~e.ok
    BY Zenon, <1>0, <2>1, <2>3, <2>4, <2>6, <2>8 DEF IInv, Types, Owned, After
  <2> QED
    BY Zenon, <2>5, <2>7, <2>8
<1>6. ASSUME NEW t \in Threads, AtomicWrite(t) PROVE IInv'
  <2>0. PICK reply \in Replies : \E e \in Ends(t, reply) :
          Sent(t, e, FALSE) /\ pc' \in {pc} \cup (IF e.ok THEN {} ELSE {"failing"})
    BY Zenon, <1>6 DEF AtomicWrite
  <2>1. PICK e \in Ends(t, reply) : Sent(t, e, FALSE) /\ pc' \in {pc, "failing"}
    BY Zenon, <2>0
  <2>2. /\ st' \in Stores /\ st' \in {st, reply.store} /\ alive' \in BOOLEAN /\ (alive' => alive)
        /\ interrupted' \in [Threads -> BOOLEAN] /\ CacheIsCurrent'
    BY Zenon, <1>a, <2>1, SentFacts
  <2>3. /\ lease = t /\ pc = "atomic" /\ UNCHANGED <<closed, lease, writeOwner>>
        /\ writes' = writes + 1 /\ job' = [job EXCEPT !.wrote = @ \cup {writes + 1}] /\ open' = open
    BY Zenon, <1>6 DEF AtomicWrite
  <2>a. job' \in Jobs
    <3>1. job.wrote \cup {writes + 1} \in SUBSET Nat
      BY <1>0 DEF Types, Jobs
    <3> QED
      BY Zenon, <1>0, <2>3, <3>1 DEF Types, Jobs
  <2>4. writeOwner = t /\ t # Nobody
    BY Zenon, <1>0, <2>3, NobodyAssumption DEF Owned
  <2>5. alive' => InBlock(st')
    BY Zenon, <1>0, <1>a, <2>2, <2>3 DEF Owned
  <2> QED
    BY <1>0, <2>1, <2>2, <2>3, <2>a, <2>4, <2>5 DEF IInv, Types, Owned, PendingWritesHaveAnOwner
<1>7. ASSUME NEW t \in Threads, AtomicFinish(t) PROVE IInv'
  <2>1. PICK r \in {Commit(st), CommitFails(st), Rollback(st)} :
          Finish(t, r, FALSE)
    BY Zenon, <1>7 DEF AtomicFinish
  <2>2. UNCHANGED <<closed, lease, job, writes>> /\ lease = t /\ pc = "atomic" /\ pc' \in {"atomic", "failing"}
    BY Zenon, <1>7 DEF AtomicFinish
  <2>3. /\ st' \in Stores /\ alive' \in BOOLEAN /\ interrupted' \in [Threads -> BOOLEAN]
        /\ writeOwner' \in Threads \cup {Nobody} /\ open' \in [Threads -> BOOLEAN]
        /\ CacheIsCurrent' /\ PendingWritesHaveAnOwner'
        /\ (alive' => alive) /\ (~alive => writeOwner' = writeOwner)
        /\ (alive /\ InBlock(st) => writeOwner' = writeOwner /\ InBlock(st'))
    BY Zenon, <2>1, FinishSteps
  <2>4. writeOwner = t /\ t # Nobody /\ (alive => InBlock(st))
    BY Zenon, <1>0, <2>2, NobodyAssumption DEF Owned
  <2> QED
    BY Zenon, <1>0, <2>2, <2>3, <2>4 DEF IInv, Types, Owned
<1>8. ASSUME NEW t \in Threads, AtomicThrows(t) PROVE IInv'
  BY Zenon, <1>0, <1>8 DEF AtomicThrows, IInv, Types, Owned, CacheIsCurrent, PendingWritesHaveAnOwner, InBlock
<1>9. ASSUME NEW t \in Threads, ReleaseSavepoint(t) PROVE IInv'
  <2>1. PICK e \in Ends(t, Release(st, job.id)) :
          /\ Sent(t, e, FALSE)
          /\ IF e.ok THEN After(t, TRUE) ELSE pc' = "failing" /\ UNCHANGED lease
    BY Zenon, <1>9 DEF ReleaseSavepoint
  <2>2. Replying(Release(st, job.id))
    BY Zenon, <1>b, SavepointFacts
  <2>3. /\ st' \in Stores /\ alive' \in BOOLEAN /\ interrupted' \in [Threads -> BOOLEAN]
        /\ CacheIsCurrent'
    BY Zenon, <2>1, <2>2, SentFacts
  <2>4. lease = t /\ pc = "atomic" /\ UNCHANGED <<closed, writeOwner, open, job, writes>>
    BY Zenon, <1>9 DEF ReleaseSavepoint
  <2>5. writeOwner = t /\ t # Nobody
    BY Zenon, <1>0, <2>4, NobodyAssumption DEF Owned
  <2>6. /\ pc' \in {"idle", "loaded", "unloading", "failing"} /\ lease' \in {t, Nobody}
        /\ pc' = "failing" => lease' = t
    BY Zenon, <2>1, <2>4 DEF After
  <2> QED
    BY Zenon, <1>0, <2>3, <2>4, <2>5, <2>6 DEF IInv, Types, Owned, PendingWritesHaveAnOwner
<1>10. ASSUME NEW t \in Threads, CatchFailure(t) \/ CatchLoad(t) PROVE IInv'
  <2>1. job' = [job EXCEPT !.was = interrupted[t]] /\ interrupted' = [interrupted EXCEPT ![t] = FALSE]
    BY Zenon, <1>10 DEF CatchFailure, CatchLoad
  <2>2. job' \in Jobs /\ interrupted' \in [Threads -> BOOLEAN]
    BY Zenon, <1>0, <2>1 DEF Types, Jobs
  <2> QED
    BY <1>0, <1>10, <2>2 DEF CatchFailure, CatchLoad, IInv, Types, Owned, CacheIsCurrent,
                              PendingWritesHaveAnOwner, InBlock
<1>11. ASSUME NEW t \in Threads, Undo(t) PROVE IInv'
  <2>1. PICK e \in Ends(t, RollbackTo(st, job.id)) : Sent(t, e, job.was)
    BY Zenon, <1>11 DEF Undo
  <2>2. Replying(RollbackTo(st, job.id))
    BY Zenon, <1>b, SavepointFacts
  <2>3. /\ st' \in Stores /\ alive' \in BOOLEAN /\ interrupted' \in [Threads -> BOOLEAN]
        /\ CacheIsCurrent'
    BY Zenon, <1>b, <2>1, <2>2, SentFacts
  <2>4. lease = t /\ pc = "undoing" /\ UNCHANGED <<closed, writeOwner, open, job, writes>> /\ After(t, FALSE)
    BY Zenon, <1>11 DEF Undo
  <2>5. writeOwner = t /\ t # Nobody
    BY Zenon, <1>0, <2>4, NobodyAssumption DEF Owned
  <2>6. pc' \in {"idle", "unloading"} /\ lease' \in {t, Nobody}
    BY Zenon, <2>4 DEF After
  <2> QED
    BY Zenon, <1>0, <2>3, <2>4, <2>5, <2>6 DEF IInv, Types, Owned, PendingWritesHaveAnOwner
<1>12. ASSUME NEW t \in Threads, CommitLoad(t) \/ UndoLoad(t) PROVE IInv'
  <2>1. PICK r \in {Commit(st), CommitFails(st), Rollback(st)},
             flag \in {FALSE, job.was} : Finish(t, r, flag)
    BY Zenon, <1>12 DEF CommitLoad, UndoLoad
  <2>2. /\ UNCHANGED <<closed, job, writes>> /\ lease = t /\ lease' \in {t, Nobody}
        /\ pc' \in {"idle", "unloading"}
    BY Zenon, <1>12 DEF CommitLoad, UndoLoad
  <2>3. /\ st' \in Stores /\ alive' \in BOOLEAN /\ interrupted' \in [Threads -> BOOLEAN]
        /\ writeOwner' \in Threads \cup {Nobody} /\ open' \in [Threads -> BOOLEAN]
        /\ CacheIsCurrent' /\ PendingWritesHaveAnOwner'
    <3>1. flag \in BOOLEAN
      BY Zenon, <1>b
    <3> QED
      BY Zenon, <2>1, <3>1, FinishSteps
  <2> QED
    BY Zenon, <1>0, <2>2, <2>3 DEF IInv, Types, Owned
<1>13. ASSUME NEW t \in Threads, Interrupt(t) \/ ClearInterrupt(t) PROVE IInv'
  <2>1. interrupted' \in [Threads -> BOOLEAN]
    BY Zenon, <1>0, <1>13 DEF Interrupt, ClearInterrupt, Types
  <2>2. UNCHANGED <<st, alive, closed, lease, writeOwner, open, cache, pc, job, writes>>
    BY Zenon, <1>13 DEF Interrupt, ClearInterrupt
  <2> QED
    BY Zenon, <1>0, <2>1, <2>2 DEF IInv, Types, Owned, CacheIsCurrent, PendingWritesHaveAnOwner, InBlock
<1>14. CASE Abort
  BY Zenon, <1>0, <1>14 DEF Abort, IInv, Types, Owned, CacheIsCurrent, PendingWritesHaveAnOwner
<1>15. CASE UNCHANGED vars
  BY Zenon, <1>0, <1>15 DEF vars, IInv, Types, Owned, CacheIsCurrent, PendingWritesHaveAnOwner, InBlock
<1> QED
  BY Zenon, <1>1, <1>2, <1>3, <1>4, <1>5, <1>6, <1>7, <1>8, <1>9, <1>10, <1>11, <1>12, <1>13, <1>14, <1>15 DEF Next

\* Uncommitted writes always have an owner, for any threads and wherever
\* interrupts and the loss of the process hit: no thread commits or reads the
\* leftovers of another.
THEOREM PendingWritesAreOwned == Spec => []PendingWritesHaveAnOwner
<1>1. IInv => PendingWritesHaveAnOwner
  BY Zenon DEF IInv
<1> QED
  BY <1>1, InitInv, StepInv, PTL DEF Spec

\* Every read is answered from the view it belongs to, as that view is now.
THEOREM ReadsAreAlwaysExact == Spec => []ReadsAreExact
<1>1. IInv => ReadsAreExact
  BY Zenon, NobodyAssumption DEF IInv, Types, ReadsAreExact, CacheIsCurrent, Answer, CacheHit, Cacheable,
                          IsCommittedRead, MayWrite
<1> QED
  BY <1>1, InitInv, StepInv, PTL DEF Spec
-----------------------------------------------------------------------------
(***************************************************************************)
(* Atomic mutations and bulk loads.                                         *)
(***************************************************************************)

\* Two stores have the same blocks, up to the mark of the innermost one.
SameBlocks(s, n) ==
    /\ InBlock(n) = InBlock(s)
    /\ InBlock(s) => /\ Enclosing(n) = Enclosing(s)
                     /\ Innermost(n).id = Innermost(s).id
                     /\ Innermost(n).graph = Innermost(s).graph
SameGraphs(s, n) == n.graph = s.graph /\ n.checkpoint = s.checkpoint

\* A block put on top of others is the innermost one.
LEMMA PushedBlock ==
    ASSUME NEW q \in Seq(Blocks), NEW b \in Blocks, NEW s, s.savepoints = Append(q, b)
    PROVE  InBlock(s) /\ Enclosing(s) = q /\ Innermost(s) = b
<1> DEFINE a == Append(q, b)
<1>1. a \in Seq(Blocks) /\ Len(a) = Len(q) + 1 /\ Len(q) \in Nat /\ a[Len(q) + 1] = b
      /\ \A i \in 1 .. Len(q) : a[i] = q[i]
  OBVIOUS
<1>2. a # <<>>
  <2>1. Len(a) # Len(<<>>)
    BY <1>1
  <2> QED
    BY Zenon, <2>1
<1>3. SubSeq(a, 1, Len(q)) = q
  <2> DEFINE f == SubSeq(a, 1, Len(q))
  <2>1. f \in Seq(Blocks) /\ Len(f) = Len(q) /\ \A i \in 1 .. Len(q) : f[i] = a[i]
    BY <1>1
  <2> QED
    BY <1>1, <2>1, SeqEqual
<1>4. Len(a) - 1 = Len(q)
  BY <1>1
<1> QED
  BY Zenon, <1>1, <1>2, <1>3, <1>4 DEF InBlock, Enclosing, Innermost

\* A failure marks the innermost block and changes nothing else.
LEMMA FailureMarks ==
    ASSUME NEW s \in Stores
    PROVE  LET n == Failed(s).store IN
           /\ SameBlocks(s, n) /\ SameGraphs(s, n)
           /\ InBlock(s) => Poisoned(n)
<1>1. CASE InBlock(s)
  <2> DEFINE b == [Innermost(s) EXCEPT !.failed = TRUE]
             n == [s EXCEPT !.savepoints = Append(Enclosing(s), b)]
  <2>1. Innermost(s) \in Blocks /\ Enclosing(s) \in Seq(Blocks)
    BY Zenon, <1>1, BlockFacts
  <2>2. b \in Blocks /\ b.id = Innermost(s).id /\ b.graph = Innermost(s).graph /\ b.failed
    BY Zenon, <2>1 DEF Blocks
  <2> HIDE DEF b
  <2>3. /\ n.savepoints = Append(Enclosing(s), b)
        /\ n.graph = s.graph /\ n.checkpoint = s.checkpoint
    BY Zenon DEF Stores
  <2>4. Failed(s).store = n
    BY Zenon, <1>1 DEF Failed, Refused, b
  <2> HIDE DEF n
  <2>5. InBlock(n) /\ Enclosing(n) = Enclosing(s) /\ Innermost(n) = b
    BY Zenon, <2>1, <2>2, <2>3, PushedBlock
  <2> QED
    BY Zenon, <1>1, <2>2, <2>3, <2>4, <2>5 DEF SameBlocks, SameGraphs, Poisoned
<1>2. CASE ~InBlock(s)
  BY Zenon, <1>2 DEF Failed, Refused, SameBlocks, SameGraphs
<1> QED
  BY Zenon, <1>1, <1>2

\* What a reply r to the mutation numbered n says of a session s with graph g.
Mutated(s, g, n, r) ==
    /\ SameBlocks(s, r.store) /\ r.store.checkpoint = s.checkpoint
    /\ r.store.graph \in {g, g \cup {n}}
    /\ r.ok \in BOOLEAN
    /\ r.ok => ~Poisoned(s) /\ r.store.graph = g \cup {n}
    /\ InBlock(s) /\ ~r.ok => Poisoned(r.store)

\* A mutation inside a block: what failed has marked the block.
LEMMA MutationReplies ==
    ASSUME NEW s \in Stores, NEW g \in SUBSET Nat, NEW n \in Nat, g = s.graph,
           NEW h \in {g, g \cup {n}}, NEW r \in {Mutate(s, g \cup {n}), MutationFails(s, h)}
    PROVE  Mutated(s, g, n, r)
<1> USE DEF Mutated
<1>0. ~s.closed
  BY Zenon DEF Stores
<1>1. ASSUME NEW k \in {g, g \cup {n}}
      PROVE  LET w == [s EXCEPT !.graph = k] IN
             /\ w \in Stores /\ w.graph = k /\ w.checkpoint = s.checkpoint
             /\ w.savepoints = s.savepoints
  BY Zenon, <1>1 DEF Stores
<1>2. CASE Poisoned(s)
  <2>1. r = Refused(s)
    BY Zenon, <1>2 DEF Mutate, MutationFails, Request
  <2> QED
    BY Zenon, <1>2, <2>1 DEF Refused, SameBlocks
<1>3. CASE ~Poisoned(s) /\ r = Mutate(s, g \cup {n})
  <2> DEFINE w == [s EXCEPT !.graph = g \cup {n}]
  <2>1. r = Done(w)
    BY Zenon, <1>0, <1>3 DEF Mutate, Request
  <2>2. w.savepoints = s.savepoints /\ w.graph = g \cup {n} /\ w.checkpoint = s.checkpoint
    BY Zenon, <1>1
  <2> HIDE DEF w
  <2>3. r.ok = TRUE /\ r.store = w
    BY Zenon, <2>1 DEF Done
  <2>4. SameBlocks(s, w)
    BY Zenon, <2>2 DEF SameBlocks, InBlock, Enclosing, Innermost
  <2> QED
    BY Zenon, <1>3, <2>2, <2>3, <2>4
<1>4. ASSUME ~Poisoned(s), r = MutationFails(s, h)
      PROVE  /\ SameBlocks(s, r.store) /\ r.store.checkpoint = s.checkpoint
             /\ r.store.graph \in {g, h} /\ ~r.ok /\ r.ok \in BOOLEAN
             /\ InBlock(s) => Poisoned(r.store)
  <2> DEFINE w == [s EXCEPT !.graph = h]
  <2>1. /\ w \in Stores /\ w.graph = h /\ w.checkpoint = s.checkpoint
        /\ w.savepoints = s.savepoints
    BY Zenon, <1>1
  <2>2. r = IF InBlock(s) THEN Failed(w) ELSE Refused(s)
    BY Zenon, <1>0, <1>4 DEF MutationFails, Request
  <2> HIDE DEF w
  <2>3. InBlock(w) = InBlock(s) /\ Enclosing(w) = Enclosing(s) /\ Innermost(w) = Innermost(s)
    BY Zenon, <2>1 DEF InBlock, Enclosing, Innermost
  <2>4. CASE InBlock(s)
    <3>1. /\ SameBlocks(w, Failed(w).store) /\ SameGraphs(w, Failed(w).store) /\ Poisoned(Failed(w).store)
          /\ ~Failed(w).ok /\ Failed(w).ok \in BOOLEAN
      BY Zenon, <2>1, <2>3, <2>4, FailureMarks, FailedFacts DEF Replying
    <3> QED
      BY Zenon, <2>1, <2>2, <2>3, <2>4, <3>1 DEF SameBlocks, SameGraphs
  <2>5. CASE ~InBlock(s)
    BY Zenon, <2>2, <2>5 DEF Refused, SameBlocks
  <2> QED
    BY Zenon, <2>4, <2>5
<1> QED
  BY Zenon, <1>2, <1>3, <1>4

\* Commit and rollback are refused inside a block and mark it; outside they
\* move one of the graphs to the other.
LEMMA FinishReplies ==
    ASSUME NEW s \in Stores, NEW r \in {Commit(s), CommitFails(s), Rollback(s)}
    PROVE  /\ SameBlocks(s, r.store)
           /\ InBlock(s) => SameGraphs(s, r.store) /\ Poisoned(r.store) /\ ~r.ok
           /\ r.store.checkpoint \in {s.graph, s.checkpoint}
           /\ r.store.graph \in {s.graph, s.checkpoint}
<1>0. ~s.closed
  BY Zenon DEF Stores
<1>1. CASE Poisoned(s)
  <2>1. r = Refused(s)
    BY Zenon, <1>1 DEF Commit, CommitFails, Rollback, Request
  <2> QED
    BY Zenon, <1>1, <2>1 DEF Refused, SameBlocks, SameGraphs
<1>2. CASE ~Poisoned(s) /\ r = Failed(s)
  BY Zenon, <1>2, FailureMarks, FailedFacts DEF SameGraphs
<1>3. CASE ~Poisoned(s) /\ r # Failed(s)
  <2>1. /\ ~InBlock(s)
        /\ r \in {Done([s EXCEPT !.checkpoint = s.graph]), Done([s EXCEPT !.graph = s.checkpoint])}
    BY Zenon, <1>0, <1>3 DEF Commit, CommitFails, Rollback, Request
  <2>2. r.store \in {[s EXCEPT !.checkpoint = s.graph], [s EXCEPT !.graph = s.checkpoint]}
    BY <2>1 DEF Done
  <2>3. /\ r.store.savepoints = s.savepoints
        /\ r.store.checkpoint \in {s.graph, s.checkpoint}
        /\ r.store.graph \in {s.graph, s.checkpoint}
    BY Zenon, <2>2 DEF Stores
  <2> QED
    BY Zenon, <2>1, <2>3 DEF SameBlocks, InBlock
<1> QED
  BY Zenon, <1>1, <1>2, <1>3

\* A savepoint is a block on top of the others, from the graph as it is.
LEMMA SavepointReplies ==
    ASSUME NEW s \in Stores
    PROVE  LET r == Savepoint(s) IN
           /\ SameGraphs(s, r.store)
           /\ ~r.ok => r.store = s
           /\ r.ok => /\ InBlock(r.store) /\ Enclosing(r.store) = s.savepoints
                      /\ Innermost(r.store).id = s.next_savepoint
                      /\ Innermost(r.store).graph = s.graph
<1> DEFINE b == [id |-> s.next_savepoint, graph |-> s.graph, failed |-> FALSE]
           n == [s EXCEPT !.savepoints = Append(@, b), !.next_savepoint = @ + 1]
<1>0. ~s.closed
  BY Zenon DEF Stores
<1>1. CASE Poisoned(s)
  BY Zenon, <1>1 DEF Savepoint, Request, Refused, SameGraphs
<1>2. CASE ~Poisoned(s)
  <2>1. Savepoint(s) = Done(n)
    BY Zenon, <1>0, <1>2 DEF Savepoint, Request
  <2>2. b \in Blocks /\ b.id = s.next_savepoint /\ b.graph = s.graph
    BY Zenon DEF Blocks, Stores
  <2> HIDE DEF b
  <2>3. n.savepoints = Append(s.savepoints, b) /\ n.graph = s.graph /\ n.checkpoint = s.checkpoint
    BY Zenon DEF Stores
  <2> HIDE DEF n
  <2>4. s.savepoints \in Seq(Blocks)
    BY Zenon DEF Stores
  <2>5. InBlock(n) /\ Enclosing(n) = s.savepoints /\ Innermost(n) = b
    BY Zenon, <2>2, <2>3, <2>4, PushedBlock
  <2>6. Done(n).ok = TRUE /\ Done(n).store = n
    BY Zenon DEF Done
  <2> QED
    BY Zenon, <2>1, <2>2, <2>3, <2>5, <2>6 DEF SameGraphs
<1> QED
  BY Zenon, <1>1, <1>2

\* Release completes the innermost block and keeps what it wrote, rollbackTo
\* completes it and restores its graph; otherwise they only mark a block.
LEMMA CompletionReplies ==
    ASSUME NEW s \in Stores, NEW id \in Nat
    PROVE  LET u == RollbackTo(s, id)
               l == Release(s, id)
           IN
           /\ u.store.checkpoint = s.checkpoint
           /\ IsInnermost(s, id) => /\ u.store.savepoints = Enclosing(s)
                                    /\ u.store.graph = Innermost(s).graph
           /\ ~IsInnermost(s, id) => SameBlocks(s, u.store) /\ SameGraphs(s, u.store)
           /\ SameGraphs(s, l.store)
           /\ \/ SameBlocks(s, l.store) /\ ~l.ok /\ (InBlock(s) => Poisoned(l.store))
              \/ l.store.savepoints = Enclosing(s) /\ IsInnermost(s, id) /\ ~Poisoned(s)
<1>0. ~s.closed
  BY Zenon DEF Stores
<1>1. /\ SameBlocks(s, Failed(s).store) /\ SameGraphs(s, Failed(s).store) /\ ~Failed(s).ok
      /\ InBlock(s) => Poisoned(Failed(s).store)
  BY Zenon, FailureMarks, FailedFacts
<1>2. /\ Refused(s).store = s /\ Refused(s).ok = FALSE
      /\ SameBlocks(s, s) /\ SameGraphs(s, s)
  BY Zenon DEF Refused, SameBlocks, SameGraphs
<1> DEFINE w == [s EXCEPT !.savepoints = Enclosing(s), !.graph = Innermost(s).graph]
           v == [s EXCEPT !.savepoints = Enclosing(s)]
<1>3. /\ w.savepoints = Enclosing(s) /\ w.graph = Innermost(s).graph /\ w.checkpoint = s.checkpoint
      /\ v.savepoints = Enclosing(s) /\ v.graph = s.graph /\ v.checkpoint = s.checkpoint
  BY Zenon DEF Stores
<1>4. RollbackTo(s, id) = IF IsInnermost(s, id) THEN Done(w) ELSE Failed(s)
  BY Zenon, <1>0 DEF RollbackTo
<1>5. Release(s, id) = IF Poisoned(s) THEN Refused(s)
                       ELSE IF IsInnermost(s, id) THEN Done(v) ELSE Failed(s)
  BY Zenon, <1>0 DEF Release, Request
<1> HIDE DEF w, v
<1>6. Done(w).store = w /\ Done(v).store = v /\ Done(v).ok = TRUE
  BY Zenon DEF Done
<1>7. RollbackTo(s, id).store = IF IsInnermost(s, id) THEN w ELSE Failed(s).store
  BY Zenon, <1>4, <1>6
<1>8. \/ Release(s, id) = Refused(s) /\ Poisoned(s)
      \/ Release(s, id).store = v /\ IsInnermost(s, id) /\ ~Poisoned(s)
      \/ Release(s, id) = Failed(s)
  BY Zenon, <1>5, <1>6
<1> QED
  BY Zenon, <1>1, <1>2, <1>3, <1>7, <1>8 DEF SameGraphs
\* The writes that a graph, and the blocks of a store, are made of.
GraphsIn(q, N) == \A i \in 1 .. Len(q) : q[i].graph \subseteq N
Bounded(s, N) == s.graph \subseteq N /\ s.checkpoint \subseteq N /\ GraphsIn(s.savepoints, N)

\* The blocks before the last.
LEMMA FrontFacts ==
    ASSUME NEW q \in Seq(Blocks), NEW k \in Nat, Len(q) = k + 1
    PROVE  Len(SubSeq(q, 1, k)) = k /\ \A i \in 1 .. k : SubSeq(q, 1, k)[i] = q[i]
OBVIOUS

\* The blocks are the innermost one and those around it.
LEMMA GraphsInSplit ==
    ASSUME NEW s \in Stores, InBlock(s), NEW N
    PROVE  GraphsIn(s.savepoints, N) <=> GraphsIn(Enclosing(s), N) /\ Innermost(s).graph \subseteq N
<1> DEFINE q == s.savepoints
           f == SubSeq(q, 1, Len(q) - 1)
<1>1. q \in Seq(Blocks) /\ q # <<>>
  BY Zenon DEF Stores, InBlock
<1> HIDE DEF q
<1>2. Len(q) \in Nat \ {0}
  BY <1>1
<1>3. Len(f) = Len(q) - 1 /\ \A i \in 1 .. Len(q) - 1 : f[i] = q[i]
  <2>1. PICK k \in Nat : Len(q) = k + 1
    BY <1>2
  <2>2. Len(q) - 1 = k
    BY <2>1
  <2> QED
    BY Zenon, <1>1, <2>1, <2>2, FrontFacts
<1> HIDE DEF f
<1>4. \A i \in 1 .. Len(q) : i = Len(q) \/ i \in 1 .. Len(q) - 1
  BY <1>2
<1>5. Len(q) \in 1 .. Len(q) /\ 1 .. Len(q) - 1 \subseteq 1 .. Len(q)
  BY <1>2
<1>6. GraphsIn(q, N) <=> GraphsIn(f, N) /\ q[Len(q)].graph \subseteq N
  BY Zenon, <1>3, <1>4, <1>5 DEF GraphsIn
<1> QED
  BY Zenon, <1>6 DEF Enclosing, Innermost, q, f

\* A step on the blocks brings in no graph but the ones given.
LEMMA BoundedStep ==
    ASSUME NEW s \in Stores, NEW n \in Stores, NEW N, Bounded(s, N),
           n.graph \subseteq N, n.checkpoint \subseteq N,
           \/ SameBlocks(s, n)
           \/ InBlock(s) /\ n.savepoints = Enclosing(s)
           \/ InBlock(n) /\ Enclosing(n) = s.savepoints /\ Innermost(n).graph = s.graph
    PROVE  Bounded(n, N)
<1>1. CASE SameBlocks(s, n) /\ InBlock(s)
  BY Zenon, <1>1, GraphsInSplit DEF Bounded, SameBlocks
<1>2. CASE SameBlocks(s, n) /\ ~InBlock(s)
  BY Zenon, <1>2 DEF Bounded, SameBlocks, InBlock
<1>3. CASE InBlock(s) /\ n.savepoints = Enclosing(s)
  BY Zenon, <1>3, GraphsInSplit DEF Bounded
<1>4. CASE InBlock(n) /\ Enclosing(n) = s.savepoints /\ Innermost(n).graph = s.graph
  BY Zenon, <1>4, GraphsInSplit DEF Bounded
<1> QED
  BY Zenon, <1>1, <1>2, <1>3, <1>4

-----------------------------------------------------------------------------
\* The job is a load that opened the transaction; Inside its block.
Load == job.bulk /\ ~job.had
Inside == pc \in {"atomic", "failing", "undoing"}
AllOrNone(g) == job.wrote \cap g \in {{}, job.wrote}

\* The innermost block is the job's, and is what it found when it entered.
Mine ==
    /\ InBlock(st) /\ Enclosing(st) = job.blocks
    /\ Innermost(st).id = job.id /\ Innermost(st).graph = job.from

\* Writes are numbered as they are made; the writer's transaction is open.
Numbered ==
    /\ interrupts \in Nat
    /\ Bounded(st, 1 .. writes) /\ job.wrote \subseteq 1 .. writes
    /\ writeOwner # Nobody => open[writeOwner]
    /\ closed => ~alive
    /\ (lease = Nobody) = (pc = "idle")

\* Until the release is executed the job's block is open, from the graph and
\* on top of the blocks that the job found.
BlockIsMine ==
    alive => /\ pc = "entered" => st.graph = job.from /\ st.savepoints = job.blocks
             /\ pc = "atomic" => Mine
             /\ pc \in {"failing", "undoing"} => Mine \/ st.savepoints = job.blocks

\* What a load wrote can be in the graph in part only while its block is open;
\* when the block can still be released it is there as a whole.
LoadIsWhole ==
    Load => /\ AllOrNone(st.checkpoint)
            /\ pc = "entered" => job.wrote = {}
            /\ Inside => job.wrote \cap st.checkpoint = {}
            /\ alive /\ ~InBlock(st) => AllOrNone(st.graph)
            /\ alive /\ (Inside \/ pc = "entered") => job.blocks = <<>> /\ job.from \cap job.wrote = {}
            /\ alive /\ pc = "atomic" /\ ~interrupted[lease] /\ ~Poisoned(st) => job.wrote \subseteq st.graph

LInv == Numbered /\ BlockIsMine /\ LoadIsWhole

\* How a request ends, and what an end says about the reply.
LEMMA EndsMore ==
    ASSUME Types, NEW t \in Threads, NEW r, Replying(r), NEW e \in Ends(t, r)
    PROVE  /\ ~Submits(t) => e.store = st /\ ~e.ok /\ e.alive = alive /\ e.interrupted = interrupted[t]
           /\ Submits(t) /\ e.alive => e.store = r.store /\ (e.ok \/ ~r.ok \/ e.interrupted)
           /\ e.ok => r.ok
<1> DEFINE end(ok, s, a, i) == [ok |-> ok, store |-> s, alive |-> a, interrupted |-> i]
<1>1. CASE ~Submits(t)
  <2>1. e = end(FALSE, st, alive, interrupted[t])
    BY Zenon, <1>1 DEF Ends
  <2> QED
    BY Zenon, <1>1, <2>1 DEF Types
<1>2. CASE Submits(t)
  <2>2. \/ e = end(r.ok, r.store, TRUE, FALSE)
        \/ \E s \in {st, r.store} : e = end(FALSE, s, FALSE, FALSE)
        \/ e = end(FALSE, r.store, TRUE, TRUE)
    BY Zenon, <1>2 DEF Ends
  <2>3. CASE e = end(r.ok, r.store, TRUE, FALSE)
    BY Zenon, <1>2, <2>3 DEF Replying
  <2>4. CASE \E s \in {st, r.store} : e = end(FALSE, s, FALSE, FALSE)
    BY <1>2, <2>4
  <2>5. CASE e = end(FALSE, r.store, TRUE, TRUE)
    BY Zenon, <1>2, <2>5
  <2> QED
    BY Zenon, <2>2, <2>3, <2>4, <2>5
<1> QED
  BY Zenon, <1>1, <1>2

\* A request that ends while the process lives: it was executed, or its thread
\* was interrupted before it and still is.
LEMMA CalledFacts ==
    ASSUME Types, Numbered, NEW t \in Threads, NEW r, Replying(r), NEW e \in Ends(t, r),
           NEW flag \in BOOLEAN, Called(t, e, flag)
    PROVE  /\ st' \in Stores /\ st' \in {st, r.store} /\ (alive' => alive)
           /\ st' # st => alive
           /\ e.ok \in BOOLEAN
           /\ e.ok => st' = r.store /\ r.ok /\ alive /\ Submits(t)
           /\ alive' => \/ st' = r.store /\ Submits(t)
                        \/ st' = st /\ interrupted[t] /\ interrupted'[t] /\ ~e.ok
           /\ alive' /\ ~e.ok => ~r.ok \/ interrupted'[t]
           /\ alive' /\ ~e.ok /\ Submits(t) => ~r.ok \/ interrupts' # interrupts
           /\ \A x \in Threads : ~interrupted'[x] => ~interrupted[x]
           /\ interrupts' \in Nat
<1>1. /\ e.ok \in BOOLEAN /\ e.alive \in BOOLEAN /\ e.interrupted \in BOOLEAN
      /\ e.store \in Stores /\ e.store \in {st, r.store}
      /\ e.alive => alive
      /\ e.ok => Submits(t) /\ r.ok /\ e.store = r.store
      /\ ~Submits(t) => e.store = st
  BY Zenon, EndsFacts
<1>2. /\ ~Submits(t) => ~e.ok /\ e.alive = alive /\ e.interrupted = interrupted[t]
      /\ Submits(t) /\ e.alive => e.store = r.store /\ (e.ok \/ ~r.ok \/ e.interrupted)
  BY EndsMore
<1>3. /\ st' = e.store /\ alive' = e.alive
      /\ interrupted' = [interrupted EXCEPT ![t] = flag \/ e.interrupted]
      /\ interrupts' = IF e.interrupted /\ ~interrupted[t] THEN interrupts + 1 ELSE interrupts
  BY Zenon DEF Called
<1>4. interrupted \in [Threads -> BOOLEAN] /\ interrupts \in Nat /\ (closed => ~alive) /\ alive \in BOOLEAN
  BY Zenon DEF Types, Numbered
<1>5. Submits(t) => alive /\ ~interrupted[t]
  BY Zenon DEF Submits
<1>6. ~Submits(t) /\ alive => interrupted[t]
  BY Zenon, <1>4 DEF Submits
<1>7. interrupted'[t] = (flag \/ e.interrupted) /\ \A x \in Threads : x # t => interrupted'[x] = interrupted[x]
  BY Zenon, <1>1, <1>3, <1>4
<1>8. \A x \in Threads : ~interrupted'[x] => ~interrupted[x]
  BY Zenon, <1>1, <1>2, <1>5, <1>7
<1>9. interrupts' \in Nat /\ (e.interrupted /\ ~interrupted[t] => interrupts' # interrupts)
  BY <1>3, <1>4
<1>10. alive' => \/ st' = r.store /\ Submits(t)
                 \/ st' = st /\ interrupted[t] /\ interrupted'[t] /\ ~e.ok
  BY Zenon, <1>1, <1>2, <1>3, <1>6, <1>7
<1>11. alive' /\ ~e.ok => ~r.ok \/ interrupted'[t]
  BY Zenon, <1>1, <1>2, <1>3, <1>6, <1>7
<1>12. alive' /\ ~e.ok /\ Submits(t) => ~r.ok \/ interrupts' # interrupts
  BY Zenon, <1>1, <1>2, <1>3, <1>5, <1>9
<1>13. st' # st => alive
  BY Zenon, <1>1, <1>3, <1>5
<1>14. e.ok => st' = r.store /\ r.ok /\ alive /\ Submits(t)
  BY Zenon, <1>1, <1>3, <1>5
<1>15. st' \in Stores /\ st' \in {st, r.store} /\ (alive' => alive)
  BY Zenon, <1>1, <1>3
<1> QED
  BY Zenon, <1>1, <1>8, <1>9, <1>10, <1>11, <1>12, <1>13, <1>14, <1>15
\* finish moves one graph to the other outside blocks and marks the block inside
\* one, and a writer it does not free keeps its transaction.
LEMMA FinishMore ==
    ASSUME IInv, LInv, NEW t \in Threads, NEW flag \in BOOLEAN,
           NEW r \in {Commit(st), CommitFails(st), Rollback(st)}, Finish(t, r, flag)
    PROVE  /\ Bounded(st', 1 .. writes) /\ interrupts' \in Nat
           /\ writeOwner' # Nobody => open'[writeOwner']
           /\ SameBlocks(st, st')
           /\ InBlock(st) => SameGraphs(st, st')
           /\ st'.checkpoint \in {st.graph, st.checkpoint}
           /\ st'.graph \in {st.graph, st.checkpoint}
           /\ st' # st => alive
           /\ alive' => alive
           /\ alive' /\ InBlock(st) /\ writeOwner = t => Poisoned(st') \/ interrupted'[t]
           /\ \A x \in Threads : ~interrupted'[x] => ~interrupted[x]
<1>0. /\ Types /\ Numbered /\ st \in Stores /\ Replying(r) /\ Bounded(st, 1 .. writes)
      /\ interrupts \in Nat /\ interrupted \in [Threads -> BOOLEAN] /\ open \in [Threads -> BOOLEAN]
      /\ writeOwner # Nobody => open[writeOwner]
      /\ writeOwner \in Threads \cup {Nobody}
  BY Zenon, FinishFacts DEF IInv, LInv, Types, Numbered
<1>1. /\ SameBlocks(st, r.store)
      /\ InBlock(st) => SameGraphs(st, r.store) /\ Poisoned(r.store) /\ ~r.ok
      /\ r.store.checkpoint \in {st.graph, st.checkpoint}
      /\ r.store.graph \in {st.graph, st.checkpoint}
  BY Zenon, <1>0, FinishReplies
<1>2. SameBlocks(st, st) /\ SameGraphs(st, st)
  BY Zenon DEF SameBlocks, SameGraphs
<1>3. CASE writeOwner # t
  <2>1. /\ UNCHANGED <<st, alive, interrupts, writeOwner>> /\ open' = [open EXCEPT ![t] = FALSE]
        /\ interrupted' = [interrupted EXCEPT ![t] = flag \/ @]
    BY Zenon, <1>3 DEF Finish
  <2>2. \A x \in Threads : ~interrupted'[x] => ~interrupted[x]
    BY Zenon, <1>0, <2>1
  <2>3. writeOwner' # Nobody => open'[writeOwner']
    BY Zenon, <1>0, <1>3, <2>1
  <2> QED
    BY Zenon, <1>0, <1>2, <1>3, <2>1, <2>2, <2>3
<1>4. CASE writeOwner = t
  <2>1. PICK e \in Ends(t, r) : /\ Sent(t, e, flag) /\ writeOwner' = Freed(e)
                                /\ open' = [open EXCEPT ![t] = @ /\ ~e.ok]
    BY Zenon, <1>4 DEF Finish
  <2>2. /\ st' \in Stores /\ st' \in {st, r.store} /\ (alive' => alive)
        /\ st' # st => alive
        /\ e.ok \in BOOLEAN
        /\ alive' => \/ st' = r.store /\ Submits(t)
                     \/ st' = st /\ interrupted[t] /\ interrupted'[t] /\ ~e.ok
        /\ \A x \in Threads : ~interrupted'[x] => ~interrupted[x]
        /\ interrupts' \in Nat
    BY <1>0, <2>1, CalledFacts DEF Sent
  <2>3. /\ SameBlocks(st, st') /\ (InBlock(st) => SameGraphs(st, st'))
        /\ st'.checkpoint \in {st.graph, st.checkpoint}
        /\ st'.graph \in {st.graph, st.checkpoint}
    BY Zenon, <1>1, <1>2, <2>2
  <2>4. Bounded(st', 1 .. writes)
    <3>1. st'.graph \subseteq 1 .. writes /\ st'.checkpoint \subseteq 1 .. writes
      BY Zenon, <1>0, <2>3 DEF Bounded
    <3> QED
      BY Zenon, <1>0, <2>2, <2>3, <3>1, BoundedStep
  <2>5. writeOwner' # Nobody => open'[writeOwner']
    BY Zenon, <1>0, <1>4, <2>1, <2>2 DEF Freed
  <2>6. alive' /\ InBlock(st) => Poisoned(st') \/ interrupted'[t]
    BY Zenon, <1>1, <2>2
  <2> QED
    BY Zenon, <2>2, <2>3, <2>4, <2>5, <2>6
<1> QED
  BY Zenon, <1>3, <1>4

\* A request of the writer outside every job, or the end of one, leaves a load
\* that is over whole.
LEMMA WholeAfterFinish ==
    ASSUME IInv, LInv, SameBlocks(st, st'), InBlock(st) => SameGraphs(st, st'),
           st'.checkpoint \in {st.graph, st.checkpoint}, st'.graph \in {st.graph, st.checkpoint},
           st' # st => alive, alive' => alive,
           job' = job, pc' \notin {"entered", "atomic", "failing", "undoing"}
    PROVE  LoadIsWhole' /\ BlockIsMine'
<1> SUFFICES ASSUME Load' PROVE LoadIsWhole'
  BY Zenon DEF LoadIsWhole, BlockIsMine
<1>1. Load /\ AllOrNone(st.checkpoint) /\ (alive /\ ~InBlock(st) => AllOrNone(st.graph))
  BY Zenon DEF Load, LInv, LoadIsWhole
<1>2. InBlock(st') = InBlock(st)
  BY Zenon DEF SameBlocks
<1>3. AllOrNone(st.checkpoint)' /\ (alive' /\ ~InBlock(st') => AllOrNone(st.graph)')
  BY Zenon, <1>1, <1>2 DEF AllOrNone, SameGraphs
<1> QED
  BY Zenon, <1>3 DEF LoadIsWhole, Inside, InBlock

\* At the start there is no job.
LEMMA InitLoad == Init => LInv
<1> SUFFICES ASSUME Init PROVE LInv
  BY Zenon
<1>1. Numbered
  BY DEF Init, NewStore, Numbered, Bounded, GraphsIn, NoJob
<1>2. BlockIsMine /\ LoadIsWhole
  BY Zenon DEF Init, BlockIsMine, LoadIsWhole, Load, NoJob
<1> QED
  BY Zenon, <1>1, <1>2 DEF LInv
\* Every step keeps the invariant of jobs.
LEMMA StepLoad == IInv /\ LInv /\ [Next]_vars => LInv'
<1> SUFFICES ASSUME IInv, LInv, [Next]_vars PROVE LInv'
  BY Zenon
<1>0. /\ Types /\ Owned /\ Numbered /\ BlockIsMine /\ LoadIsWhole
      /\ st \in Stores /\ job \in Jobs /\ writes \in Nat /\ writes + 1 \in Nat
      /\ interrupted \in [Threads -> BOOLEAN] /\ open \in [Threads -> BOOLEAN]
      /\ job.id \in Nat /\ job.was \in BOOLEAN /\ st.graph \in SUBSET Nat
  <2>1. /\ Types /\ Owned /\ Numbered /\ BlockIsMine /\ LoadIsWhole
    BY Zenon DEF IInv, LInv
  <2>2. /\ st \in Stores /\ job \in Jobs /\ writes \in Nat /\ writes + 1 \in Nat
        /\ interrupted \in [Threads -> BOOLEAN] /\ open \in [Threads -> BOOLEAN]
    BY <2>1 DEF Types
  <2>3. job.id \in Nat /\ job.was \in BOOLEAN /\ st.graph \in SUBSET Nat
    BY Zenon, <2>2 DEF Jobs, Stores
  <2> QED
    BY Zenon, <2>1, <2>2, <2>3
<1>n. /\ Bounded(st, 1 .. writes) /\ job.wrote \subseteq 1 .. writes
      /\ writeOwner # Nobody => open[writeOwner]
      /\ (lease = Nobody) = (pc = "idle") /\ (closed => ~alive) /\ interrupts \in Nat
      /\ st.graph \subseteq 1 .. writes /\ st.checkpoint \subseteq 1 .. writes
      /\ 1 .. writes \subseteq 1 .. (writes + 1) /\ writes + 1 \notin 1 .. writes
      /\ writes + 1 \in 1 .. (writes + 1)
  BY <1>0 DEF Numbered, Bounded
<1>w. Bounded(st, 1 .. (writes + 1))
  BY Zenon, <1>n DEF Bounded, GraphsIn
<1>a. ASSUME NEW reply \in Replies
      PROVE  /\ Replying(reply)
             /\ SameBlocks(st, reply.store) /\ reply.store.checkpoint = st.checkpoint
             /\ reply.store.graph \in {st.graph, st.graph \cup {writes + 1}}
             /\ reply.ok \in BOOLEAN
             /\ reply.ok => ~Poisoned(st) /\ reply.store.graph = st.graph \cup {writes + 1}
             /\ InBlock(st) /\ ~reply.ok => Poisoned(reply.store)
  <2>1. st.graph \cup {writes + 1} \in SUBSET Nat
    BY Zenon, <1>0
  <2>2. Replying(reply)
    BY Zenon, <1>0, <2>1, MutateFacts DEF Replies
  <2> DEFINE g == st.graph
             n == writes + 1
  <2>3. \/ reply = Mutate(st, g \cup {n})
        \/ \E h \in {g, g \cup {n}} : reply = MutationFails(st, h)
    BY Zenon DEF Replies
  <2>4. g \in SUBSET Nat /\ n \in Nat /\ g = st.graph
    BY Zenon, <1>0
  <2>5. st \in Stores
    BY Zenon, <1>0
  <2> HIDE DEF g, n
  <2>6. ASSUME reply = Mutate(st, g \cup {n})
        PROVE  Mutated(st, g, n, reply)
    <3>1. reply \in {Mutate(st, g \cup {n}), MutationFails(st, g)}
      BY Zenon, <2>6
    <3> QED
      BY Zenon, <2>4, <2>5, <3>1, MutationReplies
  <2>7. ASSUME \E h \in {g, g \cup {n}} : reply = MutationFails(st, h)
        PROVE  Mutated(st, g, n, reply)
    <3>1. PICK h \in {g, g \cup {n}} : reply = MutationFails(st, h)
      BY Zenon, <2>7
    <3>2. reply \in {Mutate(st, g \cup {n}), MutationFails(st, h)}
      BY Zenon, <3>1
    <3> QED
      BY Zenon, <2>4, <2>5, <3>1, <3>2, MutationReplies
  <2>8. Mutated(st, g, n, reply)
    BY Zenon, <2>3, <2>6, <2>7
  <2> QED
    BY Zenon, <2>2, <2>8 DEF Mutated, g, n
<1>1. ASSUME NEW t \in Threads, Write(t) PROVE LInv'
  <2>0. PICK reply \in Replies : \E e \in Ends(t, reply) : Sent(t, e, FALSE)
    BY Zenon, <1>1 DEF Write
  <2>1. PICK e \in Ends(t, reply) : Sent(t, e, FALSE)
    BY Zenon, <2>0
  <2>2. /\ st' \in Stores /\ st' \in {st, reply.store} /\ (alive' => alive) /\ interrupts' \in Nat
        /\ st' # st => alive
    BY Zenon, <1>0, <1>a, <2>1, CalledFacts DEF Sent
  <2>3. /\ lease = Nobody /\ UNCHANGED <<closed, lease, pc, job>> /\ writes' = writes + 1
        /\ writeOwner' = IF Submits(t) THEN t ELSE writeOwner
        /\ open' = [open EXCEPT ![t] = @ \/ Submits(t)]
    BY Zenon, <1>1 DEF Write, Claims, Opens
  <2>4. pc = "idle" /\ pc' = "idle"
    BY Zenon, <1>n, <2>3
  <2>5. /\ SameBlocks(st, st') /\ st'.checkpoint = st.checkpoint
        /\ st'.graph \in {st.graph, st.graph \cup {writes + 1}}
    <3>1. SameBlocks(st, st)
      BY Zenon DEF SameBlocks
    <3> QED
      BY Zenon, <1>a, <2>2, <3>1
  <2>6. Numbered'
    <3>1. st'.graph \subseteq 1 .. (writes + 1) /\ st'.checkpoint \subseteq 1 .. (writes + 1)
      BY Zenon, <1>n, <2>5
    <3>2. Bounded(st', 1 .. (writes + 1))
      BY Zenon, <1>0, <1>w, <2>2, <2>5, <3>1, BoundedStep
    <3>3. writeOwner' # Nobody => open'[writeOwner']
      BY Zenon, <1>0, <1>n, <2>3 DEF Types, Submits
    <3> QED
      BY Zenon, <1>n, <2>2, <2>3, <3>2, <3>3 DEF Numbered
  <2>7. BlockIsMine'
    BY Zenon, <2>4 DEF BlockIsMine
  <2>8. LoadIsWhole'
    <3> SUFFICES ASSUME Load PROVE AllOrNone(st.checkpoint)' /\ (alive' /\ ~InBlock(st') => AllOrNone(st.graph)')
      BY Zenon, <2>3, <2>4 DEF LoadIsWhole, Load, Inside, InBlock
    <3>1. AllOrNone(st.checkpoint) /\ (alive /\ ~InBlock(st) => AllOrNone(st.graph))
      BY Zenon, <1>0 DEF LoadIsWhole
    <3>2. InBlock(st') = InBlock(st)
      BY Zenon, <2>5 DEF SameBlocks
    <3> QED
      BY <1>n, <2>2, <2>3, <2>5, <3>1, <3>2 DEF AllOrNone
  <2> QED
    BY Zenon, <2>6, <2>7, <2>8 DEF LInv
<1>2. ASSUME NEW t \in Threads, GetAnswer(t) PROVE LInv'
  <2>1. /\ UNCHANGED <<closed, lease, writeOwner, pc, job, writes>>
        /\ open' = [open EXCEPT ![t] = @ \/ Submits(t)]
    BY Zenon, <1>2 DEF GetAnswer, Opens
  <2>2. /\ st' = st /\ (alive' => alive) /\ interrupts' \in Nat
        /\ \A x \in Threads : ~interrupted'[x] => ~interrupted[x]
    <3>1. CASE UNCHANGED called
      BY Zenon, <1>n, <3>1 DEF called
    <3>2. CASE RequestRead(t)
      <4> DEFINE r == IF IsCommittedRead(t) THEN CommittedRead(st) ELSE Read(st)
      <4>1. r.ok \in BOOLEAN /\ r.store = st /\ Replying(r)
        BY Zenon, <1>0, ReadFacts DEF Replying
      <4>2. PICK e \in Ends(t, r) : Called(t, e, FALSE)
        BY Zenon, <3>2 DEF RequestRead
      <4> HIDE DEF r
      <4> QED
        BY Zenon, <1>0, <4>1, <4>2, CalledFacts
    <3> QED
      BY Zenon, <1>2, <3>1, <3>2 DEF GetAnswer
  <2>3. writeOwner' # Nobody => open'[writeOwner']
    BY Zenon, <1>0, <1>n, <2>1 DEF Types, Submits
  <2>4. Numbered'
    BY Zenon, <1>n, <2>1, <2>2, <2>3 DEF Numbered
  <2>5. pc = "atomic" => lease \in Threads
    BY Zenon, <1>0 DEF Owned, Types
  <2> QED
    BY Zenon, <1>0, <2>1, <2>2, <2>4, <2>5 DEF LInv, BlockIsMine, Mine, LoadIsWhole, Load, AllOrNone, Inside,
                                         InBlock, Enclosing, Innermost, Poisoned
<1>3. ASSUME NEW t \in Threads, CommitTx(t) \/ RollbackTx(t) PROVE LInv'
  <2>1. PICK r \in {Commit(st), CommitFails(st), Rollback(st)} : Finish(t, r, FALSE)
    BY Zenon, <1>3 DEF CommitTx, RollbackTx
  <2>2. UNCHANGED <<closed, lease, pc, job, writes>> /\ lease = Nobody
    BY Zenon, <1>3 DEF CommitTx, RollbackTx
  <2>3. /\ Bounded(st', 1 .. writes) /\ interrupts' \in Nat
        /\ writeOwner' # Nobody => open'[writeOwner']
        /\ SameBlocks(st, st') /\ (InBlock(st) => SameGraphs(st, st'))
        /\ st'.checkpoint \in {st.graph, st.checkpoint} /\ st'.graph \in {st.graph, st.checkpoint}
        /\ (st' # st => alive) /\ (alive' => alive)
    BY Zenon, <2>1, FinishMore
  <2>4. pc' = "idle" /\ job' = job
    BY Zenon, <1>n, <2>2
  <2>5. LoadIsWhole' /\ BlockIsMine'
    BY Zenon, <2>3, <2>4, WholeAfterFinish
  <2>6. Numbered'
    BY Zenon, <1>n, <2>2, <2>3 DEF Numbered
  <2> QED
    BY Zenon, <2>5, <2>6 DEF LInv
<1>4. ASSUME NEW t \in Threads, NEW bulk \in BOOLEAN, Enter(t, bulk) PROVE LInv'
  <2>1. /\ lease = Nobody /\ MayWrite(t) /\ lease' = t /\ pc' = "entered"
        /\ UNCHANGED <<st, alive, closed, writeOwner, open, interrupted, writes, interrupts>>
        /\ job' = [NoJob EXCEPT !.bulk = bulk, !.had = open[t], !.from = st.graph, !.blocks = st.savepoints]
    BY Zenon, <1>4 DEF Enter
  <2>2. /\ job'.bulk = bulk /\ job'.had = open[t] /\ job'.from = st.graph
        /\ job'.blocks = st.savepoints /\ job'.wrote = {}
    BY Zenon, <2>1 DEF NoJob
  <2>3. Numbered'
    BY Zenon, <1>n, <2>1, <2>2, NobodyAssumption DEF Numbered
  <2>4. BlockIsMine'
    BY Zenon, <2>1, <2>2 DEF BlockIsMine
  <2>5. alive /\ ~open[t] => ~InBlock(st)
    BY Zenon, <1>n, <2>1 DEF MayWrite, IInv, PendingWritesHaveAnOwner
  <2>6. LoadIsWhole'
    BY Zenon, <2>1, <2>2, <2>5 DEF LoadIsWhole, Load, AllOrNone, Inside, InBlock
  <2> QED
    BY Zenon, <2>3, <2>4, <2>6 DEF LInv
<1>5. ASSUME NEW t \in Threads, TakeSavepoint(t) PROVE LInv'
  <2>1. PICK e \in Ends(t, Savepoint(st)) :
          /\ Sent(t, e, FALSE)
          /\ job' = [job EXCEPT !.id = st.next_savepoint]
          /\ IF e.ok THEN pc' = "atomic" /\ UNCHANGED lease ELSE After(t, FALSE)
    BY Zenon, <1>5 DEF TakeSavepoint
  <2>2. Replying(Savepoint(st))
    BY Zenon, <1>0, SavepointFacts
  <2>3. /\ st' \in Stores /\ st' \in {st, Savepoint(st).store} /\ (alive' => alive)
        /\ e.ok \in BOOLEAN /\ interrupts' \in Nat
        /\ e.ok => st' = Savepoint(st).store /\ Savepoint(st).ok
    BY Zenon, <1>0, <2>1, <2>2, CalledFacts DEF Sent
  <2>4. /\ lease = t /\ pc = "entered" /\ UNCHANGED <<closed, writes>>
        /\ writeOwner' = IF Submits(t) THEN t ELSE writeOwner
        /\ open' = [open EXCEPT ![t] = @ \/ Submits(t)]
    BY Zenon, <1>5 DEF TakeSavepoint, Claims, Opens
  <2>5. /\ job'.bulk = job.bulk /\ job'.had = job.had /\ job'.id = st.next_savepoint /\ job'.from = job.from
        /\ job'.blocks = job.blocks /\ job'.wrote = job.wrote
    BY Zenon, <1>0, <2>1 DEF Jobs
  <2>6. /\ SameGraphs(st, st')
        /\ st' # st \/ e.ok => /\ InBlock(st') /\ Enclosing(st') = st.savepoints
                               /\ Innermost(st').id = st.next_savepoint
                               /\ Innermost(st').graph = st.graph
    BY <1>0, <2>3, SavepointReplies DEF SameGraphs
  <2>7. /\ pc' \in {"idle", "unloading", "atomic"} /\ (pc' = "atomic" => e.ok)
        /\ (lease' = Nobody) = (pc' = "idle")
    BY Zenon, <2>1, <2>3, <2>4, NobodyAssumption DEF After
  <2>8. Numbered'
    <3>1. st'.graph \subseteq 1 .. writes /\ st'.checkpoint \subseteq 1 .. writes
      BY Zenon, <1>n, <2>6 DEF SameGraphs
    <3>2. Bounded(st', 1 .. writes)
      <4>1. CASE st' = st
        BY Zenon, <1>n, <4>1
      <4>2. CASE st' # st
        BY Zenon, <1>0, <1>n, <2>3, <2>6, <3>1, <4>2, BoundedStep
      <4> QED
        BY Zenon, <4>1, <4>2
    <3>3. writeOwner' # Nobody => open'[writeOwner']
      BY Zenon, <1>0, <1>n, <2>4 DEF Types, Submits
    <3> QED
      BY Zenon, <1>n, <2>3, <2>4, <2>5, <2>7, <3>2, <3>3 DEF Numbered
  <2>9. BlockIsMine'
    BY Zenon, <1>0, <2>3, <2>4, <2>5, <2>6, <2>7 DEF BlockIsMine, Mine
  <2>10. LoadIsWhole'
    BY Zenon, <1>0, <2>3, <2>4, <2>5, <2>6, <2>7 DEF LoadIsWhole, Load, AllOrNone, Inside, SameGraphs, BlockIsMine
  <2> QED
    BY Zenon, <2>8, <2>9, <2>10 DEF LInv
<1>6. ASSUME NEW t \in Threads, AtomicWrite(t) PROVE LInv'
  <2>0. PICK reply \in Replies : \E e \in Ends(t, reply) :
          Sent(t, e, FALSE) /\ pc' \in {pc} \cup (IF e.ok THEN {} ELSE {"failing"})
    BY Zenon, <1>6 DEF AtomicWrite
  <2>1. PICK e \in Ends(t, reply) : Sent(t, e, FALSE) /\ pc' \in {pc, "failing"}
    BY Zenon, <2>0
  <2>2. /\ st' \in Stores /\ st' \in {st, reply.store} /\ (alive' => alive) /\ interrupts' \in Nat
        /\ e.ok \in BOOLEAN
        /\ e.ok => st' = reply.store /\ reply.ok
        /\ alive' => \/ st' = reply.store /\ Submits(t)
                     \/ st' = st /\ interrupted[t] /\ interrupted'[t] /\ ~e.ok
        /\ alive' /\ ~e.ok => ~reply.ok \/ interrupted'[t]
        /\ \A x \in Threads : ~interrupted'[x] => ~interrupted[x]
    BY Zenon, <1>0, <1>a, <2>1, CalledFacts DEF Sent
  <2>3. /\ lease = t /\ pc = "atomic" /\ UNCHANGED <<closed, lease, writeOwner, open>>
        /\ writes' = writes + 1 /\ job' = [job EXCEPT !.wrote = @ \cup {writes + 1}]
    BY Zenon, <1>6 DEF AtomicWrite
  <2>4. /\ job'.bulk = job.bulk /\ job'.had = job.had /\ job'.id = job.id /\ job'.from = job.from
        /\ job'.blocks = job.blocks /\ job'.wrote = job.wrote \cup {writes + 1}
    BY Zenon, <1>0, <2>3 DEF Jobs
  <2>5. /\ SameBlocks(st, st') /\ st'.checkpoint = st.checkpoint
        /\ st'.graph \in {st.graph, st.graph \cup {writes + 1}}
    <3>1. SameBlocks(st, st)
      BY Zenon DEF SameBlocks
    <3> QED
      BY Zenon, <1>a, <2>2, <3>1
  <2>6. Numbered'
    <3>1. st'.graph \subseteq 1 .. (writes + 1) /\ st'.checkpoint \subseteq 1 .. (writes + 1)
      BY Zenon, <1>n, <2>5
    <3>2. Bounded(st', 1 .. (writes + 1))
      BY Zenon, <1>0, <1>w, <2>2, <2>5, <3>1, BoundedStep
    <3>3. job'.wrote \subseteq 1 .. (writes + 1)
      BY Zenon, <1>n, <2>4
    <3> QED
      BY Zenon, <1>n, <2>1, <2>2, <2>3, <3>2, <3>3, NobodyAssumption DEF Numbered
  <2>7. alive' => Mine'
    BY Zenon, <1>0, <2>2, <2>3, <2>4, <2>5 DEF BlockIsMine, Mine, SameBlocks
  <2>8. BlockIsMine'
    BY Zenon, <2>1, <2>3, <2>7 DEF BlockIsMine
  <2>9. LoadIsWhole'
    <3> SUFFICES ASSUME Load PROVE LoadIsWhole'
      BY Zenon, <2>4 DEF LoadIsWhole, Load
    <3>1. /\ job.wrote \cap st.checkpoint = {}
          /\ alive => job.blocks = <<>> /\ job.from \cap job.wrote = {}
          /\ alive /\ ~interrupted[lease] /\ ~Poisoned(st) => job.wrote \subseteq st.graph
      BY Zenon, <1>0, <2>3 DEF LoadIsWhole, Inside
    <3>2. job'.wrote \cap st'.checkpoint = {}
      BY Zenon, <1>n, <2>4, <2>5, <3>1
    <3>3. alive => Mine
      BY Zenon, <1>0, <2>3 DEF BlockIsMine
    <3>4. alive => job.from \subseteq 1 .. writes
      BY Zenon, <1>0, <1>n, <3>3, GraphsInSplit DEF Mine, Bounded
    <3>5. alive' => job'.from \cap job'.wrote = {} /\ job'.blocks = <<>>
      BY Zenon, <1>n, <2>2, <2>4, <3>1, <3>4
    <3>6. alive' /\ ~interrupted'[t] /\ ~Poisoned(st') => job'.wrote \subseteq st'.graph
      <4> SUFFICES ASSUME alive', ~interrupted'[t], ~Poisoned(st') PROVE job'.wrote \subseteq st'.graph
        BY Zenon
      <4>1. st' = reply.store /\ InBlock(st) /\ alive /\ ~interrupted[t]
        BY Zenon, <2>2, <3>3 DEF Mine
      <4>2. reply.ok
        BY Zenon, <1>a, <4>1
      <4>3. ~Poisoned(st) /\ st'.graph = st.graph \cup {writes + 1}
        BY Zenon, <1>a, <4>1, <4>2
      <4> QED
        BY Zenon, <2>3, <2>4, <3>1, <4>1, <4>3
    <3>7. alive' => InBlock(st')
      BY Zenon, <2>7 DEF Mine, InBlock
    <3>8. pc' \in {"atomic", "failing"} /\ lease' = t
      BY Zenon, <2>1, <2>3
    <3> QED
      BY Zenon, <3>2, <3>5, <3>6, <3>7, <3>8 DEF LoadIsWhole, AllOrNone, Inside, InBlock, Poisoned, Innermost
  <2> QED
    BY Zenon, <2>6, <2>8, <2>9 DEF LInv
<1>7. ASSUME NEW t \in Threads, AtomicFinish(t) PROVE LInv'
  <2>1. PICK r \in {Commit(st), CommitFails(st), Rollback(st)} : Finish(t, r, FALSE)
    BY Zenon, <1>7 DEF AtomicFinish
  <2>2. UNCHANGED <<closed, lease, job, writes>> /\ lease = t /\ pc = "atomic" /\ pc' \in {"atomic", "failing"}
    BY Zenon, <1>7 DEF AtomicFinish
  <2>3. /\ Bounded(st', 1 .. writes) /\ interrupts' \in Nat
        /\ writeOwner' # Nobody => open'[writeOwner']
        /\ SameBlocks(st, st') /\ (InBlock(st) => SameGraphs(st, st'))
        /\ st' # st => alive
        /\ alive' => alive
        /\ alive' /\ InBlock(st) /\ writeOwner = t => Poisoned(st') \/ interrupted'[t]
    BY Zenon, <2>1, FinishMore
  <2>4. writeOwner = t /\ (alive => Mine)
    BY Zenon, <1>0, <2>2 DEF Owned, BlockIsMine
  <2>5. alive => Mine'
    BY Zenon, <2>2, <2>3, <2>4 DEF Mine, SameBlocks
  <2>6. st'.checkpoint = st.checkpoint
    BY Zenon, <2>3, <2>4 DEF Mine, SameGraphs
  <2>7. Numbered'
    BY Zenon, <1>n, <2>2, <2>3, <2>4, NobodyAssumption DEF Numbered
  <2>8. BlockIsMine'
    BY Zenon, <2>2, <2>3, <2>5 DEF BlockIsMine
  <2>9. LoadIsWhole'
    BY Zenon, <1>0, <2>2, <2>3, <2>4, <2>5, <2>6 DEF LoadIsWhole, Load, AllOrNone, Inside, Mine, InBlock, Poisoned, Innermost
  <2> QED
    BY Zenon, <2>7, <2>8, <2>9 DEF LInv
<1>8. ASSUME NEW t \in Threads, AtomicThrows(t) PROVE LInv'
  <2>1. /\ lease = t /\ pc = "atomic" /\ pc' = "failing"
        /\ UNCHANGED <<st, alive, closed, lease, writeOwner, open, interrupted, cache, job, writes, interrupts>>
    BY Zenon, <1>8 DEF AtomicThrows
  <2> QED
    BY Zenon, <1>0, <1>n, <2>1 DEF LInv, Numbered, BlockIsMine, Mine, LoadIsWhole, Load, AllOrNone, Inside,
                             InBlock, Enclosing, Innermost
<1>9. ASSUME NEW t \in Threads, ReleaseSavepoint(t) PROVE LInv'
  <2> DEFINE r == Release(st, job.id)
  <2>1. PICK e \in Ends(t, r) :
          /\ Sent(t, e, FALSE)
          /\ IF e.ok THEN After(t, TRUE) ELSE pc' = "failing" /\ UNCHANGED lease
    BY Zenon, <1>9 DEF ReleaseSavepoint
  <2>2. Replying(r)
    BY Zenon, <1>0, SavepointFacts
  <2>r. /\ SameGraphs(st, r.store)
        /\ \/ SameBlocks(st, r.store) /\ ~r.ok
           \/ r.store.savepoints = Enclosing(st) /\ IsInnermost(st, job.id) /\ ~Poisoned(st)
    BY Zenon, <1>0, CompletionReplies
  <2> HIDE DEF r
  <2>3. /\ st' \in Stores /\ st' \in {st, r.store} /\ (alive' => alive) /\ interrupts' \in Nat
        /\ e.ok \in BOOLEAN
        /\ e.ok => st' = r.store /\ r.ok /\ Submits(t)
        /\ st' # st => alive
        /\ alive' => st' = st \/ Submits(t)
    BY Zenon, <1>0, <2>1, <2>2, CalledFacts DEF Sent
  <2>4. lease = t /\ pc = "atomic" /\ UNCHANGED <<closed, writeOwner, open, job, writes>>
    BY Zenon, <1>9 DEF ReleaseSavepoint
  <2>5. /\ alive => Mine
        /\ Load => job.wrote \cap st.checkpoint = {}
        /\ Load /\ alive => job.blocks = <<>> /\ job.from \cap job.wrote = {}
        /\ Load /\ alive /\ ~interrupted[t] /\ ~Poisoned(st) => job.wrote \subseteq st.graph
    BY Zenon, <1>0, <2>4 DEF LoadIsWhole, BlockIsMine, Inside
  <2>6. /\ SameGraphs(st, st')
        /\ \/ SameBlocks(st, st') /\ ~e.ok
           \/ st'.savepoints = Enclosing(st) /\ ~Poisoned(st) /\ InBlock(st) /\ (alive' => ~interrupted[t])
    <3>1. SameBlocks(st, st) /\ SameGraphs(st, st)
      BY Zenon DEF SameBlocks, SameGraphs
    <3>2. Submits(t) => ~interrupted[t]
      BY Zenon DEF Submits
    <3>3. CASE e.ok
      BY Zenon, <2>r, <2>3, <3>2, <3>3 DEF IsInnermost
    <3>4. CASE ~e.ok /\ st' = st
      BY Zenon, <3>1, <3>4
    <3>5. CASE ~e.ok /\ st' # st
      BY Zenon, <2>r, <2>3, <3>2, <3>5 DEF IsInnermost
    <3> QED
      BY Zenon, <2>3, <3>3, <3>4, <3>5
  <2>7. /\ pc' \in {"idle", "loaded", "failing"}
        /\ Load /\ e.ok => pc' = "loaded"
        /\ (lease' = Nobody) = (pc' = "idle")
        /\ pc' = "failing" <=> ~e.ok
    BY Zenon, <2>1, <2>3, <2>4, NobodyAssumption DEF After, Load
  <2>8. Numbered'
    <3>1. st'.graph \subseteq 1 .. writes /\ st'.checkpoint \subseteq 1 .. writes
      BY Zenon, <1>n, <2>6 DEF SameGraphs
    <3>2. Bounded(st', 1 .. writes)
      BY Zenon, <1>0, <1>n, <2>3, <2>6, <3>1, BoundedStep
    <3> QED
      BY Zenon, <1>n, <2>3, <2>4, <2>7, <3>2 DEF Numbered
  <2>9. BlockIsMine'
    <3>1. alive' => Mine' \/ st'.savepoints = job.blocks
      BY Zenon, <2>3, <2>4, <2>5, <2>6 DEF Mine, SameBlocks
    <3> QED
      BY Zenon, <2>4, <2>7, <3>1 DEF BlockIsMine
  <2>10. LoadIsWhole'
    <3> SUFFICES ASSUME Load PROVE LoadIsWhole'
      BY Zenon, <2>4 DEF LoadIsWhole, Load
    <3>1. st'.graph = st.graph /\ st'.checkpoint = st.checkpoint
      BY Zenon, <2>6 DEF SameGraphs
    <3>2. ASSUME alive', ~InBlock(st') PROVE job.wrote \subseteq st.graph
      <4>1. ~SameBlocks(st, st')
        BY Zenon, <2>3, <2>5, <3>2 DEF SameBlocks, Mine
      <4> QED
        BY Zenon, <2>3, <2>5, <2>6, <3>2, <4>1
    <3> QED
      BY Zenon, <2>3, <2>4, <2>5, <2>7, <3>1, <3>2 DEF LoadIsWhole, AllOrNone, Inside, InBlock
  <2> QED
    BY Zenon, <2>8, <2>9, <2>10 DEF LInv
<1>10. ASSUME NEW t \in Threads, CatchFailure(t) \/ CatchLoad(t) PROVE LInv'
  <2>1. /\ pc \in {"failing", "unloading"} /\ pc' = IF pc = "failing" THEN "undoing" ELSE "unload"
        /\ job' = [job EXCEPT !.was = interrupted[t]]
        /\ UNCHANGED <<st, alive, closed, lease, writeOwner, open, writes, interrupts>>
    BY Zenon, <1>10 DEF CatchFailure, CatchLoad
  <2>2. /\ job'.bulk = job.bulk /\ job'.had = job.had /\ job'.id = job.id /\ job'.from = job.from
        /\ job'.blocks = job.blocks /\ job'.wrote = job.wrote
    BY Zenon, <1>0, <2>1 DEF Jobs
  <2> QED
    BY Zenon, <1>0, <1>n, <2>1, <2>2 DEF LInv, Numbered, BlockIsMine, Mine, LoadIsWhole, Load, AllOrNone, Inside,
                                   InBlock, Enclosing, Innermost
<1>11. ASSUME NEW t \in Threads, Undo(t) PROVE LInv'
  <2> DEFINE r == RollbackTo(st, job.id)
  <2>1. PICK e \in Ends(t, r) : Sent(t, e, job.was)
    BY Zenon, <1>11 DEF Undo
  <2>2. Replying(r)
    BY Zenon, <1>0, SavepointFacts
  <2>r. /\ r.store.checkpoint = st.checkpoint
        /\ IsInnermost(st, job.id) => /\ r.store.savepoints = Enclosing(st)
                                      /\ r.store.graph = Innermost(st).graph
        /\ ~IsInnermost(st, job.id) => SameBlocks(st, r.store) /\ SameGraphs(st, r.store)
    BY Zenon, <1>0, CompletionReplies
  <2> HIDE DEF r
  <2>3. /\ st' \in Stores /\ st' \in {st, r.store} /\ (alive' => alive) /\ interrupts' \in Nat
        /\ st' # st => alive
    BY <1>0, <2>1, <2>2, CalledFacts DEF Sent
  <2>4. lease = t /\ pc = "undoing" /\ UNCHANGED <<closed, writeOwner, open, job, writes>> /\ After(t, FALSE)
    BY Zenon, <1>11 DEF Undo
  <2>5. pc' \in {"idle", "unloading"} /\ (lease' = Nobody) = (pc' = "idle")
    BY Zenon, <2>4, NobodyAssumption DEF After
  <2>6. /\ st'.checkpoint = st.checkpoint
        /\ \/ SameBlocks(st, st') /\ SameGraphs(st, st')
           \/ IsInnermost(st, job.id) /\ st'.savepoints = Enclosing(st) /\ st'.graph = Innermost(st).graph
    <3>1. SameBlocks(st, st) /\ SameGraphs(st, st)
      BY Zenon DEF SameBlocks, SameGraphs
    <3> QED
      BY Zenon, <2>r, <2>3, <3>1
  <2>7. Numbered'
    <3>1. st'.checkpoint \subseteq 1 .. writes
      BY Zenon, <1>n, <2>6
    <3>2. Bounded(st', 1 .. writes)
      <4>1. CASE SameBlocks(st, st') /\ SameGraphs(st, st')
        <5>1. st'.graph \subseteq 1 .. writes
          BY Zenon, <1>n, <4>1 DEF SameGraphs
        <5> QED
          BY Zenon, <1>0, <1>n, <2>3, <3>1, <4>1, <5>1, BoundedStep
      <4>2. CASE IsInnermost(st, job.id) /\ st'.savepoints = Enclosing(st) /\ st'.graph = Innermost(st).graph
        <5>1. InBlock(st) /\ st'.graph \subseteq 1 .. writes
          BY Zenon, <1>0, <1>n, <4>2, GraphsInSplit DEF IsInnermost, Bounded
        <5> QED
          BY Zenon, <1>0, <1>n, <2>3, <3>1, <4>2, <5>1, BoundedStep
      <4> QED
        BY Zenon, <2>6, <4>1, <4>2
    <3> QED
      BY Zenon, <1>n, <2>3, <2>4, <2>5, <3>2 DEF Numbered
  <2>8. BlockIsMine'
    BY Zenon, <2>5 DEF BlockIsMine
  <2>9. LoadIsWhole'
    <3> SUFFICES ASSUME Load PROVE LoadIsWhole'
      BY Zenon, <2>4 DEF LoadIsWhole, Load
    <3>1. /\ job.wrote \cap st.checkpoint = {}
          /\ alive => job.blocks = <<>> /\ job.from \cap job.wrote = {}
          /\ alive => Mine \/ st.savepoints = <<>>
          /\ alive /\ ~InBlock(st) => AllOrNone(st.graph)
      BY Zenon, <1>0, <2>4 DEF LoadIsWhole, Inside, BlockIsMine
    <3>2. ASSUME alive', ~InBlock(st') PROVE AllOrNone(st.graph)'
      <4>1. CASE SameBlocks(st, st') /\ SameGraphs(st, st')
        BY Zenon, <2>3, <2>4, <3>1, <3>2, <4>1 DEF SameBlocks, SameGraphs, AllOrNone
      <4>2. CASE IsInnermost(st, job.id) /\ st'.graph = Innermost(st).graph
        <5>1. Mine
          BY Zenon, <2>3, <3>1, <3>2, <4>2 DEF IsInnermost, InBlock
        <5> QED
          BY Zenon, <2>3, <2>4, <3>1, <3>2, <4>2, <5>1 DEF Mine, AllOrNone
      <4> QED
        BY Zenon, <2>6, <4>1, <4>2
    <3> QED
      BY Zenon, <2>4, <2>5, <2>6, <3>1, <3>2 DEF LoadIsWhole, AllOrNone, Inside, InBlock
  <2> QED
    BY Zenon, <2>7, <2>8, <2>9 DEF LInv
<1>12. ASSUME NEW t \in Threads, CommitLoad(t) \/ UndoLoad(t) PROVE LInv'
  <2>1. PICK r \in {Commit(st), CommitFails(st), Rollback(st)},
             flag \in {FALSE, job.was} : Finish(t, r, flag)
    BY Zenon, <1>12 DEF CommitLoad, UndoLoad
  <2>2. /\ UNCHANGED <<closed, job, writes>> /\ lease = t
        /\ \/ pc' = "idle" /\ lease' = Nobody
           \/ pc' = "unloading" /\ lease' = t
    BY Zenon, <1>12 DEF CommitLoad, UndoLoad
  <2>3. /\ Bounded(st', 1 .. writes) /\ interrupts' \in Nat
        /\ writeOwner' # Nobody => open'[writeOwner']
        /\ SameBlocks(st, st') /\ (InBlock(st) => SameGraphs(st, st'))
        /\ st'.checkpoint \in {st.graph, st.checkpoint} /\ st'.graph \in {st.graph, st.checkpoint}
        /\ (st' # st => alive) /\ (alive' => alive)
    <3>1. flag \in BOOLEAN
      BY Zenon, <1>0
    <3> QED
      BY Zenon, <2>1, <3>1, FinishMore
  <2>5. LoadIsWhole' /\ BlockIsMine'
    BY Zenon, <2>2, <2>3, WholeAfterFinish
  <2>6. Numbered'
    BY Zenon, <1>n, <2>2, <2>3, NobodyAssumption DEF Numbered
  <2> QED
    BY Zenon, <2>5, <2>6 DEF LInv
<1>13. ASSUME NEW t \in Threads, Interrupt(t) \/ ClearInterrupt(t) PROVE LInv'
  <2>1. /\ UNCHANGED <<st, alive, closed, lease, writeOwner, open, pc, job, writes>>
        /\ interrupts' \in Nat
        /\ \A x \in Threads : x = lease /\ ~interrupted'[x] => ~interrupted[x]
    BY <1>0, <1>n, <1>13 DEF Interrupt, ClearInterrupt
  <2>2. pc = "atomic" => lease \in Threads
    BY Zenon, <1>0 DEF Owned, Types
  <2> QED
    BY Zenon, <1>0, <1>n, <2>1, <2>2 DEF LInv, Numbered, BlockIsMine, Mine, LoadIsWhole, Load, AllOrNone, Inside,
                             InBlock, Enclosing, Innermost, Poisoned
<1>14. CASE Abort
  <2>1. /\ UNCHANGED <<st, lease, writeOwner, open, pc, job, writes, interrupts>>
        /\ closed' = TRUE /\ alive' = FALSE
    BY Zenon, <1>14 DEF Abort
  <2> QED
    BY Zenon, <1>0, <1>n, <2>1 DEF LInv, Numbered, BlockIsMine, LoadIsWhole, Load, AllOrNone, Inside
<1>15. CASE UNCHANGED vars
  BY Zenon, <1>0, <1>n, <1>15 DEF vars, LInv, Numbered, BlockIsMine, Mine, LoadIsWhole, Load, AllOrNone, Inside,
                             InBlock, Enclosing, Innermost, Poisoned
<1> QED
  BY Zenon, <1>1, <1>2, <1>3, <1>4, <1>5, <1>6, <1>7, <1>8, <1>9, <1>10, <1>11, <1>12, <1>13, <1>14, <1>15 DEF Next
\* A mutation that throws, while the process lives and unless an interrupt hits
\* one of the three places of Cut, restores what it found.
LEMMA RollbackStep ==
    ASSUME IInv, LInv, [Next]_vars, pc \in {"entered", "undoing"}, pc' \in {"idle", "unloading"},
           alive', ~Cut
    PROVE  st'.graph = job.from /\ st'.savepoints = job.blocks
<1>0. /\ Types /\ Numbered /\ BlockIsMine /\ st \in Stores /\ job.id \in Nat /\ job.was \in BOOLEAN
  <2>1. Types /\ Numbered /\ BlockIsMine
    BY Zenon DEF IInv, LInv
  <2> QED
    BY Zenon, <2>1 DEF Types, Jobs
<1>1. PICK t \in Threads : TakeSavepoint(t) \/ Undo(t)
  BY Zenon DEF Next, vars, Write, GetAnswer, CommitTx, RollbackTx, Enter, AtomicWrite, AtomicFinish,
     AtomicThrows, ReleaseSavepoint, CatchFailure, CommitLoad, CatchLoad, UndoLoad, Interrupt,
     ClearInterrupt, Abort
<1>2. CASE TakeSavepoint(t)
  <2>1. PICK e \in Ends(t, Savepoint(st)) :
          /\ Sent(t, e, FALSE)
          /\ IF e.ok THEN pc' = "atomic" ELSE After(t, FALSE)
    BY Zenon, <1>2 DEF TakeSavepoint
  <2>2. Replying(Savepoint(st)) /\ (~Savepoint(st).ok => Savepoint(st).store = st)
    BY Zenon, <1>0, SavepointFacts, SavepointReplies
  <2>3. /\ e.ok \in BOOLEAN
        /\ (st' = Savepoint(st).store /\ Submits(t)) \/ st' = st
        /\ ~e.ok /\ Submits(t) => ~Savepoint(st).ok \/ interrupts' # interrupts
        /\ alive
    BY Zenon, <1>0, <2>1, <2>2, CalledFacts DEF Sent
  <2>4. ~e.ok /\ pc = "entered" /\ interrupts' = interrupts
    BY Zenon, <1>2, <2>1, <2>3 DEF TakeSavepoint, Cut
  <2>5. st' = st
    BY Zenon, <2>2, <2>3, <2>4
  <2> QED
    BY Zenon, <1>0, <2>3, <2>4, <2>5 DEF BlockIsMine
<1>3. CASE Undo(t)
  <2>1. PICK e \in Ends(t, RollbackTo(st, job.id)) : Sent(t, e, job.was)
    BY Zenon, <1>3 DEF Undo
  <2>2. Replying(RollbackTo(st, job.id))
    BY Zenon, <1>0, SavepointFacts
  <2>3. pc = "undoing" /\ lease = t /\ ~interrupted[t] /\ st.savepoints # job.blocks
    BY Zenon, <1>3 DEF Undo, Cut
  <2>4. st' = RollbackTo(st, job.id).store /\ alive
    BY <1>0, <2>1, <2>2, <2>3, CalledFacts DEF Sent
  <2>5. Mine
    BY Zenon, <1>0, <2>3, <2>4 DEF BlockIsMine
  <2>6. IsInnermost(st, job.id)
    BY Zenon, <2>5 DEF Mine, IsInnermost
  <2> QED
    BY Zenon, <1>0, <2>4, <2>5, <2>6, CompletionReplies DEF Mine
<1> QED
  BY Zenon, <1>1, <1>2, <1>3

\* A bulk load that opened its own transaction commits everything it wrote or
\* nothing, for any number of writes, however its requests fail and wherever
\* interrupts and the loss of the process hit.
THEOREM BulkLoadsStayAtomic == Spec => []BulkLoadsAreAtomic
<1>1. Init => IInv /\ LInv
  BY Zenon, InitInv, InitLoad
<1>2. IInv /\ LInv /\ [Next]_vars => (IInv /\ LInv)'
  BY Zenon, StepInv, StepLoad
<1>3. IInv /\ LInv => BulkLoadsAreAtomic
  BY Zenon DEF LInv, LoadIsWhole, Load, AllOrNone, BulkLoadsAreAtomic
<1> QED
  BY <1>1, <1>2, <1>3, PTL DEF Spec

\* An atomic mutation that throws leaves the graph and the blocks as it found
\* them, however deep it is nested.
THEOREM MutationsRollBack == Spec => FailedMutationsRollBack
<1>1. Init => IInv /\ LInv
  BY Zenon, InitInv, InitLoad
<1>2. IInv /\ LInv /\ [Next]_vars => (IInv /\ LInv)'
  BY Zenon, StepInv, StepLoad
<1>3. IInv /\ LInv /\ [Next]_vars
        => [(pc \in {"entered", "undoing"} /\ pc' \in {"idle", "unloading"} /\ alive' /\ ~Cut)
            => (st'.graph = job.from /\ st'.savepoints = job.blocks)]_vars
  BY Zenon, RollbackStep
<1> QED
  BY <1>1, <1>2, <1>3, PTL DEF Spec, FailedMutationsRollBack
=============================================================================
