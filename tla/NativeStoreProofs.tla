-------------------------- MODULE NativeStoreProofs --------------------------
(***************************************************************************)
(* Proofs about NativeStore for any number of elements, savepoints, nested *)
(* blocks and sessions, and for a process that ends between any two steps. *)
(***************************************************************************)
EXTENDS NativeStore, FiniteSetTheorems, TLAPS

Rows == Seq(Elements \cup {Gone})
Blocks == [id : Nat, graph : Rows, failed : BOOLEAN]
Stores == [graph : Rows, checkpoint : Rows, savepoints : Seq(Blocks),
           next_savepoint : Nat, closed : BOOLEAN]
Handles == [row : Nat, generation : Nat, element : Elements \cup {Gone}]

\* The elements inserted so far by statements that did not fail.
Whole == (1 .. born) \ partial

Types ==
    /\ up \in BOOLEAN /\ persisting \in BOOLEAN
    /\ st \in Stores /\ disk \in Rows
    /\ generations \in [DOMAIN generations -> Nat] /\ DOMAIN generations \subseteq Nat
    /\ next_generation \in Nat /\ born \in 0 .. MaxElements /\ sessions \in Nat
    /\ issued \subseteq Handles /\ partial \subseteq 1 .. born

\* The predicates below speak of a session's checkpoint c, blocks b and graph g.

\* Graph h continues g: rows are added at the end and elements are removed.
Grows(g, h) == Len(g) <= Len(h) /\ \A r \in 1 .. Len(g) : h[r] = g[r] \/ h[r] = Gone

\* Each graph a session can return to is continued by the later ones.
Chained(c, b, g) ==
    /\ Grows(c, g)
    /\ \A i \in 1 .. Len(b) : Grows(c, b[i].graph) /\ Grows(b[i].graph, g)
    /\ \A i, j \in 1 .. Len(b) : i < j => Grows(b[i].graph, b[j].graph)

\* All elements of g are in S.
Only(g, S) == \A r \in 1 .. Len(g) : g[r] \in S \/ g[r] = Gone

Marked(b) == b # <<>> /\ b[Len(b)].failed

\* What a failed statement wrote is in the writer's graph at most, and then the
\* innermost block is marked; no other block is.
Written(c, b, g, all, whole) ==
    /\ Only(c, whole) /\ Only(g, all)
    /\ \A i \in 1 .. Len(b) : Only(b[i].graph, whole)
    /\ \A i \in 1 .. Len(b) : b[i].failed => i = Len(b)
    /\ ~Marked(b) => Only(g, whole)

\* Row h.row of g, when live, holds the element handle h was given for.
Means(g, h) == h.row \in 1 .. Len(g) /\ g[h.row] # Gone => g[h.row] = h.element

MeansInAll(c, b, g, h) ==
    Means(c, h) /\ Means(g, h) /\ \A i \in 1 .. Len(b) : Means(b[i].graph, h)

\* Of the generations G in use, the next one n and the handles H of the client.
Current(G, h) == h.row \in DOMAIN G /\ G[h.row] = h.generation

\* A generation in use belongs to a row of the writer's graph; a handle that
\* has not expired means its element in every graph the session can return to.
Handled(G, n, H, c, b, g) ==
    /\ DOMAIN G \subseteq 1 .. Len(g)
    /\ \A r \in DOMAIN G : G[r] < n
    /\ \A h \in H : h.generation < n /\ (Current(G, h) => MeansInAll(c, b, g, h))

\* A commit in progress has no block and no close behind it; a closed store has
\* no block and no handle.
Committing ==
    /\ persisting => up /\ ~st.closed /\ st.savepoints = <<>>
    /\ st.closed => st.savepoints = <<>> /\ DOMAIN generations = {}

IInv ==
    /\ Types
    /\ Chained(st.checkpoint, st.savepoints, st.graph)
    /\ Written(st.checkpoint, st.savepoints, st.graph, 1 .. born, Whole) /\ Only(disk, Whole)
    /\ Handled(generations, next_generation, issued, st.checkpoint, st.savepoints, st.graph)
    /\ Committing /\ FileIsTheCheckpoint

-----------------------------------------------------------------------------
\* The store t that a request left, field by field.
Is(t, c, b, g) ==
    t \in Stores /\ t.checkpoint = c /\ t.savepoints = b /\ t.graph = g

Pop(b) == SubSeq(b, 1, Len(b) - 1)
Mark(b) == Append(Pop(b), [b[Len(b)] EXCEPT !.failed = TRUE])

\* The blocks a are the blocks b, but for a mark on the innermost one.
SameGraphs(b, a) ==
    /\ a \in Seq(Blocks) /\ Len(a) = Len(b)
    /\ \A i \in 1 .. Len(b) : a[i].graph = b[i].graph
    /\ \A i \in 1 .. Len(b) : a[i].failed => b[i].failed \/ i = Len(b)
    /\ Marked(b) => Marked(a)

\* Store t is s, but for a mark on the innermost block.
Kept(s, t) ==
    /\ t \in Stores /\ t.checkpoint = s.checkpoint /\ t.graph = s.graph /\ t.closed = s.closed
    /\ SameGraphs(s.savepoints, t.savepoints)

\* The stack without its innermost block.
LEMMA PopFacts ==
    ASSUME NEW b \in Seq(Blocks), b # <<>>
    PROVE  /\ Pop(b) \in Seq(Blocks) /\ Len(b) \in Nat /\ Len(b) > 0 /\ Len(Pop(b)) = Len(b) - 1
           /\ \A i \in 1 .. (Len(b) - 1) : Pop(b)[i] = b[i]
           /\ b[Len(b)] \in Blocks
<1>1. PICK k \in Nat : Len(b) = k + 1
  <2>1. Len(b) \in Nat /\ Len(b) # 0
    OBVIOUS
  <2> QED
    BY <2>1
<1>2. Pop(b) = SubSeq(b, 1, k)
  BY <1>1 DEF Pop
<1>3. /\ SubSeq(b, 1, k) \in Seq(Blocks) /\ Len(SubSeq(b, 1, k)) = k
      /\ \A i \in 1 .. k : SubSeq(b, 1, k)[i] = b[i]
  BY <1>1
<1>4. b[Len(b)] \in Blocks
  BY <1>1
<1> QED
  BY <1>1, <1>2, <1>3, <1>4

\* A block on top of the stack.
LEMMA PushFacts ==
    ASSUME NEW b \in Seq(Blocks), NEW y \in Blocks
    PROVE  LET a == Append(b, y) IN
           /\ a \in Seq(Blocks) /\ Len(a) = Len(b) + 1 /\ Len(b) \in Nat /\ a # <<>>
           /\ \A i \in 1 .. Len(b) : a[i] = b[i]
           /\ a[Len(b) + 1] = y
<1>1. Append(b, y) \in Seq(Blocks) /\ Len(Append(b, y)) = Len(b) + 1 /\ Len(b) \in Nat
  OBVIOUS
<1>2. (\A i \in 1 .. Len(b) : Append(b, y)[i] = b[i]) /\ Append(b, y)[Len(b) + 1] = y
  OBVIOUS
<1>3. Append(b, y) # <<>>
  BY <1>1
<1> QED
  BY Zenon, <1>1, <1>2, <1>3

\* A mark changes no graph.
LEMMA MarkFacts ==
    ASSUME NEW b \in Seq(Blocks), b # <<>>
    PROVE  SameGraphs(b, Mark(b)) /\ Marked(Mark(b))
<1> DEFINE y == [b[Len(b)] EXCEPT !.failed = TRUE]
<1>1. y \in Blocks /\ y.graph = b[Len(b)].graph /\ y.failed = TRUE
  BY Zenon, PopFacts DEF Blocks
<1>2. Mark(b) = Append(Pop(b), y)
  BY Zenon DEF Mark
<1> HIDE DEF y
<1>3. /\ Mark(b) \in Seq(Blocks) /\ Len(Mark(b)) = Len(Pop(b)) + 1 /\ Mark(b) # <<>>
      /\ \A i \in 1 .. Len(Pop(b)) : Mark(b)[i] = Pop(b)[i]
      /\ Mark(b)[Len(Pop(b)) + 1] = y
  BY <1>1, <1>2, PopFacts, PushFacts
<1>4. /\ Len(b) \in Nat /\ Len(b) > 0 /\ Len(Mark(b)) = Len(b)
      /\ \A i \in 1 .. (Len(b) - 1) : Mark(b)[i] = b[i]
      /\ Mark(b)[Len(b)] = y
  BY <1>3, PopFacts
<1>5. \A i \in 1 .. Len(b) : i \in 1 .. (Len(b) - 1) \/ i = Len(b)
  BY <1>4
<1>6. \A i \in 1 .. Len(b) : Mark(b)[i].graph = b[i].graph
  BY Zenon, <1>1, <1>4, <1>5
<1>7. \A i \in 1 .. Len(b) : Mark(b)[i].failed => b[i].failed \/ i = Len(b)
  BY Zenon, <1>4, <1>5
<1>8. Marked(Mark(b))
  BY Zenon, <1>1, <1>3, <1>4 DEF Marked
<1> QED
  BY Zenon, <1>3, <1>4, <1>6, <1>7, <1>8 DEF SameGraphs

\* A store is like itself.
LEMMA KeptSelf ==
    ASSUME NEW s \in Stores
    PROVE  Kept(s, s)
BY Zenon DEF Kept, SameGraphs, Stores

\* A failed request marks the innermost block and does nothing else.
LEMMA FailedFacts ==
    ASSUME NEW s \in Stores
    PROVE  /\ Kept(s, Failed(s).store) /\ Failed(s).ok = FALSE
           /\ InBlock(s) => Marked(Failed(s).store.savepoints)
           /\ ~InBlock(s) => Failed(s).store = s
<1>1. CASE InBlock(s)
  <2> DEFINE t == [s EXCEPT !.savepoints = Mark(s.savepoints)]
  <2>1. Failed(s) = Refused(t)
    BY Zenon, <1>1 DEF Failed, Mark, Pop, Enclosing, Innermost
  <2>2. s.savepoints \in Seq(Blocks) /\ s.savepoints # <<>>
    BY Zenon, <1>1 DEF Stores, InBlock
  <2>3. SameGraphs(s.savepoints, Mark(s.savepoints)) /\ Marked(Mark(s.savepoints))
    BY Zenon, <2>2, MarkFacts
  <2>4. Mark(s.savepoints) \in Seq(Blocks)
    BY Zenon, <2>3 DEF SameGraphs
  <2>5. /\ t \in Stores /\ t.checkpoint = s.checkpoint /\ t.graph = s.graph /\ t.closed = s.closed
        /\ t.savepoints = Mark(s.savepoints)
    BY Zenon, <2>4 DEF Stores
  <2> HIDE DEF t
  <2>6. Failed(s).store = t /\ Failed(s).ok = FALSE
    BY <2>1 DEF Refused
  <2> QED
    BY Zenon, <1>1, <2>3, <2>5, <2>6 DEF Kept
<1>2. CASE ~InBlock(s)
  <2>1. Failed(s).store = s /\ Failed(s).ok = FALSE
    BY Zenon, <1>2 DEF Failed, Refused
  <2> QED
    BY Zenon, <1>2, <2>1, KeptSelf
<1> QED
  BY Zenon, <1>1, <1>2

\* A reply refuses, or has its effect on an open store whose innermost block is
\* not marked.
LEMMA RequestFacts ==
    ASSUME NEW s \in Stores, NEW result
    PROVE  LET r == Request(s, result) IN
           \/ r.ok = FALSE /\ Kept(s, r.store)
           \/ ~Marked(s.savepoints) /\ ~s.closed /\ r = result
<1>1. Poisoned(s) <=> Marked(s.savepoints)
  BY Zenon DEF Poisoned, Marked, InBlock, Innermost
<1>2. CASE Poisoned(s)
  <2>1. Request(s, result).store = s /\ Request(s, result).ok = FALSE
    BY Zenon, <1>2 DEF Request, Refused
  <2> QED
    BY Zenon, <2>1, KeptSelf
<1>3. CASE ~Poisoned(s) /\ s.closed
  BY Zenon, <1>3, FailedFacts DEF Request
<1>4. CASE ~Poisoned(s) /\ ~s.closed
  BY Zenon, <1>1, <1>4 DEF Request
<1> QED
  BY Zenon, <1>2, <1>3, <1>4

\* A mutation that is done changes the graph.
LEMMA MutateFacts ==
    ASSUME NEW s \in Stores, NEW g \in Rows
    PROVE  LET r == Mutate(s, g) IN
           \/ r.ok = FALSE /\ Kept(s, r.store)
           \/ /\ ~Marked(s.savepoints) /\ ~s.closed /\ r.ok = TRUE
              /\ Is(r.store, s.checkpoint, s.savepoints, g) /\ r.store.closed = s.closed
<1> DEFINE t == [s EXCEPT !.graph = g]
<1>1. Is(t, s.checkpoint, s.savepoints, g) /\ t.closed = s.closed
  BY Zenon DEF Stores, Is
<1>2. Mutate(s, g) = Request(s, Done(t))
  BY Zenon DEF Mutate
<1> HIDE DEF t
<1>3. Done(t).ok = TRUE /\ Done(t).store = t
  BY Zenon DEF Done
<1> QED
  BY Zenon, <1>1, <1>2, <1>3, RequestFacts

\* Store t is s after a statement that failed in a block and left the graph g.
FailedWith(s, g, t) ==
    /\ ~Marked(s.savepoints) /\ ~s.closed /\ InBlock(s)
    /\ t \in Stores /\ t.checkpoint = s.checkpoint /\ t.graph = g /\ t.closed = s.closed
    /\ SameGraphs(s.savepoints, t.savepoints) /\ Marked(t.savepoints)

\* A mutation that fails keeps the graph outside a block, and marks the block
\* whose graph it may have changed.
LEMMA MutationFailsFacts ==
    ASSUME NEW s \in Stores, NEW g \in Rows
    PROVE  /\ MutationFails(s, g).ok = FALSE
           /\ Kept(s, MutationFails(s, g).store) \/ FailedWith(s, g, MutationFails(s, g).store)
<1> DEFINE t == [s EXCEPT !.graph = g]
           result == IF InBlock(s) THEN Failed(t) ELSE Refused(s)
<1>1. Is(t, s.checkpoint, s.savepoints, g) /\ t.closed = s.closed
  BY Zenon DEF Stores, Is
<1>2. MutationFails(s, g) = Request(s, result)
  BY Zenon DEF MutationFails
<1> HIDE DEF t
<1>3. CASE InBlock(s)
  <2>1. result = Failed(t)
    BY Zenon, <1>3
  <2>2. InBlock(t)
    BY Zenon, <1>1, <1>3 DEF Is, InBlock
  <2>3. Kept(t, Failed(t).store) /\ Failed(t).ok = FALSE /\ Marked(Failed(t).store.savepoints)
    BY Zenon, <1>1, <2>2, FailedFacts DEF Is
  <2> HIDE DEF result
  <2>4. /\ Failed(t).store \in Stores /\ Failed(t).store.checkpoint = s.checkpoint
        /\ Failed(t).store.graph = g /\ Failed(t).store.closed = s.closed
        /\ SameGraphs(s.savepoints, Failed(t).store.savepoints)
    BY Zenon, <1>1, <2>3 DEF Is, Kept
  <2> QED
    BY Zenon, <1>2, <1>3, <2>1, <2>3, <2>4, RequestFacts DEF FailedWith
<1>4. CASE ~InBlock(s)
  <2>1. result = Refused(s)
    BY Zenon, <1>4
  <2>2. Refused(s).ok = FALSE /\ Refused(s).store = s
    BY Zenon DEF Refused
  <2> HIDE DEF result
  <2> QED
    BY Zenon, <1>2, <2>1, <2>2, KeptSelf, RequestFacts
<1> QED
  BY Zenon, <1>3, <1>4

\* The requests that only read fail without an effect, and are answered by an
\* open store.
LEMMA ReadFacts ==
    ASSUME NEW s \in Stores
    PROVE  /\ Read(s).ok => ~Marked(s.savepoints) /\ ~s.closed
           /\ CommittedRead(s).ok => ~s.closed
           /\ Kept(s, ReadFails(s).store) /\ Kept(s, CommitFails(s).store)
<1>1. Read(s) = Request(s, Done(s)) /\ ReadFails(s) = Request(s, Failed(s))
      /\ CommitFails(s) = Request(s, Failed(s))
  BY Zenon DEF Read, ReadFails, CommitFails
<1>2. CommittedRead(s).ok => ~s.closed
  BY Zenon DEF CommittedRead, Refused
<1> QED
  BY Zenon, <1>1, <1>2, RequestFacts, FailedFacts

\* A commit or rollback that is done finds no block.
LEMMA FinishFacts ==
    ASSUME NEW s \in Stores
    PROVE  /\ \/ Commit(s).ok = FALSE
              \/ /\ Commit(s).ok = TRUE /\ ~s.closed /\ s.savepoints = <<>>
                 /\ Is(Commit(s).store, s.graph, s.savepoints, s.graph) /\ ~Commit(s).store.closed
           /\ \/ Rollback(s).ok = FALSE /\ Kept(s, Rollback(s).store)
              \/ /\ Rollback(s).ok = TRUE /\ ~s.closed /\ s.savepoints = <<>>
                 /\ Is(Rollback(s).store, s.checkpoint, s.savepoints, s.checkpoint)
                 /\ ~Rollback(s).store.closed
<1> DEFINE c == [s EXCEPT !.checkpoint = s.graph]
           k == [s EXCEPT !.graph = s.checkpoint]
<1>1. Is(c, s.graph, s.savepoints, s.graph) /\ c.closed = s.closed
  BY Zenon DEF Stores, Is
<1>2. Is(k, s.checkpoint, s.savepoints, s.checkpoint) /\ k.closed = s.closed
  BY Zenon DEF Stores, Is
<1>3. /\ Commit(s) = Request(s, IF InBlock(s) THEN Failed(s) ELSE Done(c))
      /\ Rollback(s) = Request(s, IF InBlock(s) THEN Failed(s) ELSE Done(k))
  BY Zenon DEF Commit, Rollback
<1> HIDE DEF c, k
<1>4. Done(c).ok = TRUE /\ Done(c).store = c /\ Done(k).ok = TRUE /\ Done(k).store = k
  BY Zenon DEF Done
<1>5. CASE InBlock(s)
  <2>1. Commit(s) = Request(s, Failed(s)) /\ Rollback(s) = Request(s, Failed(s))
    BY Zenon, <1>3, <1>5
  <2>2. Request(s, Failed(s)).ok = FALSE /\ Kept(s, Request(s, Failed(s)).store)
    BY Zenon, RequestFacts, FailedFacts
  <2> QED
    BY Zenon, <2>1, <2>2
<1>6. CASE ~InBlock(s)
  <2>1. Commit(s) = Request(s, Done(c)) /\ Rollback(s) = Request(s, Done(k)) /\ s.savepoints = <<>>
    BY Zenon, <1>3, <1>6 DEF InBlock
  <2>2. Commit(s).ok = FALSE \/ (~s.closed /\ Commit(s) = Done(c))
    BY Zenon, <2>1, RequestFacts
  <2>3. \/ Rollback(s).ok = FALSE /\ Kept(s, Rollback(s).store)
        \/ ~s.closed /\ Rollback(s) = Done(k)
    BY Zenon, <2>1, RequestFacts
  <2> QED
    BY Zenon, <1>1, <1>2, <1>4, <2>1, <2>2, <2>3
<1> QED
  BY Zenon, <1>5, <1>6

\* A savepoint that is taken puts a block on the stack, with the graph it found.
LEMMA SavepointFacts ==
    ASSUME NEW s \in Stores
    PROVE  \/ Kept(s, Savepoint(s).store)
           \/ \E y \in Blocks :
                /\ ~Marked(s.savepoints) /\ ~s.closed
                /\ y.graph = s.graph /\ y.failed = FALSE
                /\ Is(Savepoint(s).store, s.checkpoint, Append(s.savepoints, y), s.graph)
                /\ ~Savepoint(s).store.closed
<1> DEFINE y == [id |-> s.next_savepoint, graph |-> s.graph, failed |-> FALSE]
           t == [s EXCEPT !.savepoints = Append(@, y), !.next_savepoint = @ + 1]
<1>1. y \in Blocks /\ y.graph = s.graph /\ y.failed = FALSE
  BY Zenon DEF Blocks, Stores
<1>2. Savepoint(s) = Request(s, Done(t))
  BY Zenon DEF Savepoint
<1> HIDE DEF y
<1>3. Append(s.savepoints, y) \in Seq(Blocks) /\ s.next_savepoint + 1 \in Nat
  BY <1>1, PushFacts DEF Stores
<1>4. Is(t, s.checkpoint, Append(s.savepoints, y), s.graph) /\ t.closed = s.closed
  BY Zenon, <1>3 DEF Stores, Is
<1> HIDE DEF t
<1>5. Done(t).store = t
  BY Zenon DEF Done
<1>6. Kept(s, Savepoint(s).store) \/ (~Marked(s.savepoints) /\ ~s.closed /\ Savepoint(s) = Done(t))
  BY Zenon, <1>2, RequestFacts
<1> QED
  BY Zenon, <1>1, <1>4, <1>5, <1>6

\* A block that is rolled back or released leaves the stack; only a block that
\* is not marked is released.
LEMMA CompletionFacts ==
    ASSUME NEW s \in Stores, NEW id
    PROVE  /\ LET r == RollbackTo(s, id) IN
              \/ r.ok = FALSE /\ Kept(s, r.store)
              \/ /\ r.ok = TRUE /\ ~s.closed /\ s.savepoints # <<>>
                 /\ Is(r.store, s.checkpoint, Pop(s.savepoints), s.savepoints[Len(s.savepoints)].graph)
                 /\ ~r.store.closed
           /\ LET r == Release(s, id) IN
              \/ Kept(s, r.store)
              \/ /\ ~Marked(s.savepoints) /\ ~s.closed /\ s.savepoints # <<>>
                 /\ Is(r.store, s.checkpoint, Pop(s.savepoints), s.graph) /\ ~r.store.closed
<1>1. CASE IsInnermost(s, id)
  <2> DEFINE b == s.savepoints
             u == [s EXCEPT !.savepoints = Enclosing(s), !.graph = Innermost(s).graph]
             v == [s EXCEPT !.savepoints = Enclosing(s)]
  <2>1. b \in Seq(Blocks) /\ b # <<>> /\ Enclosing(s) = Pop(b) /\ Innermost(s) = b[Len(b)]
    BY Zenon, <1>1 DEF IsInnermost, InBlock, Stores, Enclosing, Innermost, Pop
  <2>2. Pop(b) \in Seq(Blocks) /\ b[Len(b)] \in Blocks
    BY Zenon, <2>1, PopFacts
  <2>3. b[Len(b)].graph \in Rows
    BY Zenon, <2>2 DEF Blocks
  <2>4. Is(u, s.checkpoint, Pop(b), b[Len(b)].graph) /\ u.closed = s.closed
    BY Zenon, <2>1, <2>2, <2>3 DEF Stores, Is
  <2>5. Is(v, s.checkpoint, Pop(b), s.graph) /\ v.closed = s.closed
    BY Zenon, <2>1, <2>2 DEF Stores, Is
  <2>6. /\ RollbackTo(s, id) = IF s.closed THEN Failed(s) ELSE Done(u)
        /\ Release(s, id) = Request(s, Done(v))
    BY Zenon, <1>1 DEF RollbackTo, Release
  <2> HIDE DEF u, v
  <2>7. Done(u).ok = TRUE /\ Done(u).store = u /\ Done(v).store = v
    BY Zenon DEF Done
  <2>8. \/ Kept(s, Release(s, id).store)
        \/ ~Marked(s.savepoints) /\ ~s.closed /\ Release(s, id) = Done(v)
    BY Zenon, <2>6, RequestFacts
  <2>9. \/ RollbackTo(s, id).ok = FALSE /\ Kept(s, RollbackTo(s, id).store)
        \/ ~s.closed /\ RollbackTo(s, id) = Done(u)
    BY Zenon, <2>6, FailedFacts
  <2> QED
    BY Zenon, <2>1, <2>4, <2>5, <2>7, <2>8, <2>9
<1>2. CASE ~IsInnermost(s, id)
  <2>1. RollbackTo(s, id) = Failed(s) /\ Release(s, id) = Request(s, Failed(s))
    BY Zenon, <1>2 DEF RollbackTo, Release
  <2> QED
    BY Zenon, <2>1, RequestFacts, FailedFacts
<1> QED
  BY Zenon, <1>1, <1>2

\* A closed store holds the checkpoint and no block.
LEMMA CloseFacts ==
    ASSUME NEW s \in Stores, ~s.closed
    PROVE  LET t == Close(s, <<>>).store IN
           Is(t, <<>>, <<>>, s.checkpoint) /\ t.closed = TRUE
<1> DEFINE t == [s EXCEPT !.graph = s.checkpoint, !.checkpoint = <<>>,
                          !.savepoints = <<>>, !.closed = TRUE]
<1>1. <<>> \in Rows /\ <<>> \in Seq(Blocks)
  BY DEF Rows
<1>2. Is(t, <<>>, <<>>, s.checkpoint) /\ t.closed = TRUE
  BY Zenon, <1>1 DEF Stores, Is
<1>3. Close(s, <<>>) = Done(t)
  BY Zenon DEF Close
<1> HIDE DEF t
<1> QED
  BY <1>2, <1>3 DEF Done

-----------------------------------------------------------------------------
\* Continuation is a preorder, and inserting and removing continue a graph.
LEMMA GrowsFacts ==
    /\ \A g \in Rows : Grows(g, g)
    /\ \A g, h, k \in Rows : Grows(g, h) /\ Grows(h, k) => Grows(g, k)
    /\ \A g \in Rows, e \in Elements :
           Append(g, e) \in Rows /\ Len(Append(g, e)) = Len(g) + 1 /\ Append(g, e)[Len(g) + 1] = e
           /\ (\A r \in 1 .. Len(g) : Append(g, e)[r] = g[r]) /\ Grows(g, Append(g, e))
    /\ \A g \in Rows, r \in Nat :
           [g EXCEPT ![r] = Gone] \in Rows /\ Grows(g, [g EXCEPT ![r] = Gone])
<1>1. \A g \in Rows : Grows(g, g)
  BY DEF Grows, Rows
<1>2. ASSUME NEW g \in Rows, NEW h \in Rows, NEW k \in Rows, Grows(g, h), Grows(h, k)
      PROVE  Grows(g, k)
  <2>1. Len(g) \in Nat /\ Len(h) \in Nat /\ Len(k) \in Nat
    BY DEF Rows
  <2>2. Len(g) <= Len(k)
    BY <1>2, <2>1 DEF Grows
  <2>3. ASSUME NEW r \in 1 .. Len(g) PROVE k[r] = g[r] \/ k[r] = Gone
    <3>1. r \in 1 .. Len(h)
      BY <1>2, <2>1 DEF Grows
    <3> QED
      BY Zenon, <1>2, <3>1 DEF Grows
  <2> QED
    BY Zenon, <2>2, <2>3 DEF Grows
<1>3. ASSUME NEW g \in Rows, NEW e \in Elements
      PROVE  Append(g, e) \in Rows /\ Len(Append(g, e)) = Len(g) + 1 /\ Append(g, e)[Len(g) + 1] = e
             /\ (\A r \in 1 .. Len(g) : Append(g, e)[r] = g[r]) /\ Grows(g, Append(g, e))
  <2>1. e \in Elements \cup {Gone} /\ g \in Seq(Elements \cup {Gone})
    BY Zenon DEF Rows
  <2>2. /\ Append(g, e) \in Seq(Elements \cup {Gone}) /\ Len(Append(g, e)) = Len(g) + 1 /\ Len(g) \in Nat
        /\ \A r \in 1 .. Len(g) : Append(g, e)[r] = g[r]
        /\ Append(g, e)[Len(g) + 1] = e
    BY <2>1
  <2>3. Grows(g, Append(g, e))
    BY <2>2 DEF Grows
  <2> QED
    BY Zenon, <2>2, <2>3 DEF Rows
<1>4. ASSUME NEW g \in Rows, NEW r \in Nat
      PROVE  [g EXCEPT ![r] = Gone] \in Rows /\ Grows(g, [g EXCEPT ![r] = Gone])
  <2> DEFINE h == [g EXCEPT ![r] = Gone]
  <2>1. g \in Seq(Elements \cup {Gone}) /\ Gone \in Elements \cup {Gone}
    BY Zenon DEF Rows
  <2>2. g \in [1 .. Len(g) -> Elements \cup {Gone}] /\ Len(g) \in Nat
    BY <2>1
  <2>3. h \in [1 .. Len(g) -> Elements \cup {Gone}]
    BY Zenon, <2>1, <2>2
  <2>4. \A q \in 1 .. Len(g) : h[q] = g[q] \/ h[q] = Gone
    BY Zenon, <2>2
  <2>5. h \in Seq(Elements \cup {Gone}) /\ Len(h) = Len(g)
    <3> HIDE DEF h
    <3> QED
      BY <2>2, <2>3
  <2> HIDE DEF h
  <2>6. h \in Rows /\ Grows(g, h)
    BY <2>2, <2>4, <2>5 DEF Rows, Grows
  <2> QED
    BY Zenon, <2>6 DEF h
<1> QED
  BY Zenon, <1>1, <1>2, <1>3, <1>4

\* What a chain says of a stack that has the same graphs, one block more or one
\* less, and of a graph that goes on or back.
LEMMA ChainFacts ==
    ASSUME NEW c \in Rows, NEW b \in Seq(Blocks), NEW g \in Rows, Chained(c, b, g)
    PROVE  /\ \A a : SameGraphs(b, a) => Chained(c, a, g)
           /\ \A h \in Rows : Grows(g, h) => Chained(c, b, h)
           /\ \A y \in Blocks : y.graph = g => Chained(c, Append(b, y), g)
           /\ b # <<>> => Chained(c, Pop(b), g) /\ Chained(c, Pop(b), b[Len(b)].graph)
           /\ b = <<>> => Chained(g, b, g) /\ Chained(c, b, c)
<1>0. Len(b) \in Nat /\ \A i \in 1 .. Len(b) : b[i].graph \in Rows
  <2>1. Len(b) \in Nat /\ \A i \in 1 .. Len(b) : b[i] \in Blocks
    OBVIOUS
  <2>2. \A y \in Blocks : y.graph \in Rows
    BY Zenon DEF Blocks
  <2> QED
    BY Zenon, <2>1, <2>2
<1>1. ASSUME NEW a, SameGraphs(b, a) PROVE Chained(c, a, g)
  BY Zenon, <1>0, <1>1 DEF Chained, SameGraphs
<1>2. ASSUME NEW h \in Rows, Grows(g, h) PROVE Chained(c, b, h)
  BY <1>0, <1>2, GrowsFacts DEF Chained
<1>3. ASSUME NEW y \in Blocks, y.graph = g PROVE Chained(c, Append(b, y), g)
  <2> DEFINE a == Append(b, y)
  <2>1. Len(a) = Len(b) + 1 /\ (\A i \in 1 .. Len(b) : a[i] = b[i]) /\ a[Len(b) + 1] = y
    BY Zenon, PushFacts
  <2> HIDE DEF a
  <2>2. \A i \in 1 .. Len(a) : i \in 1 .. Len(b) \/ i = Len(b) + 1
    BY <1>0, <2>1
  <2>3. Grows(c, g) /\ Grows(g, g)
    BY Zenon, GrowsFacts DEF Chained
  <2>4. \A i \in 1 .. Len(a) : Grows(c, a[i].graph) /\ Grows(a[i].graph, g)
    BY Zenon, <1>3, <2>1, <2>2, <2>3 DEF Chained
  <2>5. ASSUME NEW i \in 1 .. Len(a), NEW j \in 1 .. Len(a), i < j
        PROVE  Grows(a[i].graph, a[j].graph)
    <3>1. i \in 1 .. Len(b)
      BY <1>0, <2>1, <2>5
    <3>2. CASE j = Len(b) + 1
      BY Zenon, <1>3, <2>1, <2>4, <3>1, <3>2
    <3>3. CASE j \in 1 .. Len(b)
      BY Zenon, <2>1, <2>5, <3>1, <3>3 DEF Chained
    <3> QED
      BY Zenon, <2>2, <3>2, <3>3
  <2> QED
    BY Zenon, <2>3, <2>4, <2>5 DEF Chained, a
<1>4. ASSUME b # <<>> PROVE Chained(c, Pop(b), g) /\ Chained(c, Pop(b), b[Len(b)].graph)
  <2> DEFINE a == Pop(b)
             n == Len(b)
  <2>1. n \in Nat /\ n > 0 /\ Len(a) = n - 1 /\ \A i \in 1 .. (n - 1) : a[i] = b[i]
    BY Zenon, <1>4, PopFacts
  <2> HIDE DEF a, n
  <2>2. \A i \in 1 .. (n - 1) : i \in 1 .. n /\ i < n
    BY <2>1
  <2>3. n \in 1 .. n
    BY <2>1
  <2>4. /\ \A i \in 1 .. n : Grows(c, b[i].graph) /\ Grows(b[i].graph, g)
        /\ \A i, j \in 1 .. n : i < j => Grows(b[i].graph, b[j].graph)
        /\ Grows(c, g)
    BY Zenon DEF Chained, n
  <2>5. \A i \in 1 .. (n - 1) : Grows(b[i].graph, b[n].graph)
    BY Zenon, <2>2, <2>3, <2>4
  <2>6. \A i \in 1 .. Len(a) : a[i] = b[i] /\ i \in 1 .. n /\ i \in 1 .. (n - 1)
    BY Zenon, <2>1, <2>2
  <2>7. Chained(c, a, g) /\ Chained(c, a, b[n].graph)
    BY Zenon, <2>3, <2>4, <2>5, <2>6 DEF Chained
  <2> QED
    BY Zenon, <2>7 DEF a, n
<1>5. ASSUME b = <<>> PROVE Chained(g, b, g) /\ Chained(c, b, c)
  <2>1. Len(b) = 0
    BY Zenon, <1>5
  <2> QED
    BY <2>1, GrowsFacts DEF Chained
<1> QED
  BY Zenon, <1>1, <1>2, <1>3, <1>4, <1>5

\* The same for what the statements wrote.
LEMMA WrittenFacts ==
    ASSUME NEW c \in Rows, NEW b \in Seq(Blocks), NEW g \in Rows, NEW all, NEW whole,
           whole \subseteq all, Written(c, b, g, all, whole)
    PROVE  /\ \A a : SameGraphs(b, a) => Written(c, a, g, all, whole)
           /\ \A a, h : SameGraphs(b, a) /\ Marked(a) /\ Only(h, all) => Written(c, a, h, all, whole)
           /\ \A h : ~Marked(b) /\ Only(h, whole) => Written(c, b, h, all, whole)
           /\ \A y \in Blocks : ~Marked(b) /\ y.graph = g /\ y.failed = FALSE
                                  => Written(c, Append(b, y), g, all, whole)
           /\ b # <<>> => /\ Written(c, Pop(b), b[Len(b)].graph, all, whole)
                          /\ ~Marked(b) => Written(c, Pop(b), g, all, whole)
           /\ b = <<>> => Written(g, b, g, all, whole) /\ Written(c, b, c, all, whole)
<1>0. Len(b) \in Nat /\ (b # <<>> <=> Len(b) # 0)
  OBVIOUS
<1>w. \A h : Only(h, whole) => Only(h, all)
  BY Zenon DEF Only
<1>1. ASSUME NEW a, SameGraphs(b, a) PROVE Written(c, a, g, all, whole)
  BY Zenon, <1>0, <1>1 DEF Written, SameGraphs
<1>2. ASSUME NEW a, NEW h, SameGraphs(b, a), Marked(a), Only(h, all) PROVE Written(c, a, h, all, whole)
  BY Zenon, <1>0, <1>2 DEF Written, SameGraphs
<1>3. ASSUME NEW h, ~Marked(b), Only(h, whole) PROVE Written(c, b, h, all, whole)
  BY Zenon, <1>3, <1>w DEF Written
<1>4. ASSUME NEW y \in Blocks, ~Marked(b), y.graph = g, y.failed = FALSE
      PROVE  Written(c, Append(b, y), g, all, whole)
  <2> DEFINE a == Append(b, y)
  <2>1. Len(a) = Len(b) + 1 /\ (\A i \in 1 .. Len(b) : a[i] = b[i]) /\ a[Len(b) + 1] = y
    BY Zenon, PushFacts
  <2> HIDE DEF a
  <2>2. \A i \in 1 .. Len(a) : i \in 1 .. Len(b) \/ i = Len(b) + 1
    BY <1>0, <2>1
  <2>3. Only(c, whole) /\ Only(g, all) /\ Only(g, whole)
    BY Zenon, <1>4 DEF Written
  <2>4. \A i \in 1 .. Len(a) : Only(a[i].graph, whole)
    BY Zenon, <1>4, <2>1, <2>2, <2>3 DEF Written
  <2>5. \A i \in 1 .. Len(b) : ~b[i].failed
    BY <1>0, <1>4 DEF Written, Marked
  <2>6. \A i \in 1 .. Len(a) : a[i].failed => i = Len(a)
    BY Zenon, <1>4, <2>1, <2>2, <2>5
  <2> QED
    BY Zenon, <2>3, <2>4, <2>6 DEF Written, a
<1>5. ASSUME b # <<>>
      PROVE  /\ Written(c, Pop(b), b[Len(b)].graph, all, whole)
             /\ ~Marked(b) => Written(c, Pop(b), g, all, whole)
  <2> DEFINE a == Pop(b)
             n == Len(b)
  <2>1. n \in Nat /\ n > 0 /\ Len(a) = n - 1 /\ \A i \in 1 .. (n - 1) : a[i] = b[i]
    BY Zenon, <1>5, PopFacts
  <2> HIDE DEF a, n
  <2>2. /\ \A i \in 1 .. n : Only(b[i].graph, whole)
        /\ \A i \in 1 .. n : b[i].failed => i = n
        /\ Only(c, whole) /\ Only(g, all) /\ (~Marked(b) => Only(g, whole))
    BY Zenon DEF Written, n
  <2>3. \A i \in 1 .. Len(a) : a[i] = b[i] /\ i \in 1 .. n /\ i # n
    BY <2>1
  <2>4. Only(b[n].graph, whole)
    BY <2>1, <2>2
  <2>5. \A i \in 1 .. Len(a) : Only(a[i].graph, whole) /\ ~a[i].failed
    BY Zenon, <2>2, <2>3
  <2>6. Written(c, a, b[n].graph, all, whole) /\ (~Marked(b) => Written(c, a, g, all, whole))
    BY Zenon, <1>w, <2>2, <2>4, <2>5 DEF Written
  <2> QED
    BY Zenon, <2>6 DEF a, n
<1>6. ASSUME b = <<>> PROVE Written(g, b, g, all, whole) /\ Written(c, b, c, all, whole)
  <2>1. Len(b) = 0 /\ ~Marked(b)
    BY Zenon, <1>6 DEF Marked
  <2> QED
    BY Zenon, <1>w, <2>1 DEF Written
<1> QED
  BY Zenon, <1>1, <1>2, <1>3, <1>4, <1>5, <1>6

\* More elements keep what was written.
LEMMA WrittenGrows ==
    ASSUME NEW c, NEW b, NEW g, NEW all, NEW whole, NEW more, NEW sound,
           all \subseteq more, whole \subseteq sound, Written(c, b, g, all, whole)
    PROVE  Written(c, b, g, more, sound)
<1>1. \A h : (Only(h, all) => Only(h, more)) /\ (Only(h, whole) => Only(h, sound))
  BY Zenon DEF Only
<1> QED
  BY Zenon, <1>1 DEF Written

\* The same for a handle.
LEMMA MeansFacts ==
    ASSUME NEW c \in Rows, NEW b \in Seq(Blocks), NEW g \in Rows, NEW h, MeansInAll(c, b, g, h)
    PROVE  /\ \A a : SameGraphs(b, a) => MeansInAll(c, a, g, h)
           /\ \A k \in Rows : Grows(g, k) /\ h.row \in 1 .. Len(g) => MeansInAll(c, b, k, h)
           /\ \A y \in Blocks : y.graph = g => MeansInAll(c, Append(b, y), g, h)
           /\ b # <<>> => MeansInAll(c, Pop(b), g, h) /\ MeansInAll(c, Pop(b), b[Len(b)].graph, h)
           /\ MeansInAll(g, b, g, h) /\ MeansInAll(c, b, c, h)
<1>0. Len(b) \in Nat
  OBVIOUS
<1>1. ASSUME NEW a, SameGraphs(b, a) PROVE MeansInAll(c, a, g, h)
  BY Zenon, <1>1 DEF MeansInAll, SameGraphs
<1>2. ASSUME NEW k \in Rows, Grows(g, k), h.row \in 1 .. Len(g) PROVE MeansInAll(c, b, k, h)
  <2>1. Means(k, h)
    BY Zenon, <1>2 DEF MeansInAll, Means, Grows
  <2> QED
    BY Zenon, <2>1 DEF MeansInAll
<1>3. ASSUME NEW y \in Blocks, y.graph = g PROVE MeansInAll(c, Append(b, y), g, h)
  <2> DEFINE a == Append(b, y)
  <2>1. Len(a) = Len(b) + 1 /\ (\A i \in 1 .. Len(b) : a[i] = b[i]) /\ a[Len(b) + 1] = y
    BY Zenon, PushFacts
  <2> HIDE DEF a
  <2>2. \A i \in 1 .. Len(a) : i \in 1 .. Len(b) \/ i = Len(b) + 1
    BY <1>0, <2>1
  <2> QED
    BY Zenon, <1>3, <2>1, <2>2 DEF MeansInAll, a
<1>4. ASSUME b # <<>>
      PROVE  MeansInAll(c, Pop(b), g, h) /\ MeansInAll(c, Pop(b), b[Len(b)].graph, h)
  <2> DEFINE a == Pop(b)
             n == Len(b)
  <2>1. n \in Nat /\ n > 0 /\ Len(a) = n - 1 /\ \A i \in 1 .. (n - 1) : a[i] = b[i]
    BY Zenon, <1>4, PopFacts
  <2> HIDE DEF a, n
  <2>2. n \in 1 .. n /\ \A i \in 1 .. Len(a) : a[i] = b[i] /\ i \in 1 .. n
    BY <2>1
  <2>3. Means(c, h) /\ Means(g, h) /\ \A i \in 1 .. n : Means(b[i].graph, h)
    BY Zenon DEF MeansInAll, n
  <2>4. MeansInAll(c, a, g, h) /\ MeansInAll(c, a, b[n].graph, h)
    BY Zenon, <2>2, <2>3 DEF MeansInAll
  <2> QED
    BY Zenon, <2>4 DEF a, n
<1>5. MeansInAll(g, b, g, h) /\ MeansInAll(c, b, c, h)
  BY Zenon DEF MeansInAll
<1> QED
  BY Zenon, <1>1, <1>2, <1>3, <1>4, <1>5

\* A live row of one graph of a chain is the row's element in all of them, and
\* the checkpoint has no row that the writer's graph lacks.
LEMMA RowMeans ==
    ASSUME NEW c \in Rows, NEW b \in Seq(Blocks), NEW g \in Rows, Chained(c, b, g),
           NEW h, h.row \in Nat
    PROVE  /\ h.row \in 1 .. Len(g) /\ g[h.row] # Gone /\ h.element = g[h.row]
                => MeansInAll(c, b, g, h)
           /\ h.row \in 1 .. Len(c) /\ c[h.row] # Gone /\ h.element = c[h.row]
                => MeansInAll(c, b, g, h) /\ h.row \in 1 .. Len(g)
<1>0. Len(b) \in Nat /\ Len(c) \in Nat /\ Len(g) \in Nat
  BY DEF Rows
<1>1. ASSUME h.row \in 1 .. Len(g), g[h.row] # Gone, h.element = g[h.row]
      PROVE  MeansInAll(c, b, g, h)
  <2>1. \A k : Grows(k, g) => Means(k, h)
    BY Zenon, <1>1 DEF Grows, Means
  <2>2. Means(g, h)
    BY Zenon, <1>1 DEF Means
  <2> QED
    BY Zenon, <2>1, <2>2 DEF MeansInAll, Chained
<1>2. ASSUME h.row \in 1 .. Len(c), c[h.row] # Gone, h.element = c[h.row]
      PROVE  MeansInAll(c, b, g, h) /\ h.row \in 1 .. Len(g)
  <2>1. \A k : Grows(c, k) => Means(k, h)
    BY Zenon, <1>2 DEF Grows, Means
  <2>2. Means(c, h)
    BY Zenon, <1>2 DEF Means
  <2>3. h.row \in 1 .. Len(g)
    BY <1>0, <1>2 DEF Chained, Grows
  <2> QED
    BY Zenon, <2>1, <2>2, <2>3 DEF MeansInAll, Chained
<1> QED
  BY Zenon, <1>1, <1>2

\* A handle that is right in one session state is right in the next.
Carried(c, b, g, c2, b2, g2) ==
    \A h : h.row \in 1 .. Len(g) /\ MeansInAll(c, b, g, h) => MeansInAll(c2, b2, g2, h)

\* A handle given for one of the rows of a graph is right.
RightFor(graph, rows, c, b, g) ==
    \A h : h.row \in rows /\ h.element = graph[h.row] => MeansInAll(c, b, g, h)

\* Handles are only lost: D keeps rows of G, rows of the graph k.
Fewer(G, D, k) ==
    /\ D \in [DOMAIN D -> Nat] /\ DOMAIN D \subseteq DOMAIN G /\ DOMAIN D \subseteq 1 .. Len(k)
    /\ \A r \in DOMAIN D : D[r] = G[r]

\* prune_handles leaves rows of the new writer's graph, which continues the
\* checkpoint.
LEMMA PruneFacts ==
    ASSUME Types, NEW s, s.graph \in Rows, s.checkpoint \in Rows, Grows(s.checkpoint, s.graph),
           prune_handles(s)
    PROVE  Fewer(generations, generations', s.graph)
<1> DEFINE D == DOMAIN generations \cap (Live(s.graph) \cup Live(s.checkpoint))
<1>1. generations' = [r \in D |-> generations[r]]
  BY Zenon DEF prune_handles
<1>2. DOMAIN s.graph = 1 .. Len(s.graph) /\ DOMAIN s.checkpoint = 1 .. Len(s.checkpoint)
      /\ Len(s.graph) \in Nat /\ Len(s.checkpoint) \in Nat
  BY DEF Rows
<1>3. 1 .. Len(s.checkpoint) \subseteq 1 .. Len(s.graph)
  BY <1>2 DEF Grows
<1>4. D \subseteq DOMAIN generations /\ D \subseteq 1 .. Len(s.graph)
  BY Zenon, <1>2, <1>3 DEF Live
<1>5. \A r \in DOMAIN generations : generations[r] \in Nat
  BY Zenon DEF Types
<1> HIDE DEF D
<1> QED
  BY Zenon, <1>1, <1>4, <1>5 DEF Fewer

\* Handles that stay, stay right.
LEMMA HandledFewer ==
    ASSUME NEW G, NEW n, NEW H, NEW c, NEW b, NEW g, Handled(G, n, H, c, b, g),
           NEW D, NEW c2, NEW b2, NEW g2, Fewer(G, D, g2),
           Carried(c, b, g, c2, b2, g2)
    PROVE  Handled(D, n, H, c2, b2, g2)
<1>1. ASSUME NEW h \in H, Current(D, h) PROVE MeansInAll(c2, b2, g2, h)
  <2>1. Current(G, h) /\ h.row \in 1 .. Len(g)
    BY Zenon, <1>1 DEF Current, Fewer, Handled
  <2> QED
    BY Zenon, <2>1 DEF Handled, Carried
<1> QED
  BY Zenon, <1>1 DEF Handled, Fewer

\* The generations of new rows are new.
LEMMA NumberFacts ==
    ASSUME NEW S, IsFiniteSet(S), S \subseteq Nat, NEW r \in S
    PROVE  Number(S, r) \in Nat /\ Number(S, r) < Cardinality(S) /\ Cardinality(S) \in Nat
<1> DEFINE T == {q \in S : q < r}
<1>1. T \subseteq S /\ r \notin T
  OBVIOUS
<1>2. IsFiniteSet(T) /\ Cardinality(T) <= Cardinality(S) /\ Cardinality(S) # Cardinality(T)
  BY Zenon, <1>1, FS_Subset
<1>3. Cardinality(T) \in Nat /\ Cardinality(S) \in Nat
  BY Zenon, <1>2, FS_CardinalityType
<1> QED
  BY <1>2, <1>3 DEF Number

\* Handles given for rows of a graph are right when those rows mean the same in
\* every graph of the session.
LEMMA IssueFacts ==
    ASSUME Types, NEW graph, NEW rows, IsFiniteSet(rows), rows \subseteq Nat, Issue(graph, rows),
           NEW c, NEW b, NEW g, Handled(generations, next_generation, issued, c, b, g),
           NEW c2, NEW b2, NEW g2, 1 .. Len(g) \subseteq 1 .. Len(g2), rows \subseteq 1 .. Len(g2),
           \A r \in rows : graph[r] \in Elements \cup {Gone},
           Carried(c, b, g, c2, b2, g2), RightFor(graph, rows, c2, b2, g2)
    PROVE  /\ generations' \in [DOMAIN generations' -> Nat] /\ DOMAIN generations' \subseteq Nat
           /\ next_generation' \in Nat /\ issued' \subseteq Handles
           /\ DOMAIN generations \subseteq DOMAIN generations'
           /\ \A r \in DOMAIN generations : generations'[r] = generations[r]
           /\ Handled(generations', next_generation', issued', c2, b2, g2)
<1> DEFINE new == rows \ DOMAIN generations
           card == Cardinality(new)
           num(r) == Number(new, r)
<1>1. IsFiniteSet(new) /\ new \subseteq Nat
  BY Zenon, FS_Subset
<1>2. \A r \in new : num(r) \in Nat /\ num(r) < card
  BY Zenon, <1>1, NumberFacts
<1>3. card \in Nat
  BY Zenon, <1>1, FS_CardinalityType
<1>4. /\ generations' = [r \in DOMAIN generations \cup new |->
                            IF r \in new THEN next_generation + num(r) ELSE generations[r]]
      /\ next_generation' = next_generation + card
      /\ generations' = Generations(rows)
  BY Zenon DEF Issue, Generations
<1>5. /\ next_generation \in Nat /\ DOMAIN generations \subseteq Nat
      /\ \A r \in DOMAIN generations : generations[r] \in Nat /\ generations[r] < next_generation
      /\ DOMAIN generations \subseteq 1 .. Len(g2)
  BY Zenon DEF Types, Handled
<1>6. new \subseteq rows /\ \A r \in new : r \notin DOMAIN generations
  BY Zenon
<1> HIDE DEF new, card, num
<1>7. /\ DOMAIN generations' = DOMAIN generations \cup new
      /\ \A r \in new : generations'[r] = next_generation + num(r)
      /\ \A r \in DOMAIN generations : generations'[r] = generations[r]
  BY Zenon, <1>4, <1>6
<1>8. /\ next_generation' \in Nat /\ next_generation <= next_generation'
      /\ \A r \in DOMAIN generations' : generations'[r] \in Nat /\ generations'[r] < next_generation'
      /\ \A r \in new : next_generation <= generations'[r]
  BY <1>2, <1>3, <1>4, <1>5, <1>7
<1>9. generations' \in [DOMAIN generations' -> Nat]
  BY Zenon, <1>4, <1>8
<1>10. rows \subseteq DOMAIN generations' /\ DOMAIN generations' \subseteq Nat
       /\ DOMAIN generations' \subseteq 1 .. Len(g2)
  BY Zenon, <1>5, <1>6, <1>7 DEF new
<1>11. ASSUME NEW h \in issued'
       PROVE  \/ h \in issued
              \/ /\ h \in Handles /\ h.generation < next_generation' /\ MeansInAll(c2, b2, g2, h)
  <2>1. CASE h \in issued
    BY Zenon, <2>1
  <2>2. CASE h \notin issued
    <3>1. PICK r \in rows : h = [row |-> r, generation |-> generations'[r], element |-> graph[r]]
      BY Zenon, <1>4, <1>11, <2>2 DEF Issue
    <3>2. h.row = r /\ h.generation = generations'[r] /\ h.element = graph[r]
      BY Zenon, <3>1
    <3>3. h \in Handles /\ h.generation < next_generation'
      BY Zenon, <1>8, <1>10, <3>1 DEF Handles
    <3> QED
      BY Zenon, <3>2, <3>3 DEF RightFor
  <2> QED
    BY Zenon, <2>1, <2>2
<1>12. ASSUME NEW h \in issued
       PROVE  /\ h \in Handles /\ h.generation < next_generation'
              /\ Current(generations', h) => MeansInAll(c2, b2, g2, h)
  <2>1. h \in Handles /\ h.generation \in Nat /\ h.generation < next_generation
    BY Zenon DEF Types, Handled, Handles
  <2>2. ASSUME Current(generations', h) PROVE MeansInAll(c2, b2, g2, h)
    <3>1. h.row \notin new
      BY <1>8, <2>1, <2>2, <1>5, <1>2, <1>7 DEF Current
    <3>2. Current(generations, h) /\ h.row \in 1 .. Len(g)
      BY Zenon, <1>7, <2>2, <3>1 DEF Current, Handled
    <3> QED
      BY Zenon, <3>2 DEF Handled, Carried
  <2> QED
    BY <1>5, <1>8, <2>1, <2>2
<1>13. issued' \subseteq Handles
  BY Zenon, <1>11, <1>12
<1>14. Handled(generations', next_generation', issued', c2, b2, g2)
  BY Zenon, <1>8, <1>10, <1>11, <1>12 DEF Handled
<1> QED
  BY Zenon, <1>7, <1>8, <1>9, <1>10, <1>13, <1>14

-----------------------------------------------------------------------------
\* At the start the store is empty.
LEMMA InitInv == Init => IInv
<1> SUFFICES ASSUME Init PROVE IInv
  BY Zenon
<1> DEFINE e == <<>>
<1>0. e \in Rows /\ e \in Seq(Blocks) /\ Len(e) = 0
  BY DEF Rows
<1>1. st = [graph |-> e, checkpoint |-> e, savepoints |-> e, next_savepoint |-> 1, closed |-> FALSE]
  BY Zenon DEF Init, NewStore
<1>2. st \in Stores /\ st.graph = e /\ st.checkpoint = e /\ st.savepoints = e /\ ~st.closed
  BY Zenon, <1>0, <1>1 DEF Stores
<1>3. DOMAIN generations = {} /\ generations \in [DOMAIN generations -> Nat]
  BY DEF Init
<1>4. Types
  <2>1. disk \in Rows
    BY Zenon, <1>0 DEF Init
  <2>2. up \in BOOLEAN /\ persisting \in BOOLEAN /\ issued \subseteq Handles /\ partial \subseteq 1 .. born
    BY Zenon DEF Init
  <2>3. /\ next_generation \in Nat /\ born \in 0 .. MaxElements /\ sessions \in Nat
        /\ DOMAIN generations \subseteq Nat
    BY <1>3, GoneAssumption DEF Init
  <2> QED
    BY Zenon, <1>2, <1>3, <2>1, <2>2, <2>3 DEF Types
<1>5. Chained(e, e, e) /\ Written(e, e, e, 1 .. born, Whole) /\ Only(e, Whole)
  BY <1>0 DEF Chained, Written, Only, Grows
<1>6. Handled(generations, next_generation, issued, e, e, e)
  BY Zenon, <1>3 DEF Handled, Init
<1>7. Committing /\ FileIsTheCheckpoint
  BY Zenon, <1>2, <1>3 DEF Committing, FileIsTheCheckpoint, Init
<1> HIDE DEF e
<1> QED
  BY Zenon, <1>2, <1>4, <1>5, <1>6, <1>7 DEF IInv, Init, e

\* The parts of a store, and the elements that may be committed.
LEMMA Parts ==
    ASSUME IInv
    PROVE  /\ st \in Stores /\ st.checkpoint \in Rows /\ st.graph \in Rows
           /\ st.savepoints \in Seq(Blocks) /\ st.closed \in BOOLEAN
           /\ Whole \subseteq 1 .. born /\ born \in Nat
           /\ Grows(st.checkpoint, st.graph)
BY DEF IInv, Types, Stores, Whole, Chained

\* A request without an effect on the graphs, whatever the client learns of it.
LEMMA KeptStep ==
    ASSUME IInv, Ready, KeepFile, Kept(st, st'),
           born' \in 0 .. MaxElements, born <= born', partial' \subseteq 1 .. born', Whole' = Whole,
           generations' = generations \/ prune_handles(st'),
           UNCHANGED <<next_generation, issued>>
    PROVE  IInv'
<1> DEFINE c == st.checkpoint
           b == st.savepoints
           g == st.graph
           a == st'.savepoints
<1>0. /\ c \in Rows /\ b \in Seq(Blocks) /\ g \in Rows /\ Whole \subseteq 1 .. born /\ born \in Nat
      /\ Grows(c, g) /\ Types
  BY Zenon, Parts DEF IInv
<1>1. st' \in Stores /\ st'.checkpoint = c /\ st'.graph = g /\ st'.closed = st.closed
      /\ SameGraphs(b, a) /\ a \in Seq(Blocks)
  BY Zenon DEF Kept, SameGraphs
<1>2. Chained(c, b, g) /\ Written(c, b, g, 1 .. born, Whole) /\ Only(disk, Whole)
      /\ Handled(generations, next_generation, issued, c, b, g)
  BY Zenon DEF IInv
<1>3. /\ generations \in [DOMAIN generations -> Nat] /\ DOMAIN generations \subseteq Nat
      /\ DOMAIN generations \subseteq 1 .. Len(g)
  BY Zenon, <1>0, <1>2 DEF Types, Handled
<1>4. Fewer(generations, generations', g)
  <2>1. CASE generations' = generations
    BY Zenon, <1>3, <2>1 DEF Fewer
  <2>2. CASE prune_handles(st')
    BY Zenon, <1>0, <1>1, <2>2, PruneFacts
  <2> QED
    BY Zenon, <2>1, <2>2
<1>5. st.closed => a = <<>> /\ DOMAIN generations' = {}
  <2>1. st.closed => Len(b) = 0 /\ DOMAIN generations = {}
    BY DEF IInv, Committing
  <2> QED
    BY <1>1, <1>4, <2>1 DEF SameGraphs, Fewer
<1> HIDE DEF c, b, g, a
<1>6. Chained(c, a, g)
  BY Zenon, <1>0, <1>1, <1>2, ChainFacts
<1>7. Written(c, a, g, 1 .. born', Whole')
  <2>1. Written(c, a, g, 1 .. born, Whole)
    BY Zenon, <1>0, <1>1, <1>2, WrittenFacts
  <2>2. 1 .. born \subseteq 1 .. born'
    BY <1>0
  <2> QED
    BY Zenon, <2>1, <2>2, WrittenGrows
<1>8. Handled(generations', next_generation', issued', c, a, g)
  <2>1. Carried(c, b, g, c, a, g)
    BY Zenon, <1>0, <1>1, MeansFacts DEF Carried
  <2> QED
    BY Zenon, <1>2, <1>4, <2>1, HandledFewer
<1>9. Types'
  BY Zenon, <1>0, <1>1, <1>3, <1>4 DEF Types, Fewer, KeepFile
<1>10. Committing'
  BY Zenon, <1>1, <1>5 DEF Committing, KeepFile, Ready, a
<1>11. FileIsTheCheckpoint'
  BY Zenon, <1>1 DEF FileIsTheCheckpoint, KeepFile, Ready, IInv, c, g
<1>12. Only(disk', Whole')
  BY Zenon, <1>2 DEF KeepFile
<1> QED
  BY Zenon, <1>1, <1>6, <1>7, <1>8, <1>9, <1>10, <1>11, <1>12 DEF IInv, a

\* A request done on an open store, once it is known what it does to the graphs.
LEMMA DoneStep ==
    ASSUME IInv, Ready, KeepFile, st' \in Stores, st'.checkpoint = st.checkpoint, ~st.closed, ~st'.closed,
           born' \in 0 .. MaxElements, partial' \subseteq 1 .. born', Whole \subseteq Whole',
           Chained(st'.checkpoint, st'.savepoints, st'.graph),
           Written(st'.checkpoint, st'.savepoints, st'.graph, 1 .. born', Whole'),
           generations' \in [DOMAIN generations' -> Nat], DOMAIN generations' \subseteq Nat,
           next_generation' \in Nat, issued' \subseteq Handles,
           Handled(generations', next_generation', issued', st'.checkpoint, st'.savepoints, st'.graph)
    PROVE  IInv'
<1>1. Types'
  BY Zenon DEF Types, KeepFile, IInv
<1>2. Committing' /\ FileIsTheCheckpoint'
  BY Zenon DEF Committing, FileIsTheCheckpoint, KeepFile, Ready, IInv
<1>3. Only(disk', Whole')
  BY Zenon DEF Only, KeepFile, IInv
<1> QED
  BY Zenon, <1>1, <1>2, <1>3 DEF IInv

\* A request that gives out no handle and may forget some.
LEMMA QuietStep ==
    ASSUME IInv, Ready, KeepFile, st' \in Stores, st'.checkpoint = st.checkpoint, ~st.closed, ~st'.closed,
           UNCHANGED <<next_generation, issued>>,
           born' \in 0 .. MaxElements, partial' \subseteq 1 .. born', Whole \subseteq Whole',
           Chained(st'.checkpoint, st'.savepoints, st'.graph),
           Written(st'.checkpoint, st'.savepoints, st'.graph, 1 .. born', Whole'),
           \/ generations' = generations /\ Len(st.graph) <= Len(st'.graph)
           \/ prune_handles(st'),
           Carried(st.checkpoint, st.savepoints, st.graph, st'.checkpoint, st'.savepoints, st'.graph)
    PROVE  IInv'
<1>0. /\ Types /\ generations \in [DOMAIN generations -> Nat] /\ DOMAIN generations \subseteq Nat
      /\ Handled(generations, next_generation, issued, st.checkpoint, st.savepoints, st.graph)
      /\ DOMAIN generations \subseteq 1 .. Len(st.graph)
  BY Zenon DEF IInv, Types, Handled
<1>1. st.graph \in Rows /\ st'.graph \in Rows /\ st'.checkpoint \in Rows
  BY Zenon, Parts DEF Stores
<1>2. Len(st.graph) \in Nat /\ Len(st'.graph) \in Nat
  BY <1>1 DEF Rows
<1>3. Fewer(generations, generations', st'.graph)
  <2>1. CASE generations' = generations /\ Len(st.graph) <= Len(st'.graph)
    BY <1>0, <1>2, <2>1 DEF Fewer
  <2>2. CASE prune_handles(st')
    BY Zenon, <1>0, <1>1, <2>2, PruneFacts DEF Chained
  <2> QED
    BY Zenon, <2>1, <2>2
<1>4. Handled(generations', next_generation, issued, st'.checkpoint, st'.savepoints, st'.graph)
  BY Zenon, <1>0, <1>3, HandledFewer
<1>5. /\ generations' \in [DOMAIN generations' -> Nat] /\ DOMAIN generations' \subseteq Nat
      /\ next_generation' \in Nat /\ issued' \subseteq Handles
  BY Zenon, <1>0, <1>3 DEF Fewer, Types
<1> QED
  BY Zenon, <1>4, <1>5, DoneStep

\* The elements of a graph after an insertion and after a removal.
LEMMA OnlyFacts ==
    ASSUME NEW g \in Rows, NEW S, Only(g, S)
    PROVE  /\ \A e \in Elements : e \in S => Only(Append(g, e), S)
           /\ \A r \in Nat : Only([g EXCEPT ![r] = Gone], S)
<1>0. Len(g) \in Nat
  BY DEF Rows
<1>1. ASSUME NEW e \in Elements, e \in S PROVE Only(Append(g, e), S)
  <2> DEFINE a == Append(g, e)
  <2>1. Len(a) = Len(g) + 1 /\ a[Len(g) + 1] = e /\ \A r \in 1 .. Len(g) : a[r] = g[r]
    BY Zenon, GrowsFacts
  <2> HIDE DEF a
  <2>2. \A r \in 1 .. Len(a) : r \in 1 .. Len(g) \/ r = Len(g) + 1
    BY <1>0, <2>1
  <2> QED
    BY Zenon, <1>1, <2>1, <2>2 DEF Only, a
<1>2. ASSUME NEW r \in Nat PROVE Only([g EXCEPT ![r] = Gone], S)
  <2>1. g \in Seq(Elements \cup {Gone})
    BY Zenon DEF Rows
  <2>2. DOMAIN g = 1 .. Len(g)
    BY <2>1
  <2>3. DOMAIN [g EXCEPT ![r] = Gone] = 1 .. Len(g)
    BY Zenon, <2>2
  <2>4. Len([g EXCEPT ![r] = Gone]) = Len(g)
    <3>1. [g EXCEPT ![r] = Gone] \in Rows
      BY Zenon, GrowsFacts
    <3> DEFINE k == [g EXCEPT ![r] = Gone]
    <3> HIDE DEF k
    <3>2. k \in Seq(Elements \cup {Gone}) /\ DOMAIN k = 1 .. Len(g)
      BY Zenon, <2>3, <3>1 DEF Rows, k
    <3>3. Len(k) = Len(g)
      BY <1>0, <3>2
    <3> QED
      BY Zenon, <3>3 DEF k
  <2>5. \A q \in 1 .. Len(g) : [g EXCEPT ![r] = Gone][q] = g[q] \/ [g EXCEPT ![r] = Gone][q] = Gone
    BY Zenon, <2>2
  <2> QED
    BY Zenon, <2>4, <2>5 DEF Only
<1> QED
  BY Zenon, <1>1, <1>2

\* addVertex: the new row is in no other graph of the session.
LEMMA AddVertexStep == IInv /\ AddVertex => IInv'
<1> SUFFICES ASSUME IInv, AddVertex PROVE IInv'
  BY Zenon
<1> DEFINE c == st.checkpoint
           b == st.savepoints
           g == st.graph
           e == born + 1
           k == Append(g, e)
<1>0. /\ c \in Rows /\ b \in Seq(Blocks) /\ g \in Rows /\ Whole \subseteq 1 .. born /\ born \in Nat
      /\ Grows(c, g) /\ Types /\ st \in Stores /\ e \in Elements /\ e \notin 1 .. born /\ e \in Nat
  <2>1. born < MaxElements
    BY Zenon DEF AddVertex
  <2> QED
    BY <2>1, Parts, GoneAssumption DEF IInv, Elements
<1>1. Chained(c, b, g) /\ Written(c, b, g, 1 .. born, Whole)
      /\ Handled(generations, next_generation, issued, c, b, g)
  BY Zenon DEF IInv
<1>2. /\ Ready /\ KeepFile /\ partial' = partial /\ born' = e
      /\ Mutate(st, k).ok /\ st' = Mutate(st, k).store /\ Issue(k, {Len(k)})
  BY Zenon DEF AddVertex
<1> HIDE DEF c, b, g, e, k
<1>3. /\ k \in Rows /\ Len(k) = Len(g) + 1 /\ k[Len(g) + 1] = e /\ Grows(g, k) /\ Len(g) \in Nat
  BY <1>0, GrowsFacts DEF k, Rows
<1>4. /\ ~Marked(b) /\ ~st.closed /\ st' \in Stores /\ st'.checkpoint = c /\ st'.savepoints = b
      /\ st'.graph = k /\ ~st'.closed
  <2>1. \/ Mutate(st, k).ok = FALSE
        \/ /\ ~Marked(st.savepoints) /\ ~st.closed
           /\ Is(Mutate(st, k).store, st.checkpoint, st.savepoints, k)
           /\ Mutate(st, k).store.closed = st.closed
    BY Zenon, <1>0, <1>3, MutateFacts
  <2> QED
    BY Zenon, <1>2, <2>1 DEF Is, b, c
<1>5. Chained(c, b, k)
  BY Zenon, <1>0, <1>1, <1>3, ChainFacts
<1>6. partial \subseteq 1 .. born /\ born' \in 0 .. MaxElements /\ 1 .. born \subseteq 1 .. e
  BY <1>0, <1>2, GoneAssumption DEF Types, Elements
<1>7. Whole' = Whole \cup {e} /\ e \in 1 .. e
  BY <1>0, <1>2, <1>6 DEF Whole, e
<1>8. Written(c, b, k, 1 .. e, Whole')
  <2>1. Written(c, b, g, 1 .. e, Whole')
    BY Zenon, <1>1, <1>6, <1>7, WrittenGrows
  <2>2. Only(g, Whole')
    BY Zenon, <1>4, <2>1 DEF Written
  <2>3. Only(k, Whole')
    BY Zenon, <1>0, <1>7, <2>2, OnlyFacts DEF k
  <2>4. Whole' \subseteq 1 .. e
    BY Zenon, <1>0, <1>6, <1>7
  <2> QED
    BY Zenon, <1>0, <1>4, <2>1, <2>3, <2>4, WrittenFacts
<1>9. /\ generations' \in [DOMAIN generations' -> Nat] /\ DOMAIN generations' \subseteq Nat
      /\ next_generation' \in Nat /\ issued' \subseteq Handles
      /\ Handled(generations', next_generation', issued', c, b, k)
  <2>1. IsFiniteSet({Len(k)}) /\ {Len(k)} \subseteq Nat
    <3>1. Len(k) \in Nat
      BY <1>3
    <3> QED
      BY Zenon, <3>1, FS_Singleton
  <2>2. 1 .. Len(g) \subseteq 1 .. Len(k) /\ {Len(k)} \subseteq 1 .. Len(k)
    BY <1>3
  <2>3. \A r \in {Len(k)} : k[r] \in Elements \cup {Gone}
    BY Zenon, <1>0, <1>3
  <2>4. Carried(c, b, g, c, b, k)
    BY Zenon, <1>0, <1>3, MeansFacts DEF Carried
  <2>5. ASSUME NEW h, h.row \in {Len(k)}, h.element = k[h.row]
        PROVE  MeansInAll(c, b, k, h)
    <3>1. h.row = Len(g) + 1
      BY Zenon, <1>3, <2>5
    <3>2. \A x \in Rows : Grows(x, g) => Means(x, h)
      <4>1. \A x \in Rows : Len(x) \in Nat
        BY DEF Rows
      <4> QED
        BY <1>3, <3>1, <4>1 DEF Grows, Means
    <3>3. \A i \in 1 .. Len(b) : b[i].graph \in Rows
      <4>1. \A i \in 1 .. Len(b) : b[i] \in Blocks
        BY <1>0
      <4> QED
        BY Zenon, <4>1 DEF Blocks
    <3>4. Means(k, h)
      BY Zenon, <2>5 DEF Means
    <3> QED
      BY Zenon, <1>0, <1>1, <3>2, <3>3, <3>4 DEF MeansInAll, Chained
  <2>6. RightFor(k, {Len(k)}, c, b, k)
    BY <2>5 DEF RightFor
  <2>7. Types /\ Handled(generations, next_generation, issued, c, b, g) /\ Issue(k, {Len(k)})
    BY Zenon, <1>0, <1>1, <1>2
  <2> QED
    BY SMTT(30), <2>1, <2>2, <2>3, <2>4, <2>6, <2>7, IssueFacts
<1>10. Whole \subseteq Whole' /\ partial' \subseteq 1 .. born'
  BY Zenon, <1>2, <1>6, <1>7
<1> QED
  BY Zenon, <1>2, <1>4, <1>5, <1>6, <1>8, <1>9, <1>10, DoneStep DEF c

\* addVertex that fails: its row stays only in a block that is now marked.
LEMMA AddVertexFailsStep == IInv /\ AddVertexFails => IInv'
<1> SUFFICES ASSUME IInv, AddVertexFails PROVE IInv'
  BY Zenon
<1> DEFINE c == st.checkpoint
           b == st.savepoints
           g == st.graph
           e == born + 1
           k == Append(g, e)
           t == MutationFails(st, k).store
<1>0. /\ c \in Rows /\ b \in Seq(Blocks) /\ g \in Rows /\ Whole \subseteq 1 .. born /\ born \in Nat
      /\ Grows(c, g) /\ Types /\ st \in Stores /\ e \in Elements /\ e \notin 1 .. born /\ e \in Nat
  <2>1. born < MaxElements
    BY Zenon DEF AddVertexFails
  <2> QED
    BY <2>1, Parts, GoneAssumption DEF IInv, Elements
<1>1. Chained(c, b, g) /\ Written(c, b, g, 1 .. born, Whole)
  BY Zenon DEF IInv
<1>2. /\ Ready /\ KeepFile /\ partial' = partial \cup {e} /\ born' = e /\ st' = t
      /\ UNCHANGED <<next_generation, issued>>
      /\ (InBlock(st) => generations' = generations) /\ (~InBlock(st) => prune_handles(st'))
  BY Zenon DEF AddVertexFails
<1> HIDE DEF c, b, g, e, k, t
<1>3. /\ k \in Rows /\ Len(k) = Len(g) + 1 /\ Grows(g, k) /\ Len(g) \in Nat
  BY <1>0, GrowsFacts DEF k, Rows
<1>4. partial' \subseteq 1 .. born' /\ born' \in 0 .. MaxElements /\ 1 .. born \subseteq 1 .. e
  BY <1>0, <1>2, GoneAssumption DEF Types, Elements
<1>5. Whole' = Whole /\ e \in 1 .. e
  BY <1>0, <1>2, <1>4 DEF Whole, e
<1>6. \/ Kept(st, t)
      \/ /\ ~Marked(b) /\ ~st.closed /\ InBlock(st) /\ t \in Stores /\ t.checkpoint = c
         /\ t.graph = k /\ t.closed = st.closed /\ SameGraphs(b, t.savepoints) /\ Marked(t.savepoints)
  <2>1. Kept(st, t) \/ FailedWith(st, k, t)
    BY Zenon, <1>0, <1>3, MutationFailsFacts DEF t
  <2> QED
    BY Zenon, <2>1 DEF FailedWith, b, c
<1>7. CASE Kept(st, t)
  <2>1. generations' = generations \/ prune_handles(st')
    BY Zenon, <1>2
  <2>2. born <= born'
    BY <1>0, <1>2 DEF e
  <2> QED
    BY Zenon, <1>2, <1>4, <1>5, <1>7, <2>1, <2>2, KeptStep
<1>8. CASE ~Kept(st, t)
  <2> DEFINE a == t.savepoints
  <2>1. /\ ~Marked(b) /\ ~st.closed /\ InBlock(st) /\ t \in Stores /\ t.checkpoint = c
        /\ t.graph = k /\ ~t.closed /\ SameGraphs(b, a) /\ Marked(a)
    BY Zenon, <1>6, <1>8
  <2> HIDE DEF a
  <2>2. a \in Seq(Blocks)
    BY Zenon, <2>1 DEF SameGraphs
  <2>3. Chained(c, a, k)
    BY Zenon, <1>0, <1>1, <1>3, <2>1, <2>2, ChainFacts
  <2>4. Written(c, a, k, 1 .. e, Whole)
    <3>1. Written(c, b, g, 1 .. e, Whole)
      BY Zenon, <1>1, <1>4, WrittenGrows
    <3>2. Only(g, 1 .. e)
      BY Zenon, <3>1 DEF Written
    <3>3. Only(k, 1 .. e)
      BY Zenon, <1>0, <1>5, <3>2, OnlyFacts DEF k
    <3>4. Whole \subseteq 1 .. e
      BY Zenon, <1>0, <1>4
    <3> QED
      BY Zenon, <1>0, <2>1, <3>1, <3>3, <3>4, WrittenFacts
  <2>5. ASSUME NEW h, h.row \in 1 .. Len(g), MeansInAll(c, b, g, h)
        PROVE  MeansInAll(c, a, k, h)
    <3>1. MeansInAll(c, a, g, h)
      BY Zenon, <1>0, <2>1, <2>5, MeansFacts
    <3> QED
      BY Zenon, <1>0, <1>3, <2>2, <2>5, <3>1, MeansFacts
  <2>6. generations' = generations /\ Len(g) <= Len(k) /\ Carried(c, b, g, c, a, k)
    BY <1>2, <1>3, <2>1, <2>5 DEF Carried
  <2>7. st' = t /\ st'.checkpoint = c /\ st'.graph = k /\ st'.savepoints = a
    BY Zenon, <1>2, <2>1 DEF a
  <2> QED
    BY Zenon, <1>2, <1>4, <1>5, <2>1, <2>3, <2>4, <2>6, <2>7, QuietStep DEF c, b, g
<1> QED
  BY Zenon, <1>7, <1>8

\* A request that leaves the elements alone.
LEMMA SameElements ==
    ASSUME IInv, UNCHANGED <<born, partial>>
    PROVE  /\ born' \in 0 .. MaxElements /\ born <= born' /\ partial' \subseteq 1 .. born'
           /\ Whole' = Whole /\ 1 .. born' = 1 .. born
BY GoneAssumption DEF IInv, Types, Whole

\* remove: the row stays, without its element.
LEMMA RemoveElementStep ==
    ASSUME IInv, NEW h \in issued, RemoveElement(h)
    PROVE  IInv'
<1> DEFINE c == st.checkpoint
           b == st.savepoints
           g == st.graph
           k == [g EXCEPT ![h.row] = Gone]
<1>0. /\ c \in Rows /\ b \in Seq(Blocks) /\ g \in Rows /\ Whole \subseteq 1 .. born
      /\ Types /\ st \in Stores /\ h.row \in Nat
  BY Zenon, Parts DEF IInv, Types, Handles
<1>1. Chained(c, b, g) /\ Written(c, b, g, 1 .. born, Whole)
  BY Zenon DEF IInv
<1>2. Ready /\ KeepFile /\ UNCHANGED <<next_generation, issued, born, partial>>
  BY Zenon DEF RemoveElement
<1>3. /\ born' \in 0 .. MaxElements /\ born <= born' /\ partial' \subseteq 1 .. born'
      /\ Whole' = Whole /\ 1 .. born' = 1 .. born
  BY Zenon, <1>2, SameElements
<1>4. CASE Resolves(h, st.graph) /\ Mutate(st, k).ok
  <2>1. st' = Mutate(st, k).store /\ generations' = generations
    BY Zenon, <1>4 DEF RemoveElement
  <2> HIDE DEF c, b, g, k
  <2>2. k \in Rows /\ Grows(g, k)
    BY Zenon, <1>0, GrowsFacts DEF k
  <2>3. \/ Mutate(st, k).ok = FALSE
        \/ /\ ~Marked(st.savepoints) /\ ~st.closed
           /\ Is(Mutate(st, k).store, st.checkpoint, st.savepoints, k)
           /\ Mutate(st, k).store.closed = st.closed
    BY Zenon, <1>0, <2>2, MutateFacts
  <2>4. /\ ~Marked(b) /\ ~st.closed /\ st' \in Stores /\ st'.checkpoint = c /\ st'.savepoints = b
        /\ st'.graph = k /\ ~st'.closed
    BY Zenon, <1>4, <2>1, <2>3 DEF Is, b, c
  <2>5. Chained(c, b, k)
    BY Zenon, <1>0, <1>1, <2>2, ChainFacts
  <2>6. Written(c, b, k, 1 .. born, Whole)
    <3>1. Only(g, Whole)
      BY Zenon, <1>1, <2>4 DEF Written
    <3>2. Only(k, Whole)
      BY Zenon, <1>0, <3>1, OnlyFacts DEF k
    <3> QED
      BY Zenon, <1>0, <1>1, <2>4, <3>2, WrittenFacts
  <2>7. Carried(c, b, g, c, b, k)
    BY Zenon, <1>0, <2>2, MeansFacts DEF Carried
  <2>8. Len(g) <= Len(k)
    BY Zenon, <2>2 DEF Grows
  <2> QED
    BY Zenon, <1>2, <1>3, <2>1, <2>4, <2>5, <2>6, <2>7, <2>8, QuietStep DEF c, b, g
<1>5. CASE ~(Resolves(h, st.graph) /\ Mutate(st, k).ok)
  <2> DEFINE r == IF Resolves(h, st.graph) THEN Mutate(st, k) ELSE MutationFails(st, g)
  <2>1. st' = r.store /\ (generations' = generations \/ prune_handles(st'))
    BY Zenon DEF RemoveElement
  <2>2. k \in Rows
    BY Zenon, <1>0, GrowsFacts
  <2> HIDE DEF c, b, g, k
  <2>3. CASE Resolves(h, st.graph)
    <3>1. r = Mutate(st, k) /\ ~Mutate(st, k).ok
      BY Zenon, <1>5, <2>3
    <3>2. Kept(st, Mutate(st, k).store)
      BY Zenon, <1>0, <2>2, <3>1, MutateFacts
    <3> HIDE DEF r
    <3> QED
      BY Zenon, <1>2, <1>3, <2>1, <3>1, <3>2, KeptStep
  <2>4. CASE ~Resolves(h, st.graph)
    <3>1. r = MutationFails(st, g)
      BY Zenon, <2>4
    <3> DEFINE t == MutationFails(st, g).store
    <3>2. Kept(st, t) \/ FailedWith(st, g, t)
      BY Zenon, <1>0, MutationFailsFacts
    <3>3. st' = t
      BY Zenon, <2>1, <3>1
    <3> HIDE DEF t, r
    <3>4. FailedWith(st, g, t) => Kept(st, t)
      BY Zenon DEF FailedWith, Kept, g
    <3> QED
      BY Zenon, <1>2, <1>3, <2>1, <3>2, <3>3, <3>4, KeptStep
  <2> QED
    BY Zenon, <2>3, <2>4
<1> QED
  BY Zenon, <1>4, <1>5

\* Reading the live rows of a view gives out handles that are right.
LEMMA ReadStep == IInv /\ (Vertices \/ CommittedVertices) => IInv'
<1> SUFFICES ASSUME IInv, Vertices \/ CommittedVertices PROVE IInv'
  BY Zenon
<1> DEFINE c == st.checkpoint
           b == st.savepoints
           g == st.graph
<1>0. /\ c \in Rows /\ b \in Seq(Blocks) /\ g \in Rows /\ Types /\ st \in Stores /\ Grows(c, g)
  BY Zenon, Parts DEF IInv
<1>1. /\ Chained(c, b, g) /\ Written(c, b, g, 1 .. born, Whole)
      /\ Handled(generations, next_generation, issued, c, b, g)
  BY Zenon DEF IInv
<1>2. Ready /\ KeepFile /\ st' = st /\ UNCHANGED <<born, partial>>
  BY Zenon DEF Vertices, CommittedVertices
<1>3. /\ born' \in 0 .. MaxElements /\ born <= born' /\ partial' \subseteq 1 .. born'
      /\ Whole' = Whole /\ 1 .. born' = 1 .. born
  BY Zenon, <1>2, SameElements
<1>4. PICK k \in {c, g} : Issue(k, Live(k)) /\ ~st.closed
  <2>1. CASE Vertices
    BY Zenon, <1>0, <2>1, ReadFacts DEF Vertices
  <2>2. CASE CommittedVertices
    BY Zenon, <1>0, <2>2, ReadFacts DEF CommittedVertices
  <2> QED
    BY Zenon, <2>1, <2>2
<1> HIDE DEF c, b, g
<1>5. /\ Len(k) \in Nat /\ Len(g) \in Nat /\ DOMAIN k = 1 .. Len(k) /\ Len(k) <= Len(g)
      /\ \A r \in 1 .. Len(k) : k[r] \in Elements \cup {Gone}
  BY <1>0 DEF Rows, Grows
<1>6. /\ Live(k) \subseteq 1 .. Len(k) /\ Live(k) \subseteq Nat /\ 1 .. Len(k) \subseteq 1 .. Len(g)
      /\ \A r \in Live(k) : k[r] # Gone
  BY <1>5 DEF Live
<1>7. IsFiniteSet(Live(k))
  <2>1. IsFiniteSet(1 .. Len(k))
    BY <1>5, FS_Interval
  <2> QED
    BY Zenon, <1>6, <2>1, FS_Subset
<1>8. RightFor(k, Live(k), c, b, g)
  <2> SUFFICES ASSUME NEW h, h.row \in Live(k), h.element = k[h.row] PROVE MeansInAll(c, b, g, h)
    BY Zenon DEF RightFor
  <2>1. h.row \in 1 .. Len(k) /\ h.row \in Nat /\ k[h.row] # Gone
    BY Zenon, <1>6
  <2> QED
    BY Zenon, <1>0, <1>1, <2>1, RowMeans
<1>9. Carried(c, b, g, c, b, g)
  BY Zenon DEF Carried
<1>10. /\ generations' \in [DOMAIN generations' -> Nat] /\ DOMAIN generations' \subseteq Nat
       /\ next_generation' \in Nat /\ issued' \subseteq Handles
       /\ Handled(generations', next_generation', issued', c, b, g)
  <2>1. Live(k) \subseteq 1 .. Len(g) /\ \A r \in Live(k) : k[r] \in Elements \cup {Gone}
    BY Zenon, <1>5, <1>6
  <2> QED
    BY Zenon, <1>0, <1>1, <1>4, <1>6, <1>7, <1>8, <1>9, <2>1, IssueFacts
<1> QED
  BY Zenon, <1>0, <1>1, <1>2, <1>3, <1>4, <1>10, DoneStep DEF c, b, g

\* The requests that fail.
LEMMA FailingStep == IInv /\ (RequestFails \/ CommitError) => IInv'
<1> SUFFICES ASSUME IInv, RequestFails \/ CommitError PROVE IInv'
  BY Zenon
<1>1. Ready /\ KeepFile /\ UNCHANGED <<generations, next_generation, issued, born, partial>>
  BY Zenon DEF RequestFails, CommitError, KeepHandles
<1>2. Kept(st, st')
  BY Zenon, Parts, ReadFacts DEF RequestFails, CommitError
<1> QED
  BY Zenon, <1>1, <1>2, SameElements, KeptStep

\* A savepoint is one more graph to return to.
LEMMA TakeSavepointStep == IInv /\ TakeSavepoint => IInv'
<1> SUFFICES ASSUME IInv, TakeSavepoint PROVE IInv'
  BY Zenon
<1> DEFINE c == st.checkpoint
           b == st.savepoints
           g == st.graph
<1>0. /\ c \in Rows /\ b \in Seq(Blocks) /\ g \in Rows /\ st \in Stores /\ Whole \subseteq 1 .. born
      /\ Chained(c, b, g) /\ Written(c, b, g, 1 .. born, Whole)
  BY Zenon, Parts DEF IInv
<1>1. Ready /\ KeepFile /\ UNCHANGED <<generations, next_generation, issued, born, partial>>
      /\ st' = Savepoint(st).store
  BY Zenon DEF TakeSavepoint, KeepHandles
<1>2. /\ born' \in 0 .. MaxElements /\ born <= born' /\ partial' \subseteq 1 .. born'
      /\ Whole' = Whole /\ 1 .. born' = 1 .. born
  BY Zenon, <1>1, SameElements
<1>3. CASE Kept(st, st')
  BY Zenon, <1>1, <1>2, <1>3, KeptStep
<1>4. CASE ~Kept(st, st')
  <2>1. PICK y \in Blocks :
          /\ ~Marked(b) /\ ~st.closed /\ y.graph = g /\ y.failed = FALSE
          /\ Is(st', c, Append(b, y), g) /\ ~st'.closed
    BY Zenon, <1>0, <1>1, <1>4, SavepointFacts
  <2> HIDE DEF c, b, g
  <2>2. st' \in Stores /\ st'.checkpoint = c /\ st'.savepoints = Append(b, y) /\ st'.graph = g
    BY Zenon, <2>1 DEF Is
  <2>3. Chained(c, Append(b, y), g)
    BY Zenon, <1>0, <2>1, ChainFacts
  <2>4. Written(c, Append(b, y), g, 1 .. born, Whole)
    BY Zenon, <1>0, <2>1, WrittenFacts
  <2>5. Carried(c, b, g, c, Append(b, y), g)
    BY Zenon, <1>0, <2>1, MeansFacts DEF Carried
  <2>6. Len(g) <= Len(g)
    BY <1>0 DEF Rows
  <2> QED
    BY Zenon, <1>1, <1>2, <2>1, <2>2, <2>3, <2>4, <2>5, <2>6, QuietStep DEF c, b, g
<1> QED
  BY Zenon, <1>3, <1>4

\* Completing a block: rolled back, the writer returns to the block's graph and
\* the handles of later rows are forgotten.
LEMMA CompletionStep ==
    ASSUME IInv, NEW id, RollbackToSavepoint(id) \/ ReleaseSavepoint(id)
    PROVE  IInv'
<1> DEFINE c == st.checkpoint
           b == st.savepoints
           g == st.graph
           k == b[Len(b)].graph
<1>0. /\ c \in Rows /\ b \in Seq(Blocks) /\ g \in Rows /\ st \in Stores /\ Whole \subseteq 1 .. born
      /\ Chained(c, b, g) /\ Written(c, b, g, 1 .. born, Whole)
  BY Zenon, Parts DEF IInv
<1>1. Ready /\ KeepFile /\ UNCHANGED <<next_generation, issued, born, partial>>
  BY Zenon DEF RollbackToSavepoint, ReleaseSavepoint, KeepHandles
<1>2. /\ born' \in 0 .. MaxElements /\ born <= born' /\ partial' \subseteq 1 .. born'
      /\ Whole' = Whole /\ 1 .. born' = 1 .. born
  BY Zenon, <1>1, SameElements
<1>3. CASE Kept(st, st')
  <2>1. generations' = generations \/ prune_handles(st')
    BY Zenon DEF RollbackToSavepoint, ReleaseSavepoint, KeepHandles
  <2> QED
    BY Zenon, <1>1, <1>2, <1>3, <2>1, KeptStep
<1>4. CASE ~Kept(st, st') /\ RollbackToSavepoint(id)
  <2> DEFINE r == RollbackTo(st, id)
  <2>1. st' = r.store /\ (r.ok = TRUE => prune_handles(r.store))
    BY Zenon, <1>4 DEF RollbackToSavepoint
  <2>2. \/ r.ok = FALSE /\ Kept(st, r.store)
        \/ /\ r.ok = TRUE /\ ~st.closed /\ b # <<>>
           /\ Is(r.store, c, Pop(b), k) /\ ~r.store.closed
    BY Zenon, <1>0, CompletionFacts
  <2> HIDE DEF r, c, b, g, k
  <2>3. /\ ~st.closed /\ b # <<>> /\ ~st'.closed /\ prune_handles(st')
        /\ st' \in Stores /\ st'.checkpoint = c /\ st'.savepoints = Pop(b) /\ st'.graph = k
    BY Zenon, <1>4, <2>1, <2>2 DEF Is
  <2>4. Chained(c, Pop(b), k)
    BY Zenon, <1>0, <2>3, ChainFacts DEF k
  <2>5. Written(c, Pop(b), k, 1 .. born, Whole)
    BY Zenon, <1>0, <2>3, WrittenFacts DEF k
  <2>6. Carried(c, b, g, c, Pop(b), k)
    BY Zenon, <1>0, <2>3, MeansFacts DEF Carried, k
  <2> QED
    BY Zenon, <1>1, <1>2, <2>3, <2>4, <2>5, <2>6, QuietStep DEF c, b, g
<1>5. CASE ~Kept(st, st') /\ ReleaseSavepoint(id)
  <2> DEFINE r == Release(st, id)
  <2>1. st' = r.store /\ generations' = generations
    BY Zenon, <1>5 DEF ReleaseSavepoint, KeepHandles
  <2>2. \/ Kept(st, r.store)
        \/ /\ ~Marked(b) /\ ~st.closed /\ b # <<>>
           /\ Is(r.store, c, Pop(b), g) /\ ~r.store.closed
    BY Zenon, <1>0, CompletionFacts
  <2> HIDE DEF r, c, b, g, k
  <2>3. /\ ~Marked(b) /\ ~st.closed /\ b # <<>> /\ ~st'.closed
        /\ st' \in Stores /\ st'.checkpoint = c /\ st'.savepoints = Pop(b) /\ st'.graph = g
    BY Zenon, <1>5, <2>1, <2>2 DEF Is
  <2>4. Chained(c, Pop(b), g)
    BY Zenon, <1>0, <2>3, ChainFacts
  <2>5. Written(c, Pop(b), g, 1 .. born, Whole)
    BY Zenon, <1>0, <2>3, WrittenFacts
  <2>6. Carried(c, b, g, c, Pop(b), g)
    BY Zenon, <1>0, <2>3, MeansFacts DEF Carried
  <2>7. Len(g) <= Len(g)
    BY <1>0 DEF Rows
  <2> QED
    BY Zenon, <1>1, <1>2, <2>1, <2>3, <2>4, <2>5, <2>6, <2>7, QuietStep DEF c, b, g
<1> QED
  BY Zenon, <1>3, <1>4, <1>5

\* A rollback returns to the checkpoint.
LEMMA RollbackAllStep == IInv /\ RollbackAll => IInv'
<1> SUFFICES ASSUME IInv, RollbackAll PROVE IInv'
  BY Zenon
<1> DEFINE c == st.checkpoint
           b == st.savepoints
           g == st.graph
           r == Rollback(st)
<1>0. /\ c \in Rows /\ b \in Seq(Blocks) /\ g \in Rows /\ st \in Stores /\ Whole \subseteq 1 .. born
      /\ Chained(c, b, g) /\ Written(c, b, g, 1 .. born, Whole)
  BY Zenon, Parts DEF IInv
<1>1. /\ Ready /\ KeepFile /\ UNCHANGED <<next_generation, issued, born, partial>> /\ st' = r.store
      /\ IF r.ok THEN prune_handles(r.store) ELSE UNCHANGED generations
  BY Zenon DEF RollbackAll
<1>2. /\ born' \in 0 .. MaxElements /\ born <= born' /\ partial' \subseteq 1 .. born'
      /\ Whole' = Whole /\ 1 .. born' = 1 .. born
  BY Zenon, <1>1, SameElements
<1>3. \/ r.ok = FALSE /\ Kept(st, r.store)
      \/ /\ r.ok = TRUE /\ ~st.closed /\ b = <<>>
         /\ Is(r.store, c, b, c) /\ ~r.store.closed
  BY Zenon, <1>0, FinishFacts
<1> HIDE DEF r, c, b, g
<1>4. CASE r.ok = FALSE
  <2>1. generations' = generations /\ Kept(st, st')
    BY Zenon, <1>1, <1>3, <1>4
  <2> QED
    BY Zenon, <1>1, <1>2, <2>1, KeptStep
<1>5. CASE r.ok = TRUE
  <2>1. /\ ~st.closed /\ b = <<>> /\ ~st'.closed /\ prune_handles(st')
        /\ st' \in Stores /\ st'.checkpoint = c /\ st'.savepoints = b /\ st'.graph = c
    BY Zenon, <1>1, <1>3, <1>5 DEF Is
  <2>2. Chained(c, b, c)
    BY Zenon, <1>0, <2>1, ChainFacts
  <2>3. Written(c, b, c, 1 .. born, Whole)
    BY Zenon, <1>0, <2>1, WrittenFacts
  <2>4. Carried(c, b, g, c, b, c)
    BY Zenon, <1>0, MeansFacts DEF Carried
  <2> QED
    BY Zenon, <1>1, <1>2, <2>1, <2>2, <2>3, <2>4, QuietStep DEF c, b, g
<1> QED
  BY Zenon, <1>3, <1>4, <1>5

\* The rename makes the graph of a session without blocks the file.
LEMMA PersistStep == IInv /\ Persist => IInv'
<1> SUFFICES ASSUME IInv, Persist PROVE IInv'
  BY Zenon
<1>0. st \in Stores /\ st.graph \in Rows /\ Written(st.checkpoint, st.savepoints, st.graph, 1 .. born, Whole)
  BY Zenon, Parts DEF IInv
<1>1. /\ up /\ disk' = st.graph /\ persisting' = TRUE /\ st' = st /\ Commit(st).ok
      /\ UNCHANGED <<up, sessions, born, partial, generations, next_generation, issued>>
  BY Zenon DEF Persist, Ready, KeepHandles
<1>2. ~st.closed /\ st.savepoints = <<>>
  BY Zenon, <1>0, <1>1, FinishFacts
<1>3. Only(disk', Whole) /\ Whole' = Whole
  BY Zenon, <1>0, <1>1, <1>2 DEF Written, Marked, Whole
<1>4. Types'
  BY Zenon, <1>0, <1>1 DEF IInv, Types
<1>5. Committing' /\ FileIsTheCheckpoint'
  BY Zenon, <1>1, <1>2 DEF Committing, FileIsTheCheckpoint
<1> QED
  BY Zenon, <1>1, <1>3, <1>4, <1>5 DEF IInv

\* The checkpoint follows the file.
LEMMA CommitReturnsStep == IInv /\ CommitReturns => IInv'
<1> SUFFICES ASSUME IInv, CommitReturns PROVE IInv'
  BY Zenon
<1> DEFINE c == st.checkpoint
           b == st.savepoints
           g == st.graph
<1>0. /\ c \in Rows /\ b \in Seq(Blocks) /\ g \in Rows /\ st \in Stores /\ Whole \subseteq 1 .. born
      /\ Chained(c, b, g) /\ Written(c, b, g, 1 .. born, Whole) /\ Types
      /\ Handled(generations, next_generation, issued, c, b, g) /\ Only(disk, Whole)
  BY Zenon, Parts DEF IInv
<1>1. /\ up /\ persisting /\ persisting' = FALSE /\ st' = Commit(st).store /\ prune_handles(st')
      /\ UNCHANGED <<up, disk, sessions, next_generation, issued, born, partial>>
  BY Zenon DEF CommitReturns
<1>2. ~st.closed /\ b = <<>> /\ disk = g
  BY Zenon, <1>1 DEF IInv, Committing, FileIsTheCheckpoint
<1>3. Commit(st).ok
  BY Zenon, <1>2 DEF Commit, Request, Poisoned, InBlock, Done
<1>4. st' \in Stores /\ st'.checkpoint = g /\ st'.savepoints = b /\ st'.graph = g /\ ~st'.closed
  BY Zenon, <1>0, <1>1, <1>3, FinishFacts DEF Is
<1> HIDE DEF c, b, g
<1>5. Chained(g, b, g) /\ Written(g, b, g, 1 .. born, Whole)
  BY Zenon, <1>0, <1>2, ChainFacts, WrittenFacts
<1>6. Carried(c, b, g, g, b, g)
  BY Zenon, <1>0, MeansFacts DEF Carried
<1>7. Grows(g, g)
  BY Zenon, <1>0, GrowsFacts
<1>8. Fewer(generations, generations', g)
  BY Zenon, <1>0, <1>1, <1>4, <1>7, PruneFacts
<1>9. Handled(generations', next_generation, issued, g, b, g)
  BY Zenon, <1>0, <1>6, <1>8, HandledFewer
<1>10. Whole' = Whole
  BY Zenon, <1>1 DEF Whole
<1>11. Types'
  BY Zenon, <1>0, <1>1, <1>4, <1>8 DEF Types, Fewer
<1>12. Committing' /\ FileIsTheCheckpoint'
  BY Zenon, <1>1, <1>2, <1>4 DEF Committing, FileIsTheCheckpoint
<1> QED
  BY Zenon, <1>0, <1>1, <1>4, <1>5, <1>9, <1>10, <1>11, <1>12 DEF IInv

\* A closed store keeps nothing that a handle could reach.
LEMMA CloseStep == IInv /\ CloseStore => IInv'
<1> SUFFICES ASSUME IInv, CloseStore PROVE IInv'
  BY Zenon
<1> DEFINE c == st.checkpoint
           e == <<>>
<1>0. /\ c \in Rows /\ st \in Stores /\ Whole \subseteq 1 .. born /\ Types
      /\ Only(c, Whole) /\ Only(disk, Whole)
      /\ \A h \in issued : h.generation < next_generation
  BY Zenon, Parts DEF IInv, Written, Handled
<1>1. /\ ~persisting /\ ~st.closed /\ st' = Close(st, e).store /\ generations' = <<>>
      /\ UNCHANGED <<up, disk, persisting, sessions, next_generation, issued, born, partial>>
  BY Zenon DEF CloseStore, Ready, KeepFile
<1>2. st' \in Stores /\ st'.checkpoint = e /\ st'.savepoints = e /\ st'.graph = c /\ st'.closed = TRUE
  BY Zenon, <1>0, <1>1, CloseFacts DEF Is
<1>3. Len(e) = 0 /\ Len(c) \in Nat
  BY <1>0 DEF Rows
<1>4. DOMAIN generations' = {} /\ generations' \in [DOMAIN generations' -> Nat]
  BY <1>1
<1> HIDE DEF c, e
<1>5. Chained(e, e, c)
  BY <1>3 DEF Chained, Grows
<1>6. Written(e, e, c, 1 .. born, Whole)
  <2>1. Only(c, 1 .. born)
    BY Zenon, <1>0 DEF Only
  <2>2. Only(e, Whole)
    BY <1>3 DEF Only
  <2> QED
    BY <1>0, <1>3, <2>1, <2>2 DEF Written
<1>7. Handled(generations', next_generation, issued, e, e, c)
  BY Zenon, <1>0, <1>4 DEF Handled, Current
<1>8. Whole' = Whole
  BY Zenon, <1>1 DEF Whole
<1>9. Types'
  BY Zenon, <1>0, <1>1, <1>2, <1>4 DEF Types
<1>10. Committing' /\ FileIsTheCheckpoint'
  BY Zenon, <1>1, <1>2, <1>4 DEF Committing, FileIsTheCheckpoint, e
<1> QED
  BY Zenon, <1>0, <1>1, <1>2, <1>5, <1>6, <1>7, <1>8, <1>9, <1>10 DEF IInv

\* A process that ends leaves the file as it is.
LEMMA CrashStep == IInv /\ Crash => IInv'
<1> SUFFICES ASSUME IInv, Crash PROVE IInv'
  BY Zenon
<1>1. /\ up' = FALSE /\ persisting' = FALSE
      /\ UNCHANGED <<st, disk, generations, next_generation, born, sessions, issued, partial>>
  BY Zenon DEF Crash
<1>2. Types'
  BY Zenon, <1>1 DEF IInv, Types
<1>3. Committing' /\ FileIsTheCheckpoint'
  BY Zenon, <1>1 DEF IInv, Committing, FileIsTheCheckpoint
<1>4. Whole' = Whole
  BY Zenon, <1>1 DEF Whole
<1> QED
  BY Zenon, <1>1, <1>2, <1>3, <1>4 DEF IInv

\* A new session starts from the file, which holds only what may be committed.
LEMMA OpenStep == IInv /\ Open => IInv'
<1> SUFFICES ASSUME IInv, Open PROVE IInv'
  BY Zenon
<1> DEFINE d == disk
           e == <<>>
<1>0. d \in Rows /\ e \in Seq(Blocks) /\ Types /\ Only(d, Whole) /\ Whole \subseteq 1 .. born
      /\ Len(e) = 0 /\ Len(d) \in Nat
  BY Parts DEF IInv, Types, Rows
<1>1. /\ ~up /\ up' = TRUE /\ st' = NewStore(d) /\ generations' = <<>> /\ next_generation' = 1 /\ issued' = {}
      /\ sessions' = sessions + 1
      /\ UNCHANGED <<disk, persisting, born, partial>>
  BY Zenon DEF Open
<1>2. st' \in Stores /\ st'.checkpoint = d /\ st'.savepoints = e /\ st'.graph = d /\ st'.closed = FALSE
  <2>1. st' = [graph |-> d, checkpoint |-> d, savepoints |-> e, next_savepoint |-> 1, closed |-> FALSE]
    BY Zenon, <1>1 DEF NewStore
  <2> HIDE DEF d, e
  <2> QED
    BY Zenon, <1>0, <2>1 DEF Stores
<1>3. ~persisting
  BY Zenon, <1>1 DEF IInv, Committing
<1>4. DOMAIN generations' = {} /\ generations' \in [DOMAIN generations' -> Nat]
  BY <1>1
<1>5. Types'
  BY <1>0, <1>1, <1>2, <1>4 DEF Types
<1>6. Committing' /\ FileIsTheCheckpoint'
  BY Zenon, <1>1, <1>2, <1>3 DEF Committing, FileIsTheCheckpoint
<1>7. Whole' = Whole
  BY Zenon, <1>1 DEF Whole
<1> HIDE DEF d, e
<1>8. Chained(d, e, d)
  BY SMTT(30), <1>0, GrowsFacts DEF Chained
<1>9. Written(d, e, d, 1 .. born, Whole)
  <2>1. Only(d, 1 .. born)
    BY Zenon, <1>0 DEF Only
  <2> QED
    BY <1>0, <2>1 DEF Written
<1>10. Handled(generations', next_generation', issued', d, e, d)
  BY Zenon, <1>1, <1>4 DEF Handled
<1> QED
  BY ZenonT(30), <1>0, <1>1, <1>2, <1>5, <1>6, <1>7, <1>8, <1>9, <1>10 DEF IInv, d

\* Every step keeps the invariant.
LEMMA StepInv == IInv /\ [Next]_vars => IInv'
<1> SUFFICES ASSUME IInv, [Next]_vars PROVE IInv'
  BY Zenon
<1>1. CASE UNCHANGED vars
  BY Zenon, <1>1 DEF vars, IInv, Types, Committing, FileIsTheCheckpoint, Whole
<1>2. CASE \E h \in issued : RemoveElement(h)
  BY Zenon, <1>2, RemoveElementStep
<1>3. CASE \E id \in 1 .. MaxSavepoints : RollbackToSavepoint(id) \/ ReleaseSavepoint(id)
  BY Zenon, <1>3, CompletionStep
<1> QED
  BY ZenonT(30), <1>1, <1>2, <1>3, AddVertexStep, AddVertexFailsStep, ReadStep, FailingStep, TakeSavepointStep,
     RollbackAllStep, PersistStep, CommitReturnsStep, CloseStep, CrashStep, OpenStep DEF Next

-----------------------------------------------------------------------------
\* The committed view is the snapshot file, except between the rename and the
\* end of a commit, wherever the process ends.
THEOREM FileHoldsTheCheckpoint == Spec => []FileIsTheCheckpoint
<1>1. IInv => FileIsTheCheckpoint
  BY Zenon DEF IInv
<1> QED
  BY <1>1, InitInv, StepInv, PTL DEF Spec

\* A handle never reaches an element other than the one it was given for, for
\* any number of elements, savepoints and blocks inside one another.
THEOREM HandlesMeanTheirElement == Spec => []HandlesNeverAlias
<1>1. IInv => HandlesNeverAlias
  <2> SUFFICES ASSUME IInv, NEW h \in issued, NEW g \in {st.graph, st.checkpoint}, Resolves(h, g)
               PROVE  g[h.row] = h.element
    BY Zenon DEF HandlesNeverAlias
  <2>1. g \in Rows
    BY Zenon, Parts
  <2>2. h.row \in 1 .. Len(g) /\ g[h.row] # Gone /\ Current(generations, h)
    BY <2>1 DEF Resolves, Live, Current, Rows
  <2>3. MeansInAll(st.checkpoint, st.savepoints, st.graph, h)
    BY Zenon, <2>2 DEF IInv, Handled
  <2>4. Means(g, h)
    BY Zenon, <2>3 DEF MeansInAll
  <2> QED
    BY Zenon, <2>2, <2>4 DEF Means
<1> QED
  BY <1>1, InitInv, StepInv, PTL DEF Spec

\* What a failed statement wrote is in no checkpoint and no snapshot file,
\* whichever savepoints surrounded the statement.
THEOREM FailedStatementsAreNotCommitted == Spec => []PartialWritesNeverCommit
<1>1. IInv => PartialWritesNeverCommit
  <2> SUFFICES ASSUME IInv, NEW x \in partial PROVE x \notin Range(st.checkpoint) /\ x \notin Range(disk)
    BY Zenon DEF PartialWritesNeverCommit
  <2>1. x # Gone /\ x \notin Whole
    <3>1. born \in 0 .. MaxElements /\ partial \subseteq 1 .. born
      BY Zenon DEF IInv, Types
    <3>2. x \in Elements
      BY <3>1, GoneAssumption DEF Elements
    <3> QED
      BY Zenon, <3>2, GoneAssumption DEF Whole
  <2>2. ASSUME NEW g \in Rows, Only(g, Whole) PROVE x \notin Range(g)
    <3>1. DOMAIN g = 1 .. Len(g)
      BY DEF Rows
    <3> QED
      BY Zenon, <2>1, <2>2, <3>1 DEF Only, Range
  <2>3. st.checkpoint \in Rows /\ disk \in Rows /\ Only(st.checkpoint, Whole) /\ Only(disk, Whole)
    BY Zenon, Parts DEF IInv, Types, Written
  <2> QED
    BY Zenon, <2>2, <2>3
<1> QED
  BY <1>1, InitInv, StepInv, PTL DEF Spec

\* What a step of a session does to the generations: nothing, it adds some, or
\* it forgets rows that are live in neither view.
LEMMA GenerationsStep ==
    ASSUME IInv, Next, ~st'.closed, sessions' = sessions
    PROVE  \/ generations' = generations
           \/ prune_handles(st')
           \/ \E graph, rows : Issue(graph, rows)
<1>1. ~CloseStore
  BY Zenon, Parts, CloseFacts DEF CloseStore
<1>2. ~Open
  BY DEF Open, IInv, Types
<1>3. CASE \E h \in issued : RemoveElement(h)
  BY Zenon, <1>3 DEF RemoveElement
<1>4. CASE \E id \in 1 .. MaxSavepoints : RollbackToSavepoint(id) \/ ReleaseSavepoint(id)
  BY Zenon, <1>4 DEF RollbackToSavepoint, ReleaseSavepoint, KeepHandles
<1>5. CASE AddVertex \/ Vertices \/ CommittedVertices
  BY Zenon, <1>5 DEF AddVertex, Vertices, CommittedVertices
<1>6. CASE AddVertexFails \/ RollbackAll \/ CommitReturns
  BY Zenon, <1>6 DEF AddVertexFails, RollbackAll, CommitReturns
<1>7. CASE RequestFails \/ TakeSavepoint \/ Persist \/ CommitError \/ Crash
  BY Zenon, <1>7 DEF RequestFails, TakeSavepoint, Persist, CommitError, Crash, KeepHandles
<1> QED
  BY Zenon, <1>1, <1>2, <1>3, <1>4, <1>5, <1>6, <1>7 DEF Next

\* A handle a committed reader can use stays usable until a commit moves the
\* checkpoint or the session ends, whatever the writer does meanwhile.
THEOREM CommittedHandlesStay == Spec => CommittedHandlesSurvive
<1>1. ASSUME IInv, Next, st'.checkpoint = st.checkpoint, ~st'.closed, sessions' = sessions,
             NEW h \in issued, Resolves(h, st.checkpoint)
      PROVE  Resolves(h, st.checkpoint)'
  <2>1. /\ h.row \in DOMAIN generations /\ generations[h.row] = h.generation
        /\ h.row \in Live(st.checkpoint) /\ h.row \in Live(st'.checkpoint)
    BY Zenon, <1>1 DEF Resolves
  <2>2. h.row \in DOMAIN generations' /\ generations'[h.row] = generations[h.row]
    <3>1. CASE generations' = generations
      BY Zenon, <2>1, <3>1
    <3>2. CASE prune_handles(st')
      BY Zenon, <2>1, <3>2 DEF prune_handles
    <3>3. CASE \E graph, rows : Issue(graph, rows)
      BY Zenon, <2>1, <3>3 DEF Issue, Generations
    <3> QED
      BY Zenon, <1>1, <3>1, <3>2, <3>3, GenerationsStep
  <2> QED
    BY Zenon, <2>1, <2>2 DEF Resolves
<1>2. IInv /\ [Next]_vars =>
        [st'.checkpoint = st.checkpoint /\ ~st'.closed /\ sessions' = sessions =>
            \A h \in issued : Resolves(h, st.checkpoint) => Resolves(h, st.checkpoint)']_vars
  BY Zenon, <1>1
<1> QED
  BY <1>2, InitInv, StepInv, PTL DEF Spec, CommittedHandlesSurvive
=============================================================================
