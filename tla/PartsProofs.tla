---------------------------- MODULE PartsProofs ----------------------------
(***************************************************************************)
(* Proofs about four parts that have nothing to do with each other:        *)
(* ExchangeServer, for any connections, partitions, lengths and limit;     *)
(* MappedEngine, for any set of statements; CatalogCache, for any callers, *)
(* identities and times; and DuckDbStream, for any queries, batches and    *)
(* size of the channel.                                                    *)
(***************************************************************************)
EXTENDS ExchangeServer, MappedEngine, CatalogCache, DuckDbStream, FiniteSetTheorems, TLAPS

(***************************************************************************)
(* The Arrow exchange.                                                     *)
(***************************************************************************)

States == {"idle", "queued", "request", "found", "stream", "leaving", "over"}
Active == {"request", "found", "stream", "leaving"}
Records == [pc : States, partition : Partitions \cup {NoConnection.partition},
            sent : 0 .. Length, seen : {"none", "error", "complete"}]

Types ==
    /\ registered \in BOOLEAN /\ cancelled \in BOOLEAN /\ stopped \in BOOLEAN /\ listening \in BOOLEAN
    /\ taken \subseteq OneShot
    /\ conn \in [Connections -> Records]

Counted ==
    /\ IsFiniteSet(Serving)
    /\ active = Cardinality(Serving)
    /\ active \in 0 .. MaxConnections

\* What a record says of its own connection: the worker has seen an end only of
\* a thread that leaves, a complete one only after all the batches; batches are
\* sent by an open stream.
Told(r) ==
    /\ r.seen # "none" => r.pc \in {"leaving", "over"}
    /\ r.seen = "complete" => r.sent = Length
    /\ r.sent > 0 => r.pc \in {"stream", "leaving", "over"}

\* The stream of the connection was opened, and may have been read.
WasOpened(r) == r.pc = "stream" \/ r.sent > 0

\* A one-shot partition that was opened is taken, and opened by one connection.
Once ==
    /\ \A c \in Connections :
          WasOpened(conn[c]) /\ conn[c].partition \in OneShot => conn[c].partition \in taken
    /\ \A c, d \in Connections :
          /\ WasOpened(conn[c]) /\ WasOpened(conn[d])
          /\ conn[c].partition = conn[d].partition /\ conn[c].partition \in OneShot
          => c = d

\* What the proofs below need of finite sets; the last section shows it.
Counting ==
    /\ IsFiniteSet({}) /\ Cardinality({}) = 0
    /\ \A S : IsFiniteSet(S) => Cardinality(S) \in Nat
    /\ \A S, x : IsFiniteSet(S) /\ x \notin S =>
          IsFiniteSet(S \cup {x}) /\ Cardinality(S \cup {x}) = Cardinality(S) + 1
    /\ \A S, x : IsFiniteSet(S) /\ x \in S =>
          IsFiniteSet(S \ {x}) /\ Cardinality(S \ {x}) = Cardinality(S) - 1

IInv == Types /\ Counted /\ (\A c \in Connections : Told(conn[c])) /\ Once

\* The properties follow from the invariant.
LEMMA InvImplies ==
    IInv => /\ CompleteMeansAll /\ OneShotReadOnce /\ ActiveCountsThreads
            /\ Partitions # {} => TypeOK
<1> SUFFICES ASSUME IInv
             PROVE  /\ CompleteMeansAll /\ OneShotReadOnce /\ ActiveCountsThreads
                    /\ Partitions # {} => TypeOK
  BY Zenon
<1>1. CompleteMeansAll /\ OneShotReadOnce
  BY Zenon DEF IInv, Told, Once, WasOpened, CompleteMeansAll, OneShotReadOnce
<1>2. ActiveCountsThreads
  BY Zenon DEF IInv, Counted, ActiveCountsThreads
<1>3. ASSUME Partitions # {} PROVE TypeOK
  <2>1. NoConnection.partition \in Partitions
    BY Zenon, <1>3 DEF NoConnection
  <2>2. Records = [pc : States, partition : Partitions, sent : 0 .. Length,
                   seen : {"none", "error", "complete"}]
    BY Zenon, <2>1 DEF Records
  <2> QED
    BY Zenon, <2>2 DEF IInv, Types, Counted, TypeOK, States
<1> QED
  BY Zenon, <1>1, <1>2, <1>3

\* No connection is made yet.
LEMMA InitInv == Counting /\ Init => IInv
<1> SUFFICES ASSUME Counting, Init PROVE IInv
  BY Zenon
<1>1. NoConnection \in Records /\ NoConnection.pc = "idle" /\ NoConnection.sent = 0 /\ NoConnection.seen = "none"
  BY LengthAssumption DEF NoConnection, Records, States
<1>2. Types
  BY Zenon, <1>1 DEF Init, Types
<1>3. Serving = {}
  BY Zenon, <1>1 DEF Init, Serving
<1>4. Counted
  BY <1>3, MaxConnectionsAssumption DEF Counting, Init, Counted
<1>5. \A c \in Connections : Told(conn[c]) /\ ~WasOpened(conn[c])
  BY <1>1 DEF Init, Told, WasOpened
<1> QED
  BY Zenon, <1>2, <1>4, <1>5 DEF IInv, Once

\* A step of one connection that does not open its stream: what it says of
\* itself and the count of the serving threads are enough.
LEMMA OneConnection ==
    ASSUME IInv, NEW c \in Connections, NEW r \in Records, conn' = [conn EXCEPT ![c] = r],
           UNCHANGED <<registered, cancelled, stopped, listening>>,
           taken \subseteq taken', taken' \subseteq OneShot,
           Told(r), WasOpened(r) => WasOpened(conn[c]) /\ r.partition = conn[c].partition,
           Counted'
    PROVE  IInv'
<1>1. Types'
  BY Zenon DEF IInv, Types
<1>2. \A d \in Connections : conn'[d] = IF d = c THEN r ELSE conn[d]
  BY Zenon DEF IInv, Types
<1>3. \A d \in Connections : Told(conn'[d])
  BY Zenon, <1>2 DEF IInv
<1>4. \A d \in Connections : WasOpened(conn'[d]) => WasOpened(conn[d]) /\ conn'[d].partition = conn[d].partition
  BY Zenon, <1>2
<1>5. Once'
  BY Zenon, <1>4 DEF IInv, Once
<1> QED
  BY Zenon, <1>1, <1>3, <1>5 DEF IInv

\* The thread of the connection serves before and after the step, or neither.
LEMMA SameCount ==
    ASSUME IInv, NEW c \in Connections, NEW r \in Records, conn' = [conn EXCEPT ![c] = r],
           conn[c].pc \in Active <=> r.pc \in Active, UNCHANGED active
    PROVE  Counted'
<1>1. \A d \in Connections : conn'[d] = IF d = c THEN r ELSE conn[d]
  BY Zenon DEF IInv, Types
<1>2. Serving' = Serving
  BY Zenon, <1>1 DEF Serving, Active
<1> QED
  BY Zenon, <1>2 DEF IInv, Counted

\* The record of the connection in its type, and its update.
LEMMA RecordFacts ==
    ASSUME Types, NEW c \in Connections
    PROVE  /\ conn[c] \in Records
           /\ \A at \in States : [conn[c] EXCEPT !.pc = at] \in Records
           /\ \A at \in States, seen \in {"none", "error", "complete"} :
                 [conn[c] EXCEPT !.pc = at, !.seen = seen] \in Records
           /\ \A at : [conn EXCEPT ![c].pc = at] = [conn EXCEPT ![c] = [conn[c] EXCEPT !.pc = at]]
           /\ \A at, seen : [conn EXCEPT ![c].pc = at, ![c].seen = seen] =
                            [conn EXCEPT ![c] = [conn[c] EXCEPT !.pc = at, !.seen = seen]]
BY Zenon DEF Types, Records

\* A connection whose thread still serves leaves with an error.
LEMMA LeaveInv ==
    ASSUME IInv, NEW c \in Connections, NEW seen \in {"error", "complete"},
           conn[c].pc \in {"request", "found", "stream"}, Leave(c, seen),
           seen = "complete" => conn[c].sent = Length,
           taken \subseteq taken', taken' \subseteq OneShot,
           UNCHANGED <<registered, cancelled, stopped, listening, active>>
    PROVE  IInv'
<1> DEFINE r == [conn[c] EXCEPT !.pc = "leaving", !.seen = seen]
<1>0. Types /\ conn' = [conn EXCEPT ![c].pc = "leaving", ![c].seen = seen]
      /\ "leaving" \in States /\ seen \in {"none", "error", "complete"}
  BY Zenon DEF IInv, Leave, States
<1>1. conn' = [conn EXCEPT ![c] = r] /\ r \in Records /\ conn[c] \in Records
  BY Zenon, <1>0, RecordFacts
<1>2. r.pc = "leaving" /\ r.seen = seen /\ r.sent = conn[c].sent /\ r.partition = conn[c].partition
  BY Zenon, <1>1 DEF Records
<1> HIDE DEF r
<1>3. Told(r)
  BY Zenon, <1>2 DEF Told
<1>4. WasOpened(r) => WasOpened(conn[c]) /\ r.partition = conn[c].partition
  BY Zenon, <1>2 DEF WasOpened
<1>5. conn[c].pc \in Active <=> r.pc \in Active
  BY Zenon, <1>2 DEF Active
<1>6. Counted'
  BY Zenon, <1>1, <1>5, SameCount
<1> QED
  BY Zenon, <1>1, <1>3, <1>4, <1>6, OneConnection

\* A connection moves on without opening its stream, and has sent nothing yet.
LEMMA MoveInv ==
    ASSUME IInv, NEW c \in Connections, NEW at \in {"request", "found"}, conn[c].sent = 0, conn[c].seen = "none",
           Move(c, at), UNCHANGED <<registered, cancelled, stopped, listening, taken>>, Counted'
    PROVE  IInv'
<1> DEFINE r == [conn[c] EXCEPT !.pc = at]
<1>1. conn' = [conn EXCEPT ![c] = r] /\ r \in Records /\ conn[c] \in Records
  BY Zenon, RecordFacts DEF IInv, Move, States
<1>2. r.pc = at /\ r.seen = "none" /\ r.sent = 0
  BY Zenon, <1>1 DEF Records
<1> HIDE DEF r
<1>3. Told(r) /\ ~WasOpened(r)
  BY <1>2 DEF Told, WasOpened
<1> QED
  BY Zenon, <1>1, <1>3, OneConnection DEF IInv, Types

\* A worker connects.
LEMMA ConnectInv ==
    ASSUME IInv, NEW c \in Connections, NEW p \in Partitions, Connect(c, p)
    PROVE  IInv'
<1> DEFINE r == [NoConnection EXCEPT !.pc = "queued", !.partition = p]
<1>0. NoConnection \in Records /\ NoConnection.seen = "none" /\ NoConnection.sent = 0
  BY LengthAssumption DEF Records, NoConnection, States
<1>1. r \in Records /\ r.pc = "queued" /\ r.seen = "none" /\ r.sent = 0
  BY Zenon, <1>0 DEF Records, States
<1>2. conn' = [conn EXCEPT ![c] = r]
  BY Zenon DEF Connect
<1> HIDE DEF r
<1>3. Told(r) /\ ~WasOpened(r)
  BY <1>1 DEF Told, WasOpened
<1>4. conn[c].pc \in Active <=> r.pc \in Active
  BY Zenon, <1>1 DEF Active, Connect
<1>5. Counted'
  BY Zenon, <1>1, <1>2, <1>4, SameCount DEF Connect
<1> QED
  BY Zenon, <1>1, <1>2, <1>3, <1>5, OneConnection DEF Connect, IInv, Types

\* The listener refuses the connection, or starts one more thread.
LEMMA AcceptInv == ASSUME Counting, IInv, NEW c \in Connections, Accept(c) PROVE IInv'
<1>1. conn[c].pc = "queued" /\ conn[c] \in Records /\ Told(conn[c])
  BY Zenon, RecordFacts DEF IInv, Accept
<1>2. conn[c].sent = 0 /\ conn[c].seen = "none"
  BY <1>1, LengthAssumption DEF Told, Records
<1>3. CASE active >= MaxConnections
  <2> DEFINE r == [conn[c] EXCEPT !.pc = "over", !.seen = "error"]
  <2>0. Types /\ conn' = [conn EXCEPT ![c].pc = "over", ![c].seen = "error"] /\ "over" \in States
    BY Zenon, <1>3 DEF IInv, Accept, States
  <2>1. conn' = [conn EXCEPT ![c] = r] /\ r \in Records
    BY Zenon, <2>0, RecordFacts
  <2>2. r.pc = "over" /\ r.seen = "error" /\ r.sent = 0
    BY Zenon, <1>1, <1>2 DEF Records
  <2> HIDE DEF r
  <2>3. Told(r) /\ ~WasOpened(r)
    BY <2>2 DEF Told, WasOpened
  <2>4. conn[c].pc \in Active <=> r.pc \in Active
    BY Zenon, <1>1, <2>2 DEF Active
  <2>5. Counted'
    BY Zenon, <1>3, <2>1, <2>4, SameCount DEF Accept
  <2> QED
    BY Zenon, <2>1, <2>3, <2>5, OneConnection DEF Accept, IInv, Types
<1>4. CASE ~(active >= MaxConnections)
  <2>1. Move(c, "request") /\ active' = active + 1
    BY Zenon, <1>4 DEF Accept
  <2>2. Serving' = Serving \cup {c} /\ c \notin Serving
    BY Zenon, <1>1, <2>1 DEF Serving, Move, IInv, Types, Records
  <2>3. IsFiniteSet(Serving') /\ Cardinality(Serving') = Cardinality(Serving) + 1
    BY Zenon, <2>2 DEF Counting, IInv, Counted
  <2>4. Counted'
    BY <1>4, <2>1, <2>3, MaxConnectionsAssumption DEF IInv, Counted
  <2> QED
    BY Zenon, <1>2, <2>1, <2>4, MoveInv DEF Accept
<1> QED
  BY Zenon, <1>3, <1>4

\* The listener ends, and with it what is queued.
LEMMA ListenerEndsInv == ASSUME IInv, ListenerEnds PROVE IInv'
<1> DEFINE Closed(c) == [conn[c] EXCEPT !.pc = "over", !.seen = "error"]
<1>1. \A c \in Connections : /\ conn[c] \in Records /\ Closed(c) \in Records
                             /\ Closed(c).pc = "over" /\ Closed(c).seen = "error"
                             /\ Closed(c).sent = conn[c].sent
  <2>1. \A c \in Connections : conn[c] \in Records /\ Closed(c) \in Records
    BY Zenon, RecordFacts DEF IInv, States
  <2> QED
    BY Zenon, <2>1 DEF Records
<1>2. \A c \in Connections : conn'[c] = IF conn[c].pc = "queued" THEN Closed(c) ELSE conn[c]
  BY Zenon DEF ListenerEnds
<1>3. Types'
  <2>1. conn' = [c \in Connections |-> IF conn[c].pc = "queued" THEN Closed(c) ELSE conn[c]]
    BY Zenon DEF ListenerEnds
  <2> HIDE DEF Closed
  <2> QED
    BY Zenon, <1>1, <2>1 DEF IInv, Types, ListenerEnds
<1> HIDE DEF Closed
<1>4. \A c \in Connections : conn[c].pc = "queued" => conn[c].sent = 0
  BY <1>1, LengthAssumption DEF IInv, Told, Records
<1>5. \A c \in Connections : Told(conn'[c]) /\ (WasOpened(conn'[c]) => conn'[c] = conn[c])
  BY Zenon, <1>1, <1>2, <1>4 DEF IInv, Told, WasOpened
<1>6. Serving' = Serving
  BY Zenon, <1>1, <1>2 DEF Serving
<1>7. Counted'
  BY Zenon, <1>6 DEF IInv, Counted, ListenerEnds
<1>8. Once'
  <2>1. taken' = taken
    BY Zenon DEF ListenerEnds
  <2> QED
    BY Zenon, <1>5, <2>1 DEF IInv, Once
<1> QED
  BY Zenon, <1>3, <1>5, <1>7, <1>8 DEF IInv

\* The stream is opened once, or the thread leaves.
LEMMA OpenInv == ASSUME IInv, NEW c \in Connections, Open(c) PROVE IInv'
<1>1. conn[c].pc = "found" /\ conn[c] \in Records /\ Told(conn[c])
  BY Zenon, RecordFacts DEF IInv, Open
<1>2. CASE conn[c].partition \in taken
  BY Zenon, <1>1, <1>2, LeaveInv DEF Open, IInv, Types
<1>3. CASE conn[c].partition \notin taken
  <2> DEFINE p == conn[c].partition
             r == [conn[c] EXCEPT !.pc = "stream"]
  <2>1. conn' = [conn EXCEPT ![c] = r] /\ r \in Records
    BY Zenon, <1>3, RecordFacts DEF IInv, Open, Move, States
  <2>2. r.pc = "stream" /\ r.seen = "none" /\ r.sent = conn[c].sent /\ r.partition = p
    BY Zenon, <1>1 DEF Records, Told
  <2>3. taken' = taken \cup ({p} \cap OneShot)
    BY Zenon, <1>3 DEF Open
  <2> HIDE DEF r, p
  <2>4. Types'
    BY Zenon, <2>1, <2>3 DEF IInv, Types, Open
  <2>10. conn[c].pc \in Active <=> r.pc \in Active
    BY Zenon, <1>1, <2>2 DEF Active
  <2>5. Counted'
    BY Zenon, <2>1, <2>10, SameCount DEF Open
  <2>6. \A d \in Connections : conn'[d] = IF d = c THEN r ELSE conn[d]
    BY Zenon, <2>1 DEF IInv, Types
  <2>7. \A d \in Connections : Told(conn'[d])
    BY Zenon, <2>2, <2>6 DEF IInv, Told
  <2>8. \A d \in Connections :
           WasOpened(conn[d]) /\ conn[d].partition \in OneShot => conn[d].partition # p
    BY Zenon, <1>3 DEF IInv, Once, p
  <2>9. Once'
    BY Zenon, <2>2, <2>3, <2>6, <2>8 DEF IInv, Once
  <2> QED
    BY Zenon, <2>4, <2>5, <2>7, <2>9 DEF IInv
<1> QED
  BY Zenon, <1>2, <1>3

\* One more batch goes out.
LEMMA DeliverInv == ASSUME IInv, NEW c \in Connections, Deliver(c) PROVE IInv'
<1> DEFINE r == [conn[c] EXCEPT !.sent = @ + 1]
<1>1. conn[c].pc = "stream" /\ conn[c].sent < Length /\ conn[c] \in Records /\ Told(conn[c])
  BY Zenon, RecordFacts DEF IInv, Deliver
<1>2. conn' = [conn EXCEPT ![c] = r]
  BY Zenon DEF Deliver
<1>3. r \in Records /\ r.pc = "stream" /\ r.seen = "none" /\ r.partition = conn[c].partition
  BY <1>1, LengthAssumption DEF Records, Told
<1> HIDE DEF r
<1>4. Told(r) /\ WasOpened(conn[c])
  BY Zenon, <1>1, <1>3 DEF Told, WasOpened
<1>5. conn[c].pc \in Active <=> r.pc \in Active
  BY Zenon, <1>1, <1>3 DEF Active
<1>6. Counted'
  BY Zenon, <1>2, <1>3, <1>5, SameCount DEF Deliver
<1> QED
  BY Zenon, <1>2, <1>3, <1>4, <1>6, OneConnection DEF Deliver, IInv, Types

\* The thread is gone and its place is given back.
LEMMA ReleaseInv == ASSUME Counting, IInv, NEW c \in Connections, Release(c) PROVE IInv'
<1> DEFINE r == [conn[c] EXCEPT !.pc = "over"]
<1>1. conn[c].pc = "leaving" /\ conn[c] \in Records /\ Told(conn[c])
  BY Zenon, RecordFacts DEF IInv, Release
<1>2. conn' = [conn EXCEPT ![c] = r] /\ r \in Records
  BY Zenon, RecordFacts DEF IInv, Release, Move, States
<1>3. r.pc = "over" /\ r.seen = conn[c].seen /\ r.sent = conn[c].sent /\ r.partition = conn[c].partition
  BY Zenon, <1>1 DEF Records
<1> HIDE DEF r
<1>4. Told(r) /\ (WasOpened(r) => WasOpened(conn[c]))
  BY Zenon, <1>1, <1>3 DEF Told, WasOpened
<1>5. Serving' = Serving \ {c} /\ c \in Serving
  BY Zenon, <1>1, <1>2, <1>3 DEF Serving, IInv, Types
<1>6. IsFiniteSet(Serving') /\ Cardinality(Serving') = Cardinality(Serving) - 1
  BY Zenon, <1>5 DEF Counting, IInv, Counted
<1>7. Cardinality(Serving') \in Nat
  BY Zenon, <1>6 DEF Counting
<1>8. Counted'
  BY <1>6, <1>7, MaxConnectionsAssumption DEF IInv, Counted, Release
<1>9. /\ UNCHANGED <<registered, cancelled, stopped, listening>>
      /\ taken \subseteq taken' /\ taken' \subseteq OneShot
  BY Zenon DEF Release, IInv, Types
<1> QED
  BY Zenon, <1>2, <1>3, <1>4, <1>8, <1>9, OneConnection

\* Every step of the server, of a worker and of the query keeps the invariant.
LEMMA StepInv == Counting /\ IInv /\ [Next]_vars => IInv'
<1> SUFFICES ASSUME Counting, IInv, [Next]_vars PROVE IInv'
  BY Zenon
<1>1. ASSUME NEW c \in Connections, NEW p \in Partitions, Connect(c, p) PROVE IInv'
  BY Zenon, <1>1, ConnectInv
<1>2. ASSUME NEW c \in Connections, Accept(c) PROVE IInv'
  BY Zenon, <1>2, AcceptInv
<1>3. ASSUME NEW c \in Connections, Thread(c) PROVE IInv'
  <2>1. CASE Lookup(c)
    <3>1. conn[c].pc = "request" /\ conn[c] \in Records /\ Told(conn[c])
      BY Zenon, <2>1, RecordFacts DEF IInv, Lookup
    <3>2. CASE registered
      <4>1. Move(c, "found") /\ UNCHANGED <<registered, cancelled, stopped, listening, active, taken>>
        BY Zenon, <2>1, <3>2 DEF Lookup
      <4> DEFINE r == [conn[c] EXCEPT !.pc = "found"]
      <4>2. conn' = [conn EXCEPT ![c] = r] /\ r \in Records
        BY Zenon, <4>1, RecordFacts DEF IInv, Move, States
      <4>5. conn[c].pc \in Active <=> r.pc \in Active
        BY Zenon, <3>1 DEF Active, Records
      <4>3. Counted'
        BY Zenon, <4>1, <4>2, <4>5, SameCount
      <4>4. conn[c].sent = 0 /\ conn[c].seen = "none"
        BY <3>1, LengthAssumption DEF Told, Records
      <4> QED
        BY Zenon, <4>1, <4>3, <4>4, MoveInv
    <3>3. CASE ~registered
      BY Zenon, <2>1, <3>1, <3>3, LeaveInv DEF Lookup, IInv, Types
    <3> QED
      BY Zenon, <3>2, <3>3
  <2>2. CASE Open(c)
    BY Zenon, <2>2, OpenInv
  <2>3. CASE Deliver(c)
    BY Zenon, <2>3, DeliverInv
  <2>4. CASE Cancelled(c)
    BY Zenon, <2>4, LeaveInv DEF Cancelled, IInv, Types
  <2>5. CASE Breaks(c)
    <3>1. taken \subseteq taken' /\ taken' \subseteq OneShot
      BY Zenon, <2>5 DEF Breaks, IInv, Types
    <3> QED
      BY Zenon, <2>5, <3>1, LeaveInv DEF Breaks
  <2>6. CASE Ends(c)
    BY Zenon, <2>6, LeaveInv DEF Ends, IInv, Types
  <2>7. CASE Release(c)
    BY Zenon, <2>7, ReleaseInv
  <2> QED
    BY Zenon, <1>3, <2>1, <2>2, <2>3, <2>4, <2>5, <2>6, <2>7 DEF Thread
<1>4. CASE ListenerEnds
  BY Zenon, <1>4, ListenerEndsInv
<1>5. CASE Revoke \/ Stop \/ UNCHANGED vars
  <2>1. UNCHANGED <<conn, taken, active, listening>> /\ registered' \in BOOLEAN /\ cancelled' \in BOOLEAN
        /\ stopped' \in BOOLEAN
    BY Zenon, <1>5 DEF Revoke, Stop, vars, IInv, Types
  <2>2. Serving' = Serving
    BY Zenon, <2>1 DEF Serving
  <2> QED
    BY Zenon, <2>1, <2>2 DEF IInv, Types, Counted, Once
<1> QED
  BY Zenon, <1>1, <1>2, <1>3, <1>4, <1>5 DEF Next

\* One element more or less is counted as one more or less.
LEMMA CountingHolds == Counting
<1>1. IsFiniteSet({}) /\ Cardinality({}) = 0
  BY Zenon, FS_EmptySet
<1>2. \A S : IsFiniteSet(S) => Cardinality(S) \in Nat
  BY Zenon, FS_CardinalityType
<1>3. \A S, x : IsFiniteSet(S) /\ x \notin S =>
         IsFiniteSet(S \cup {x}) /\ Cardinality(S \cup {x}) = Cardinality(S) + 1
  BY Zenon, FS_AddElement
<1>4. \A S, x : IsFiniteSet(S) /\ x \in S =>
         IsFiniteSet(S \ {x}) /\ Cardinality(S \ {x}) = Cardinality(S) - 1
  BY Zenon, FS_RemoveElement
<1> QED
  BY Zenon, <1>1, <1>2, <1>3, <1>4 DEF Counting

\* A worker that sees a complete answer was sent every batch of its partition
\* (the last chunk is written only at the end of the stream, exchange.rs), for
\* any number of workers, partitions and batches and any limit.
THEOREM CompleteAnswersAreWhole == Spec => []CompleteMeansAll
BY CountingHolds, InitInv, StepInv, InvImplies, PTL DEF Spec

\* No two connections are ever sent batches of the same one-shot partition: its
\* stream is taken out of the source by the first that opens it.
THEOREM OneShotInputsAreReadOnce == Spec => []OneShotReadOnce
BY CountingHolds, InitInv, StepInv, InvImplies, PTL DEF Spec

\* The counter the listener admits connections by is the number of threads that
\* serve one, whichever way their requests end.
THEOREM CounterIsExact == Spec => []ActiveCountsThreads
BY CountingHolds, InitInv, StepInv, InvImplies, PTL DEF Spec

\* Every variable keeps its type; the counter never passes the limit.
THEOREM TypesAreKept == ASSUME Partitions # {} PROVE Spec => []TypeOK
<1>1. IInv => TypeOK
  BY Zenon, InvImplies
<1> QED
  BY <1>1, CountingHolds, InitInv, StepInv, PTL DEF Spec

-----------------------------------------------------------------------------
(***************************************************************************)
(* The engines over a caller's own tables: GraphEngine, and                *)
(* MappedGraphEngine as long as no call of cypher_update is dropped (which *)
(* the code does not survive: MappedEngineDropped.cfg drops one).          *)
(***************************************************************************)

Whole(w) == \A s \in Statements : <<s, 1>> \in w <=> <<s, 2>> \in w
Pair(s) == {<<s, 1>>, <<s, 2>>}
Own == call.own \/ call.outer

\* The state has its types; during a call, call is the call.
MappedTypes ==
    /\ tx \in {"none", "open", "aborted"}
    /\ tables \subseteq Changes /\ written \subseteq Changes
    /\ facade \in BOOLEAN /\ inTx \in BOOLEAN /\ failed \in BOOLEAN /\ lost \in BOOLEAN /\ began \in BOOLEAN
    /\ answered \subseteq Statements /\ promised \subseteq Statements
    /\ pc \in {"idle", "check", "run", "half", "ok", "error"}
    /\ pc # "idle" =>
          /\ call.s \in Statements
          /\ call.own \in BOOLEAN /\ call.outer \in BOOLEAN
          /\ call.outer => call.kind = "update" /\ facade

\* Where transactions come from: between calls from the caller, during a call
\* from the caller or from the call, in which case the caller has none.
\* GraphEngine marks the caller's transaction while a statement runs in it.
Owners ==
    /\ pc = "idle" /\ ~began => tx = "none"
    /\ pc # "idle" /\ Own => answered = {}
    /\ pc # "idle" /\ ~Own => began /\ tx # "none"
    /\ tx = "none" /\ ~failed => answered = {}
    /\ ~began => answered = {}
    /\ ~facade => began = inTx /\ (failed => inTx)
    /\ ~facade /\ pc # "idle" /\ ~Own => failed

\* What was answered is in the tables or, before the caller's commit, in what
\* the session has written.
Answers ==
    /\ tables \subseteq written
    /\ \A s \in promised : Pair(s) \subseteq tables
    /\ tx = "open" => \A s \in answered : Pair(s) \subseteq written
    /\ pc \in {"half", "ok"} /\ call.kind # "read" => <<call.s, 1>> \in written
    /\ pc = "ok" /\ call.kind # "read" => <<call.s, 2>> \in written

MInv == MappedTypes /\ Owners /\ Answers

\* GraphEngine: a half of a change is written only while its statement runs or
\* after it failed, when the transaction is marked until the caller rolls back.
Halves ==
    /\ Whole(tables)
    /\ pc = "idle" /\ ~failed => Whole(written)
    /\ pc \in {"check", "run", "ok"} => Whole(written)
    /\ pc = "half" => <<call.s, 1>> \in written /\ Whole(written \cup {<<call.s, 2>>})

\* The properties follow from the invariant.
LEMMA MappedImplies == MInv => MappedTypeOK /\ AnsweredIsCommitted /\ NoTransactionLeftBehind
<1> SUFFICES ASSUME MInv PROVE MappedTypeOK /\ AnsweredIsCommitted /\ NoTransactionLeftBehind
  BY Zenon
<1>1. MappedTypeOK
  BY Zenon DEF MInv, MappedTypes, MappedTypeOK
<1>2. AnsweredIsCommitted
  <2> SUFFICES ASSUME NEW s \in promised PROVE {s} \X (1 .. 2) \subseteq tables
    BY Zenon DEF AnsweredIsCommitted
  <2>1. {s} \X (1 .. 2) = Pair(s)
    BY DEF Pair
  <2> QED
    BY Zenon, <2>1 DEF MInv, Answers
<1>3. NoTransactionLeftBehind
  BY Zenon DEF MInv, Owners, NoTransactionLeftBehind
<1> QED
  BY Zenon, <1>1, <1>2, <1>3

\* The invariant holds at the start, with or without a transaction of the
\* caller.
LEMMA MappedStart == MappedInit => MInv
<1> SUFFICES ASSUME MappedInit PROVE MInv
  BY Zenon
<1>1. MappedTypes
  <2>1. CASE tx = "none"
    BY Zenon, <2>1 DEF MappedInit, MappedTypes
  <2>2. CASE tx = "open"
    BY Zenon, <2>2 DEF MappedInit, MappedTypes
  <2> QED
    BY Zenon, <2>1, <2>2 DEF MappedInit
<1>2. Owners
  <2>1. CASE tx = "none"
    BY Zenon, <2>1 DEF MappedInit, Owners
  <2>2. CASE tx = "open"
    BY Zenon, <2>2 DEF MappedInit, Owners
  <2> QED
    BY Zenon, <2>1, <2>2 DEF MappedInit
<1>3. Answers
  BY Zenon DEF MappedInit, Answers
<1> QED
  BY Zenon, <1>1, <1>2, <1>3 DEF MInv

\* Every step keeps the invariant, unless a cypher_update may be dropped.
LEMMA MappedStep == ~(facade /\ DropUpdates) /\ MInv /\ [MappedNext]_mappedVars => MInv'
<1> SUFFICES ASSUME ~(facade /\ DropUpdates), MInv, [MappedNext]_mappedVars PROVE MInv'
  BY Zenon
<1>0. facade' = facade
  BY Zenon DEF MappedNext, mappedVars
<1>1. CASE Begin
  <2>1. MappedTypes'
    BY Zenon, <1>0, <1>1 DEF MInv, MappedTypes, Begin, Idle, InTransaction, Joins
  <2>2. Owners'
    BY Zenon, <1>0, <1>1 DEF MInv, MappedTypes, Owners, Own, Begin, Idle, InTransaction, Joins
  <2>3. Answers'
    BY Zenon, <1>0, <1>1 DEF MInv, MappedTypes, Owners, Own, Answers, Pair, Begin, Idle, InTransaction, Joins
  <2> QED
    BY Zenon, <2>1, <2>2, <2>3 DEF MInv
<1>2. CASE Commit
  <2>1. pc = "idle" /\ pc' = pc /\ InTransaction /\ UNCHANGED <<lost, call>>
    BY Zenon, <1>2 DEF Commit, Idle
  <2>2. ASSUME tx = "open", tx' = "none", tables' = written, inTx' = FALSE, began' = FALSE,
               promised' = promised \cup answered, answered' = {}, UNCHANGED <<written, failed>>
        PROVE  MInv'
    <3>1. MappedTypes'
      BY Zenon, <1>0, <2>1, <2>2 DEF MInv, MappedTypes
    <3>2. Owners'
      BY Zenon, <1>0, <1>2, <2>1, <2>2 DEF MInv, MappedTypes, Owners, Own, Commit
    <3>3. Answers'
      BY Zenon, <1>0, <2>1, <2>2 DEF MInv, MappedTypes, Answers, Pair
    <3> QED
      BY Zenon, <3>1, <3>2, <3>3 DEF MInv
  <2>3. ASSUME tx = "open", tx' = "none", written' = tables, failed' = ~facade, began' = ~facade,
               answered' = {}, UNCHANGED <<tables, inTx, promised>>
        PROVE  MInv'
    <3>1. MappedTypes'
      BY Zenon, <1>0, <2>1, <2>3 DEF MInv, MappedTypes
    <3>2. Owners'
      BY Zenon, <1>0, <2>1, <2>3 DEF MInv, MappedTypes, Owners, Own, InTransaction
    <3>3. Answers'
      BY Zenon, <1>0, <2>1, <2>3 DEF MInv, Answers, Pair
    <3> QED
      BY Zenon, <3>1, <3>2, <3>3 DEF MInv
  <2>4. ASSUME tx # "open", failed' = ~facade, UNCHANGED <<session, inTx, began, answered, promised>>
        PROVE  MInv'
    <3>1. MappedTypes'
      BY Zenon, <1>0, <2>1, <2>4 DEF MInv, MappedTypes, session
    <3>2. Owners'
      BY Zenon, <1>0, <2>1, <2>4 DEF MInv, MappedTypes, Owners, Own, session, InTransaction, Joins
    <3>3. Answers'
      BY Zenon, <1>0, <2>1, <2>4 DEF MInv, Answers, Pair, session
    <3> QED
      BY Zenon, <3>1, <3>2, <3>3 DEF MInv
  <2> QED
    BY Zenon, <1>2, <2>2, <2>3, <2>4 DEF Commit
<1>3. CASE Rollback
  <2>1. MappedTypes'
    BY Zenon, <1>0, <1>3 DEF MInv, MappedTypes, Rollback, Idle
  <2>2. Owners'
    BY Zenon, <1>0, <1>3 DEF MInv, MappedTypes, Owners, Own, Rollback, Idle
  <2>3. Answers'
    BY Zenon, <1>0, <1>3 DEF MInv, MappedTypes, Owners, Own, Answers, Pair, Rollback, Idle
  <2> QED
    BY Zenon, <2>1, <2>2, <2>3 DEF MInv
<1>4. CASE Snapshot
  <2>1. MappedTypes'
    BY Zenon, <1>0, <1>4 DEF MInv, MappedTypes, Snapshot, Idle, Fails
  <2>2. Owners'
    BY Zenon, <1>0, <1>4 DEF MInv, MappedTypes, Owners, Own, Snapshot, Idle, Fails
  <2>3. Answers'
    BY Zenon, <1>0, <1>4 DEF MInv, MappedTypes, Owners, Own, Answers, Pair, Snapshot, Idle, Fails
  <2> QED
    BY Zenon, <2>1, <2>2, <2>3 DEF MInv
<1>5. CASE Refused \/ UNCHANGED mappedVars
  BY <1>5 DEF Refused, mappedVars, MInv, MappedTypes, Owners, Own, Answers
<1>6. ASSUME NEW s \in Statements, NEW kind \in {"read", "write", "update"}, Start(s, kind)
      PROVE MInv'
  <2>1. MappedTypes'
    BY Zenon, <1>0, <1>6 DEF MInv, MappedTypes, Start, Idle, Joins
  <2>2. Owners'
    BY Zenon, <1>0, <1>6 DEF MInv, MappedTypes, Owners, Own, Start, Idle, Joins
  <2>3. Answers'
    BY Zenon, <1>0, <1>6 DEF MInv, MappedTypes, Owners, Own, Answers, Pair, Start, Idle, Joins
  <2> QED
    BY Zenon, <2>1, <2>2, <2>3 DEF MInv
<1>7. CASE Checked
  <2>1. MappedTypes'
    BY Zenon, <1>0, <1>7 DEF MInv, MappedTypes, Checked, session
  <2>2. Owners'
    BY Zenon, <1>0, <1>7 DEF MInv, MappedTypes, Owners, Own, Checked, session
  <2>3. Answers'
    BY Zenon, <1>0, <1>7 DEF MInv, MappedTypes, Owners, Own, Answers, Pair, Checked, session
  <2> QED
    BY Zenon, <2>1, <2>2, <2>3 DEF MInv
<1>8. CASE Executed
  <2>1. MappedTypes'
    BY <1>0, <1>8 DEF MInv, MappedTypes, Executed, Changes
  <2>2. Owners'
    BY Zenon, <1>0, <1>8 DEF MInv, MappedTypes, Owners, Own, Executed, Changes
  <2>3. Answers'
    BY Zenon, <1>0, <1>8 DEF MInv, MappedTypes, Owners, Own, Answers, Pair, Executed, Changes
  <2> QED
    BY Zenon, <2>1, <2>2, <2>3 DEF MInv
<1>9. CASE Persisted
  <2>1. MappedTypes'
    BY <1>0, <1>9 DEF MInv, MappedTypes, Persisted, Changes
  <2>2. Owners'
    BY Zenon, <1>0, <1>9 DEF MInv, MappedTypes, Owners, Own, Persisted, Changes
  <2>3. Answers'
    BY Zenon, <1>0, <1>9 DEF MInv, MappedTypes, Owners, Own, Answers, Pair, Persisted, Changes
  <2> QED
    BY Zenon, <2>1, <2>2, <2>3 DEF MInv
<1>10. CASE StatementFails
  <2>1. MappedTypes'
    BY Zenon, <1>0, <1>10 DEF MInv, MappedTypes, StatementFails, Fails
  <2>2. Owners'
    BY Zenon, <1>0, <1>10 DEF MInv, MappedTypes, Owners, Own, StatementFails, Fails
  <2>3. Answers'
    BY Zenon, <1>0, <1>10 DEF MInv, MappedTypes, Owners, Own, Answers, Pair, StatementFails, Fails
  <2> QED
    BY Zenon, <2>1, <2>2, <2>3 DEF MInv
<1>11. CASE SessionLost
  <2>1. MappedTypes'
    BY Zenon, <1>0, <1>11 DEF MInv, MappedTypes, SessionLost
  <2>2. Owners'
    BY Zenon, <1>0, <1>11 DEF MInv, MappedTypes, Owners, Own, SessionLost
  <2>3. Answers'
    BY Zenon, <1>0, <1>11 DEF MInv, MappedTypes, Owners, Own, Answers, Pair, SessionLost
  <2> QED
    BY Zenon, <2>1, <2>2, <2>3 DEF MInv
<1>12. CASE Succeeds
  <2>1. MappedTypes'
    BY Zenon, <1>0, <1>12 DEF MInv, MappedTypes, Succeeds, Returns, session
  <2>2. Owners'
    BY Zenon, <1>0, <1>12 DEF MInv, MappedTypes, Owners, Own, Succeeds, Returns, session
  <2>3. Answers'
    BY Zenon, <1>0, <1>12 DEF MInv, MappedTypes, Owners, Own, Answers, Pair, Succeeds, Returns, session
  <2> QED
    BY Zenon, <2>1, <2>2, <2>3 DEF MInv
<1>13. CASE Unfinished
  <2>1. MappedTypes'
    BY Zenon, <1>0, <1>13, DropAssumption DEF MInv, MappedTypes, Unfinished, Returns
  <2>2. Owners'
    BY Zenon, <1>0, <1>13, DropAssumption DEF MInv, MappedTypes, Owners, Own, Unfinished, Returns
  <2>3. Answers'
    BY Zenon, <1>0, <1>13, DropAssumption DEF MInv, MappedTypes, Owners, Own, Answers, Pair, Unfinished, Returns
  <2> QED
    BY Zenon, <2>1, <2>2, <2>3 DEF MInv
<1> QED
  BY ZenonT(30), <1>1, <1>2, <1>3, <1>4, <1>5, <1>6, <1>7, <1>8, <1>9, <1>10, <1>11, <1>12, <1>13 DEF MappedNext

\* Every step of GraphEngine keeps Halves.
LEMMA HalvesStep == ~facade /\ MInv /\ Halves /\ [MappedNext]_mappedVars => Halves'
<1> SUFFICES ASSUME ~facade, MInv, Halves, [MappedNext]_mappedVars PROVE Halves'
  BY Zenon
<1>0. facade' = facade
  BY Zenon DEF MappedNext, mappedVars
<1>1. CASE Begin
  BY Zenon, <1>0, <1>1 DEF MInv, MappedTypes, Owners, Answers, Own, Halves, Whole, Begin, Idle, InTransaction
<1>2. CASE Commit
  BY Zenon, <1>0, <1>2 DEF MInv, MappedTypes, Owners, Answers, Own, Halves, Whole, Commit, Idle, session, InTransaction
<1>3. CASE Rollback
  BY Zenon, <1>0, <1>3 DEF MInv, MappedTypes, Owners, Answers, Own, Halves, Whole, Rollback, Idle
<1>4. CASE Snapshot
  BY Zenon, <1>0, <1>4 DEF MInv, MappedTypes, Owners, Answers, Own, Halves, Whole, Snapshot, Idle, Fails
<1>5. CASE Refused \/ UNCHANGED mappedVars
  BY Zenon, <1>0, <1>5 DEF MInv, MappedTypes, Owners, Answers, Own, Halves, Whole, Refused, mappedVars
<1>6. ASSUME NEW s \in Statements, NEW kind \in {"read", "write", "update"}, Start(s, kind)
      PROVE Halves'
  BY Zenon, <1>0, <1>6 DEF MInv, MappedTypes, Owners, Answers, Own, Halves, Whole, Start, Idle, Joins
<1>7. CASE Checked
  BY Zenon, <1>0, <1>7 DEF MInv, MappedTypes, Owners, Answers, Own, Halves, Whole, Checked, session
<1>8. CASE Executed
  BY Zenon, <1>0, <1>8 DEF MInv, MappedTypes, Owners, Answers, Own, Halves, Whole, Executed, Changes
<1>9. CASE Persisted
  BY Zenon, <1>0, <1>9 DEF MInv, MappedTypes, Owners, Answers, Own, Halves, Whole, Persisted, Changes
<1>10. CASE StatementFails
  BY Zenon, <1>0, <1>10 DEF MInv, MappedTypes, Owners, Answers, Own, Halves, Whole, StatementFails, Fails
<1>11. CASE SessionLost
  BY Zenon, <1>0, <1>11 DEF MInv, MappedTypes, Owners, Answers, Own, Halves, Whole, SessionLost
<1>12. CASE Succeeds
  BY Zenon, <1>0, <1>12 DEF MInv, MappedTypes, Owners, Answers, Own, Halves, Whole, Succeeds, Returns, session
<1>13. CASE Unfinished
  BY Zenon, <1>0, <1>13, DropAssumption DEF MInv, MappedTypes, Owners, Answers, Own, Halves, Whole, Unfinished, Returns
<1> QED
  BY Zenon, <1>1, <1>2, <1>3, <1>4, <1>5, <1>6, <1>7, <1>8, <1>9, <1>10, <1>11, <1>12, <1>13 DEF MappedNext

\* What a mapped engine has answered Ok is in the tables, for any statements,
\* failures, drops and lost sessions, if no cypher_update is dropped.
THEOREM AnswersAreCommitted ==
    ASSUME ~DropUpdates
    PROVE  MappedSpec => [](MappedTypeOK /\ AnsweredIsCommitted)
<1>1. MappedSpec => []MInv
  BY MappedStart, MappedStep, PTL DEF MappedSpec
<1> QED
  BY <1>1, MappedImplies, PTL

\* No call leaves a transaction behind that the caller did not begin.
THEOREM TransactionsAreTheCallers ==
    ASSUME ~DropUpdates
    PROVE  MappedSpec => []NoTransactionLeftBehind
<1>1. MappedSpec => []MInv
  BY MappedStart, MappedStep, PTL DEF MappedSpec
<1> QED
  BY <1>1, MappedImplies, PTL

\* GraphEngine never commits half of a graph change, also when the caller
\* commits after a statement that failed, was dropped or lost its session.
THEOREM ChangesAreWhole == MappedSpec => []NoHalfCommits
<1> DEFINE J == ~facade => MInv /\ Halves
<1>1. MappedInit => J
  BY Zenon, MappedStart DEF MappedInit, Halves, Whole, Own
<1>2. J /\ [MappedNext]_mappedVars => J'
  <2> SUFFICES ASSUME J, [MappedNext]_mappedVars, ~facade' PROVE (MInv /\ Halves)'
    BY Zenon
  <2>1. ~facade
    BY Zenon DEF MappedNext, mappedVars
  <2> QED
    BY Zenon, <2>1, MappedStep, HalvesStep
<1>3. J => NoHalfCommits
  BY Zenon DEF Halves, Whole, NoHalfCommits
<1> QED
  BY <1>1, <1>2, <1>3, PTL DEF MappedSpec

-----------------------------------------------------------------------------
(***************************************************************************)
(* The caches of a catalog client.                                         *)
(***************************************************************************)

\* The places of a call that holds the lock of its entry; the calls under way.
Holding == {"auth", "post", "issued", "get", "served"}
CallRecords == [pc : Holding \cup {"waiting", "answered"}, key : Keys, entry : Ids, force : BOOLEAN,
                now : Nat, answer : Nat, seen : Nat]

\* The revision r is not older than what was current at the end of any tick
\* before n.
Current(r, n) == \A t \in 0..MaxTime : t < n => closing[t] <= r

Published ==
    /\ clock \in 0..MaxTime /\ revision \in 1..(clock + 1) /\ closing \in [0..MaxTime -> Nat]
    /\ \A t \in 0..MaxTime : closing[t] <= revision

\* What an entry may hold.
SnapshotOK(s) ==
    s \in [revision : Nat, checked : Nat] /\ s.revision <= revision /\ s.checked <= clock
    /\ Current(s.revision, s.checked)

\* What a call may know.
CallOK(r) ==
    /\ r \in CallRecords \cup {IdleCaller}
    /\ r.pc # "idle" => r.now <= clock
    /\ r.pc = "served" => r.answer <= revision /\ Current(r.answer, r.now)
    /\ r.pc = "answered" => \/ Current(r.answer, r.now)
                            \/ ~r.force /\ \E n \in Nat : r.now < n + Interval /\ Current(r.answer, n)
    /\ r.pc = "post" => r.answer <= clock
    /\ r.pc = "issued" => r.answer + Life <= r.seen

TokenOK(t) ==
    t \in [valid : BOOLEAN, started : Nat, until : Nat] /\ (t.valid => t.started + Life <= t.until)

\* A lock is held by the call that fetches into its entry, and the entry that a
\* call refers to is the one of its key.
Guarded ==
    /\ entries \in [Keys -> Ids \cup {0}] /\ locked \in [Ids -> Callers \cup {Nobody}]
    /\ tokenLock \in Callers \cup {Nobody}
    /\ \A e \in Ids : locked[e] # Nobody => Fetching(locked[e]) /\ E(locked[e]) = e
    /\ \A c \in Callers : /\ Fetching(c) => locked[E(c)] = c
                          /\ caller[c].pc # "idle" => entries[caller[c].key] = E(c)

\* The inductive invariant.
CInv ==
    /\ Published /\ Guarded /\ TokenOK(token)
    /\ cached = [e \in Ids |-> cached[e]] /\ caller = [c \in Callers |-> caller[c]]
    /\ \A e \in Ids : SnapshotOK(cached[e])
    /\ \A c \in Callers : CallOK(caller[c])

\* The times are natural numbers.
LEMMA TimesFacts == Interval \in Nat /\ Retained \in Nat /\ Life \in Nat /\ MaxTime \in Nat
  BY Zenon, TimesAssumption

\* What a call that has begun knows.
LEMMA CallParts ==
    ASSUME NEW r, CallOK(r), r.pc # "idle"
    PROVE  /\ r \in CallRecords /\ r.key \in Keys /\ r.entry \in Ids
           /\ r.now \in Nat /\ r.answer \in Nat /\ r.seen \in Nat /\ r.now <= clock
           /\ r.pc = "served" => r.answer <= revision /\ Current(r.answer, r.now)
           /\ r.pc = "answered" => \/ Current(r.answer, r.now)
                                   \/ ~r.force /\ \E n \in Nat : r.now < n + Interval /\ Current(r.answer, n)
           /\ r.pc = "post" => r.answer <= clock
           /\ r.pc = "issued" => r.answer + Life <= r.seen
<1>1. r # IdleCaller
  BY DEF IdleCaller
<1>2. r \in CallRecords
  BY Zenon, <1>1 DEF CallOK
<1>3. r.key \in Keys /\ r.entry \in Ids /\ r.now \in Nat /\ r.answer \in Nat /\ r.seen \in Nat
  BY Zenon, <1>2 DEF CallRecords
<1> QED
  BY Zenon, <1>2, <1>3 DEF CallOK

\* What the invariant says of the properties.
LEMMA CatalogImplies ==
    CInv => CatalogTypeOK /\ OneFetchPerIdentity /\ AnswersAreFresh /\ ReusedTokensAreAccepted
<1> SUFFICES ASSUME CInv PROVE CatalogTypeOK /\ OneFetchPerIdentity /\ AnswersAreFresh /\ ReusedTokensAreAccepted
  BY Zenon
<1>1. /\ Published /\ Guarded /\ TokenOK(token)
      /\ \A e \in Ids : SnapshotOK(cached[e])
      /\ \A c \in Callers : CallOK(caller[c])
  BY Zenon DEF CInv
<1>2. CatalogTypeOK
  <2>1. \A e \in Ids : cached[e].revision \in 0..revision
    BY <1>1 DEF SnapshotOK, Published
  <2>2. clock \in 0..MaxTime /\ revision \in 1..(MaxTime + 1)
    BY <1>1, TimesFacts DEF Published
  <2> QED
    BY Zenon, <1>1, <2>1, <2>2 DEF CatalogTypeOK, Guarded
<1>3. OneFetchPerIdentity
  <2> SUFFICES ASSUME NEW c \in Callers, NEW d \in Callers, c # d, Fetching(c), Fetching(d),
                      caller[c].key = caller[d].key
               PROVE  FALSE
    BY Zenon DEF OneFetchPerIdentity
  <2>1. E(c) = E(d)
    <3>1. caller[c].pc # "idle" /\ caller[d].pc # "idle"
      BY Zenon DEF Fetching
    <3> QED
      BY <1>1, <3>1 DEF Guarded
  <2> QED
    BY Zenon, <1>1, <2>1 DEF Guarded
<1>4. AnswersAreFresh
  <2> SUFFICES ASSUME NEW c \in Callers, NEW age,
                      age = (IF caller[c].force \/ Interval = 0 THEN 1 ELSE Interval),
                      caller[c].pc = "answered", caller[c].now >= age
               PROVE  caller[c].answer >= closing[caller[c].now - age]
    BY Zenon DEF AnswersAreFresh
  <2> DEFINE r == caller[c]
  <2>1. r \in CallRecords /\ r.now <= clock
    BY <1>1 DEF CallOK, IdleCaller
  <2>2. r.now \in Nat /\ r.answer \in Nat /\ age \in Nat /\ age >= 1 /\ clock \in Nat /\ clock <= MaxTime
    BY SMTT(30), <1>1, <2>1, TimesFacts DEF CallRecords, Published
  <2>3. r.now - age \in 0..MaxTime /\ r.now - age < r.now
    BY <2>1, <2>2, TimesFacts
  <2>4. CASE Current(r.answer, r.now)
    BY Zenon, <1>1, <2>2, <2>3, <2>4 DEF Current, Published
  <2>5. CASE ~r.force /\ \E n \in Nat : r.now < n + Interval /\ Current(r.answer, n)
    <3>1. PICK n \in Nat : r.now < n + Interval /\ Current(r.answer, n)
      BY Zenon, <2>5
    <3>2. r.now - age < n
      BY <2>2, <2>5, <3>1, TimesFacts
    <3> QED
      BY Zenon, <1>1, <2>2, <2>3, <3>1, <3>2 DEF Current, Published
  <2> QED
    BY Zenon, <1>1, <2>4, <2>5 DEF CallOK
<1>5. ReusedTokensAreAccepted
  BY SMTT(30), <1>1, TimesFacts DEF TokenOK, Published, ReusedTokensAreAccepted
<1> QED
  BY Zenon, <1>2, <1>3, <1>4, <1>5

\* At the beginning nothing is cached, and nobody calls.
LEMMA CatalogStart == CatalogInit => CInv
<1> SUFFICES ASSUME CatalogInit PROVE CInv
  BY Zenon
<1>1. Published
  BY TimesFacts DEF CatalogInit, Published
<1>2. \A c \in Callers : caller[c] = IdleCaller
  BY Zenon DEF CatalogInit
<1>3. Guarded
  BY Zenon, <1>2 DEF CatalogInit, Guarded, Fetching, IdleCaller
<1>4. TokenOK(token)
  BY Zenon DEF CatalogInit, TokenOK, NoToken
<1>5. \A e \in Ids : SnapshotOK(cached[e])
  BY SMTT(30), <1>1, TimesFacts DEF CatalogInit, SnapshotOK, None, Current, Published
<1>6. \A c \in Callers : CallOK(caller[c])
  BY <1>2 DEF CallOK, IdleCaller
<1> QED
  BY Zenon, <1>1, <1>3, <1>4, <1>5, <1>6 DEF CInv, CatalogInit

\* What a call knows stays true while time passes and revisions come.
LEMMA ServerMoves ==
    ASSUME CInv, Published', clock <= clock', revision <= revision',
           \A t \in 0..MaxTime : t < clock => closing'[t] = closing[t],
           UNCHANGED <<entries, cached, locked, tokens, caller>>
    PROVE  CInv'
<1>0. Published
  BY Zenon DEF CInv
<1>1. clock \in Nat /\ clock' \in Nat /\ revision \in Nat /\ revision' \in Nat
  BY <1>0, TimesFacts DEF Published
<1>2. \A r, n : n \in Nat /\ n <= clock /\ Current(r, n) => Current(r, n)'
  BY <1>1, TimesFacts DEF Current
<1>3. ASSUME NEW e \in Ids PROVE SnapshotOK(cached[e])'
  <2>1. PICK s : s = cached[e] /\ s = cached'[e] /\ SnapshotOK(s)
    BY Zenon DEF CInv
  <2>2. s \in [revision : Nat, checked : Nat] /\ s.revision <= revision' /\ s.checked <= clock'
        /\ Current(s.revision, s.checked)'
    BY <1>1, <1>2, <2>1 DEF SnapshotOK
  <2> QED
    BY Zenon, <2>1, <2>2 DEF SnapshotOK, Current
<1>4. ASSUME NEW c \in Callers PROVE CallOK(caller[c])'
  <2>1. PICK r : r = caller[c] /\ r = caller'[c] /\ CallOK(r)
    BY Zenon DEF CInv
  <2>2. CASE r.pc = "idle"
    BY Zenon, <2>1, <2>2 DEF CallOK
  <2>3. CASE r.pc # "idle"
    <3>1. r.now \in Nat /\ r.answer \in Nat /\ r.now <= clock
      BY Zenon, <2>1, <2>3, CallParts
    <3>2. r.now <= clock'
      BY SMTT(30), <1>1, <3>1
    <3>3. r.pc = "post" => r.answer <= clock'
      BY SMTT(30), <1>1, <2>1, <2>3, <3>1, CallParts
    <3>4. r.pc = "served" => r.answer <= revision' /\ Current(r.answer, r.now)'
      BY SMTT(30), <1>1, <1>2, <2>1, <2>3, <3>1, CallParts
    <3>5. ASSUME r.pc = "answered"
          PROVE  \/ Current(r.answer, r.now)'
                 \/ ~r.force /\ \E n \in Nat : r.now < n + Interval /\ Current(r.answer, n)'
      <4>1. CASE Current(r.answer, r.now)
        BY Zenon, <1>2, <3>1, <4>1
      <4>2. CASE ~r.force /\ \E n \in Nat : r.now < n + Interval /\ Current(r.answer, n)
        <5>1. PICK n \in Nat : r.now < n + Interval /\ Current(r.answer, n)
          BY Zenon, <4>2
        <5>2. CASE n <= clock
          BY Zenon, <1>2, <4>2, <5>1, <5>2
        <5>3. CASE ~(n <= clock)
          <6>1. Current(r.answer, r.now)
            BY SMTT(30), <1>1, <3>1, <5>1, <5>3, TimesFacts DEF Current
          <6> QED
            BY Zenon, <1>2, <3>1, <6>1
        <5> QED
          BY Zenon, <5>2, <5>3
      <4> QED
        BY Zenon, <2>1, <2>3, <3>5, <4>1, <4>2, CallParts
    <3> QED
      BY Zenon, <2>1, <3>2, <3>3, <3>4, <3>5 DEF CallOK, Current
  <2> QED
    BY Zenon, <2>2, <2>3
<1>5. Guarded' /\ TokenOK(token)' /\ cached' = [e \in Ids |-> cached'[e]] /\ caller' = [c \in Callers |-> caller'[c]]
  BY ZenonT(30) DEF CInv, Guarded, TokenOK, Fetching, E, tokens
<1> QED
  BY Zenon, <1>3, <1>4, <1>5 DEF CInv

\* Who has the lock of the entry of c once c is at place p.
Keeper(c, p) == IF p \in Holding THEN c ELSE IF locked[E(c)] = c THEN Nobody ELSE locked[E(c)]

\* A call that has begun moves, ends or is dropped: it goes from its place to
\* the one of r, and the lock of its entry is its own while it fetches.
LEMMA CallerMoves ==
    ASSUME CInv, NEW c \in Callers, caller[c].pc # "idle", NEW r, CallOK(r),
           r = IdleCaller \/ (r \in CallRecords /\ r.key = caller[c].key /\ r.entry = E(c)),
           caller' = [caller EXCEPT ![c] = r], UNCHANGED <<server, entries>>,
           r.pc \in Holding => locked[E(c)] \in {c, Nobody},
           locked' = [locked EXCEPT ![E(c)] = Keeper(c, r.pc)],
           tokenLock' \in Callers \cup {Nobody}, TokenOK(token'),
           cached' = [e \in Ids |-> cached'[e]], \A e \in Ids : SnapshotOK(cached'[e])
    PROVE  CInv'
<1>1. /\ Published /\ Guarded
      /\ caller = [d \in Callers |-> caller[d]] /\ \A d \in Callers : CallOK(caller[d])
  BY Zenon DEF CInv
<1>2. caller[c] \in CallRecords /\ E(c) \in Ids /\ caller[c].key \in Keys
  BY <1>1 DEF CallOK, IdleCaller, CallRecords, E
<1>3. caller'[c] = r /\ (\A d \in Callers : d # c => caller'[d] = caller[d])
      /\ caller' = [d \in Callers |-> caller'[d]]
  BY Zenon, <1>1
<1>4. Published' /\ TokenOK(token)'
  BY Zenon, <1>1 DEF Published, TokenOK, server
<1>5. (\A e \in Ids : SnapshotOK(cached[e]))'
  BY Zenon DEF SnapshotOK, Current, server
<1>6. (\A d \in Callers : CallOK(caller[d]))'
  <2> SUFFICES ASSUME NEW d \in Callers PROVE CallOK(caller[d])'
    BY Zenon
  <2>1. CallOK(caller'[d])
    BY Zenon, <1>1, <1>3
  <2> QED
    BY Zenon, <2>1 DEF CallOK, Current, server
<1> DEFINE own == Keeper(c, r.pc)
<1>7. own \in Callers \cup {Nobody} /\ locked \in [Ids -> Callers \cup {Nobody}]
  BY Zenon, <1>1, <1>2 DEF Guarded, Keeper
<1>8. locked' \in [Ids -> Callers \cup {Nobody}] /\ locked'[E(c)] = own
      /\ \A e \in Ids : e # E(c) => locked'[e] = locked[e]
  BY Zenon, <1>2, <1>7
<1>9. \A d \in Callers : Fetching(d) <=> caller[d].pc \in Holding
  BY Zenon DEF Fetching, Holding
<1>11. r.pc \in Holding => r.entry = E(c)
  BY DEF IdleCaller, Holding
<1>12. ASSUME NEW e \in Ids, locked'[e] # Nobody
       PROVE  caller'[locked'[e]].pc \in Holding /\ caller'[locked'[e]].entry = e
  <2>1. CASE locked'[e] = c
    <3>1. e = E(c)
      BY SMTT(30), <1>1, <1>8, <2>1, CallersAssumption DEF Guarded, Keeper
    <3>2. r.pc \in Holding
      BY Zenon, <1>8, <2>1, <3>1, <1>12 DEF Keeper
    <3> QED
      BY ZenonT(30), <1>3, <1>11, <2>1, <3>1, <3>2
  <2>2. CASE locked'[e] # c
    <3>1. locked'[e] = locked[e] /\ locked[e] \in Callers
      BY Zenon, <1>2, <1>7, <1>8, <1>12, <2>2 DEF Keeper
    <3>2. caller[locked[e]].pc \in Holding /\ caller[locked[e]].entry = e
      BY Zenon, <1>1, <1>9, <1>12, <3>1 DEF Guarded, E
    <3> QED
      BY Zenon, <1>3, <2>2, <3>1, <3>2
  <2> QED
    BY Zenon, <2>1, <2>2
<1>13. ASSUME NEW d \in Callers, caller'[d].pc \in Holding PROVE locked'[caller'[d].entry] = d
  <2>1. CASE d = c
    BY Zenon, <1>3, <1>8, <1>11, <1>13, <2>1 DEF Keeper
  <2>2. CASE d # c
    <3>1. caller'[d] = caller[d] /\ locked[E(d)] = d
      BY Zenon, <1>1, <1>3, <1>9, <1>13, <2>2 DEF Guarded
    <3>2. caller[d].pc # "idle"
      BY ZenonT(30), <1>13, <3>1 DEF Holding
    <3>3. E(d) \in Ids /\ caller[d].entry = E(d)
      BY <1>1, <3>2 DEF CallOK, IdleCaller, CallRecords, E
    <3>4. d # Nobody
      BY Zenon, CallersAssumption
    <3> QED
      BY Zenon, <1>8, <2>2, <3>1, <3>3, <3>4 DEF Keeper
  <2> QED
    BY Zenon, <2>1, <2>2
<1>14. ASSUME NEW d \in Callers, caller'[d].pc # "idle" PROVE entries'[caller'[d].key] = caller'[d].entry
  <2>1. CASE d = c
    <3>1. r \in CallRecords
      BY SMTT(30), <1>3, <1>14, <2>1 DEF IdleCaller
    <3>2. r.key = caller[c].key /\ r.entry = E(c)
      BY <3>1 DEF IdleCaller, CallRecords, Holding
    <3> QED
      BY SMTT(30), <1>1, <1>3, <2>1, <3>2 DEF Guarded
  <2>2. CASE d # c
    BY Zenon, <1>1, <1>3, <1>14, <2>2 DEF Guarded, E
  <2> QED
    BY Zenon, <2>1, <2>2
<1>15. Guarded'
  <2>1. entries' \in [Keys -> Ids \cup {0}]
    BY Zenon, <1>1 DEF Guarded
  <2> QED
    BY Zenon, <1>8, <1>12, <1>13, <1>14, <2>1 DEF Guarded, Fetching, E, Holding
<1> QED
  BY Zenon, <1>3, <1>4, <1>5, <1>6, <1>15 DEF CInv

\* A call resolves its snapshot.
LEMMA ProgressStep == ASSUME CInv, NEW c \in Callers, Progress(c) \/ Drop(c) PROVE CInv'
<1>1. /\ Published /\ Guarded /\ TokenOK(token)
      /\ caller = [d \in Callers |-> caller[d]] /\ \A d \in Callers : CallOK(caller[d])
      /\ cached = [e \in Ids |-> cached[e]] /\ \A e \in Ids : SnapshotOK(cached[e])
  BY Zenon DEF CInv
<1> DEFINE q == caller[c]
<1>2. q.pc # "idle"
  BY Zenon DEF Progress, Lock, Return, TokenLock, TokenIssued, TokenStored, TokenFails, Serve, Store, FetchFails, Drop
<1>3. /\ q \in CallRecords /\ E(c) \in Ids /\ q.entry = E(c) /\ q.now \in Nat /\ q.answer \in Nat /\ q.seen \in Nat
      /\ q.now <= clock /\ CallOK(q)
  BY SMTT(30), <1>1, <1>2 DEF CallOK, IdleCaller, CallRecords, E
<1>4. /\ clock \in Nat /\ clock <= MaxTime /\ revision \in Nat /\ revision >= 1
      /\ closing \in [0..MaxTime -> Nat] /\ \A t \in 0..MaxTime : closing[t] <= revision
      /\ locked \in [Ids -> Callers \cup {Nobody}] /\ tokenLock \in Callers \cup {Nobody}
  BY <1>1, TimesFacts DEF Published, Guarded
<1>5. locked = [locked EXCEPT ![E(c)] = locked[E(c)]]
  BY Zenon, <1>3, <1>4
<1>6. q.pc \in Holding => locked[E(c)] = c
  BY Zenon, <1>1 DEF Guarded, Fetching, Holding
<1>7. c # Nobody
  BY Zenon, CallersAssumption
<1>8. CallOK(IdleCaller) /\ IdleCaller.pc \notin Holding /\ SnapshotOK(None) /\ TokenOK(NoToken)
  BY <1>4, TimesFacts DEF CallOK, IdleCaller, Holding, SnapshotOK, None, Current, TokenOK, NoToken
<1>9. \A s : SnapshotOK(s) =>
        LET to == [cached EXCEPT ![E(c)] = s]
        IN  to = [e \in Ids |-> to[e]] /\ \A e \in Ids : SnapshotOK(to[e])
  BY Zenon, <1>1, <1>3
<1> HIDE DEF q
<1>10. CASE Lock(c) /\ UNCHANGED locked
  <2> DEFINE r == [q EXCEPT !.pc = "answered", !.now = clock, !.answer = cached[E(c)].revision]
  <2>1. ~q.force /\ clock - cached[E(c)].checked < Interval /\ locked[E(c)] = Nobody
        /\ caller' = [caller EXCEPT ![c] = r] /\ UNCHANGED <<server, entries, cached, tokens>>
    BY Zenon, <1>3, <1>4, <1>7, <1>10 DEF Lock, q
  <2>2. SnapshotOK(cached[E(c)])
    BY Zenon, <1>1, <1>3
  <2>3. r \in CallRecords /\ r.pc = "answered" /\ r.now = clock /\ r.answer = cached[E(c)].revision
        /\ r.force = q.force /\ r.key = q.key /\ r.entry = q.entry
    BY ZenonT(30), <1>3, <1>4, <2>2 DEF CallRecords, SnapshotOK
  <2> HIDE DEF r
  <2>4. clock < cached[E(c)].checked + Interval /\ cached[E(c)].checked \in Nat
    BY SMTT(30), <1>4, <2>1, <2>2, TimesFacts DEF SnapshotOK
  <2>5. CallOK(r)
    BY SMTT(30), <1>4, <2>1, <2>2, <2>3, <2>4 DEF CallOK, SnapshotOK
  <2>6. r.pc \notin Holding
    BY Zenon, <2>3 DEF Holding
  <2> QED
    BY ZenonT(30), <1>1, <1>2, <1>3, <1>4, <1>5, <1>7, <1>10, <2>1, <2>3, <2>5, <2>6, CallerMoves DEF Keeper, q, tokens
<1>11. CASE Lock(c) /\ ~UNCHANGED locked
  <2> DEFINE r == [q EXCEPT !.pc = "auth", !.now = clock]
  <2>1. locked[E(c)] = Nobody /\ locked' = [locked EXCEPT ![E(c)] = c]
        /\ caller' = [caller EXCEPT ![c] = r] /\ UNCHANGED <<server, entries, cached, tokens>>
    BY Zenon, <1>11 DEF Lock, q
  <2>3. r \in CallRecords /\ r.pc = "auth" /\ r.now = clock /\ r.key = q.key /\ r.entry = q.entry
    BY Zenon, <1>3, <1>4 DEF CallRecords, Holding
  <2> HIDE DEF r
  <2>5. CallOK(r) /\ r.pc \in Holding
    BY <1>4, <2>3 DEF CallOK, Holding
  <2> QED
    BY ZenonT(30), <1>1, <1>2, <1>3, <1>4, <2>1, <2>3, <2>5, CallerMoves DEF Keeper, q, tokens
<1>12. CASE Return(c)
  <2>1. caller' = [caller EXCEPT ![c] = IdleCaller] /\ UNCHANGED <<server, entries, cached, locked, tokens>>
        /\ q.pc \notin Holding
    BY Zenon, <1>12 DEF Return, q, Holding
  <2>2. locked[E(c)] # c
    BY Zenon, <1>1, <1>3, <1>7, <2>1 DEF Guarded, Fetching, Holding, q
  <2> QED
    BY ZenonT(30), <1>1, <1>2, <1>3, <1>4, <1>5, <1>8, <2>1, <2>2, CallerMoves DEF Keeper, q, tokens
<1>13. CASE TokenLock(c)
  <2> DEFINE r == IF tokenLock' = tokenLock THEN [q EXCEPT !.pc = "get", !.seen = token.until]
                                         ELSE [q EXCEPT !.pc = "post", !.answer = clock]
  <2>1. q.pc = "auth" /\ caller' = [caller EXCEPT ![c] = r] /\ UNCHANGED <<server, entries, cached, locked, token>>
        /\ tokenLock' \in Callers \cup {Nobody}
    <3>1. CASE token.valid /\ clock < token.started + Life \div 2
      BY Zenon, <1>4, <1>13, <3>1 DEF TokenLock, q
    <3>2. CASE ~(token.valid /\ clock < token.started + Life \div 2)
      BY Zenon, <1>4, <1>7, <1>13, <3>2 DEF TokenLock, q
    <3> QED
      BY Zenon, <3>1, <3>2
  <2>3. /\ r \in CallRecords /\ r.pc \in {"get", "post"} /\ r.now = q.now /\ r.key = q.key /\ r.entry = q.entry
        /\ r.pc = "post" => r.answer = clock
    BY Zenon, <1>1, <1>3, <1>4 DEF CallRecords, Holding, TokenOK
  <2> HIDE DEF r
  <2>5. CallOK(r) /\ r.pc \in Holding /\ q.pc \in Holding
    BY <1>3, <1>4, <2>1, <2>3 DEF CallOK, Holding
  <2> QED
    BY ZenonT(30), <1>1, <1>2, <1>3, <1>4, <1>5, <1>6, <2>1, <2>3, <2>5, CallerMoves DEF Keeper, q
<1>14. CASE TokenIssued(c)
  <2> DEFINE until == clock + Life
             r == [q EXCEPT !.pc = "issued", !.seen = until]
  <2>1. q.pc = "post" /\ caller' = [caller EXCEPT ![c] = r] /\ UNCHANGED <<server, entries, cached, locked, tokens>>
    BY Zenon, <1>14 DEF TokenIssued, q
  <2>2. until \in Nat /\ until = clock + Life
    BY <1>4, TimesFacts
  <2> HIDE DEF until
  <2>3. /\ r \in CallRecords /\ r.pc = "issued" /\ r.now = q.now /\ r.key = q.key /\ r.entry = q.entry
        /\ r.answer = q.answer /\ r.seen = until
    BY Zenon, <1>3, <2>2 DEF CallRecords, Holding
  <2> HIDE DEF r
  <2>5. CallOK(r) /\ r.pc \in Holding /\ q.pc \in Holding
    BY SMTT(30), <1>3, <1>4, <2>1, <2>2, <2>3, TimesFacts DEF CallOK, Holding
  <2> QED
    BY ZenonT(30), <1>1, <1>2, <1>3, <1>4, <1>5, <1>6, <2>1, <2>3, <2>5, CallerMoves DEF Keeper, q, tokens
<1>15. CASE TokenStored(c)
  <2> DEFINE r == [q EXCEPT !.pc = "get"]
  <2>1. /\ q.pc = "issued" /\ caller' = [caller EXCEPT ![c] = r] /\ UNCHANGED <<server, entries, cached, locked>>
        /\ tokenLock' = Nobody /\ token' = [valid |-> TRUE, started |-> q.answer, until |-> q.seen]
    BY Zenon, <1>15 DEF TokenStored, Goes, q
  <2>2. TokenOK(token')
    BY Zenon, <1>3, <2>1 DEF TokenOK, CallOK
  <2>3. r \in CallRecords /\ r.pc = "get" /\ r.now = q.now /\ r.key = q.key /\ r.entry = q.entry
    BY Zenon, <1>3 DEF CallRecords, Holding
  <2> HIDE DEF r
  <2>5. CallOK(r) /\ r.pc \in Holding /\ q.pc \in Holding
    BY Zenon, <1>3, <2>1, <2>3 DEF CallOK, Holding
  <2> QED
    BY ZenonT(30), <1>1, <1>2, <1>3, <1>4, <1>5, <1>6, <2>1, <2>2, <2>3, <2>5, CallerMoves DEF Keeper, q
<1>16. CASE TokenFails(c) \/ FetchFails(c)
  <2>1. /\ q.pc \in Holding /\ caller' = [caller EXCEPT ![c] = IdleCaller] /\ UNCHANGED <<server, entries>>
        /\ locked' = [locked EXCEPT ![E(c)] = Nobody] /\ cached' = [cached EXCEPT ![E(c)] = None]
        /\ tokenLock' \in {tokenLock, Nobody} /\ token' \in {token, NoToken}
    BY Zenon, <1>16 DEF TokenFails, FetchFails, Unlocks, Holding, q, tokens
  <2>2. TokenOK(token') /\ tokenLock' \in Callers \cup {Nobody}
    BY Zenon, <1>1, <1>4, <1>8, <2>1
  <2>3. cached' = [e \in Ids |-> cached'[e]] /\ \A e \in Ids : SnapshotOK(cached'[e])
    BY Zenon, <1>8, <1>9, <2>1
  <2> QED
    BY ZenonT(30), <1>2, <1>6, <1>8, <2>1, <2>2, <2>3, CallerMoves DEF Keeper, q
<1>17. CASE Serve(c)
  <2> DEFINE r == [q EXCEPT !.pc = "served", !.answer = revision]
  <2>1. q.pc = "get" /\ caller' = [caller EXCEPT ![c] = r] /\ UNCHANGED <<server, entries, cached, locked, tokens>>
    BY Zenon, <1>17 DEF Serve, q
  <2>3. r \in CallRecords /\ r.pc = "served" /\ r.now = q.now /\ r.key = q.key /\ r.entry = q.entry /\ r.answer = revision
    BY Zenon, <1>3, <1>4 DEF CallRecords, Holding
  <2> HIDE DEF r
  <2>5. CallOK(r) /\ r.pc \in Holding /\ q.pc \in Holding
    BY <1>3, <1>4, <2>1, <2>3 DEF CallOK, Holding, Current
  <2> QED
    BY ZenonT(30), <1>1, <1>2, <1>3, <1>4, <1>5, <1>6, <2>1, <2>3, <2>5, CallerMoves DEF Keeper, q, tokens
<1>18. CASE Store(c)
  <2> DEFINE r == [q EXCEPT !.pc = "answered"]
             s == [revision |-> q.answer, checked |-> q.now]
  <2>1. /\ q.pc = "served" /\ caller' = [caller EXCEPT ![c] = r] /\ UNCHANGED <<server, entries, tokens>>
        /\ locked' = [locked EXCEPT ![E(c)] = Nobody] /\ cached' = [cached EXCEPT ![E(c)] = s]
    BY Zenon, <1>18 DEF Store, Goes, Unlocks, q
  <2>2. SnapshotOK(s)
    BY Zenon, <1>3, <2>1 DEF SnapshotOK, CallOK
  <2>3. r \in CallRecords /\ r.pc = "answered" /\ r.now = q.now /\ r.key = q.key /\ r.entry = q.entry /\ r.answer = q.answer
    BY Zenon, <1>3 DEF CallRecords, Holding
  <2>4. cached' = [e \in Ids |-> cached'[e]] /\ \A e \in Ids : SnapshotOK(cached'[e])
    BY Zenon, <1>9, <2>1, <2>2
  <2> HIDE DEF r, s
  <2>5. CallOK(r) /\ r.pc \notin Holding /\ q.pc \in Holding
    BY Zenon, <1>3, <2>1, <2>3 DEF CallOK, Holding
  <2> QED
    BY ZenonT(30), <1>1, <1>2, <1>3, <1>4, <1>6, <2>1, <2>3, <2>4, <2>5, CallerMoves DEF Keeper, q, tokens
<1>19. CASE Drop(c)
  <2>1. /\ caller' = [caller EXCEPT ![c] = IdleCaller] /\ UNCHANGED <<server, entries, cached, token>>
        /\ locked' = [locked EXCEPT ![E(c)] = IF locked[E(c)] = c THEN Nobody ELSE locked[E(c)]]
        /\ tokenLock' \in Callers \cup {Nobody}
    BY Zenon, <1>4, <1>19 DEF Drop
  <2> QED
    BY Zenon, <1>1, <1>2, <1>8, <2>1, CallerMoves DEF Keeper, q
<1> QED
  BY ZenonT(30), <1>10, <1>11, <1>12, <1>13, <1>14, <1>15, <1>16, <1>17, <1>18, <1>19 DEF Progress

\* A call from an idle caller finds an entry that neither the map nor another
\* call refers to, whatever the map keeps; the last section shows it.
EntryLeft ==
    \A c \in Callers : \A kept : caller[c].pc = "idle" /\ kept = [j \in Keys |-> kept[j]] =>
        \E e \in Ids : e \notin {kept[j] : j \in Keys} \cup {d \in Ids : Holders(d) # {}}

\* A call finds or makes the entry of its key.
LEMMA CallStep ==
    ASSUME CInv, EntryLeft, NEW c \in Callers, NEW key \in Keys, NEW force \in BOOLEAN, Call(c, key, force)
    PROVE  CInv'
<1> DEFINE kept == [j \in Keys |-> IF entries[j] # 0 /\ Kept(entries[j]) THEN entries[j] ELSE 0]
           used == {kept[j] : j \in Keys} \cup {e \in Ids : Holders(e) # {}}
           fresh == CHOOSE e \in Ids : e \notin used
           en == IF kept[key] # 0 THEN kept[key] ELSE fresh
           r == [pc |-> "waiting", key |-> key, entry |-> en, force |-> force, now |-> 0, answer |-> 0, seen |-> 0]
<1>1. /\ Published /\ Guarded /\ TokenOK(token)
      /\ caller = [d \in Callers |-> caller[d]] /\ \A d \in Callers : CallOK(caller[d])
      /\ cached = [e \in Ids |-> cached[e]] /\ \A e \in Ids : SnapshotOK(cached[e])
  BY Zenon DEF CInv
<1>2. /\ caller[c].pc = "idle" /\ entries' = [kept EXCEPT ![key] = en]
      /\ cached' = [d \in Ids |-> IF d \in used THEN cached[d] ELSE None]
      /\ caller' = [caller EXCEPT ![c] = r] /\ UNCHANGED <<server, locked, tokens>>
  BY Zenon DEF Call
<1>3. /\ clock \in Nat /\ revision \in Nat /\ closing \in [0..MaxTime -> Nat]
      /\ entries \in [Keys -> Ids \cup {0}]
  BY <1>1, TimesFacts DEF Published, Guarded
<1>4. fresh \in Ids /\ fresh \notin used
  <2>1. kept = [j \in Keys |-> kept[j]]
    BY Zenon
  <2> HIDE DEF kept
  <2> QED
    BY Zenon, <1>2, <2>1 DEF EntryLeft
<1> HIDE DEF fresh
<1>5. /\ kept \in [Keys -> Ids \cup {0}]
      /\ \A j \in Keys : kept[j] # 0 => kept[j] = entries[j]
      /\ \A j \in Keys : entries[j] \in Ids /\ Holders(entries[j]) # {} => kept[j] = entries[j]
  BY Zenon, <1>3 DEF Kept, Ids
<1> HIDE DEF kept
<1>6. en \in Ids
  BY Zenon, <1>4, <1>5
<1> HIDE DEF en, used
<1>7. r \in CallRecords
  BY Zenon, <1>6 DEF CallRecords
<1>8. caller'[c] = r /\ (\A d \in Callers : d # c => caller'[d] = caller[d])
      /\ caller' = [d \in Callers |-> caller'[d]]
  <2> HIDE DEF r
  <2> QED
    BY Zenon, <1>1, <1>2
<1>9. CallOK(r)
  <2>1. r.pc = "waiting" /\ r.now = 0
    BY Zenon
  <2> HIDE DEF r
  <2> QED
    BY <1>3, <1>7, <2>1 DEF CallOK
<1>10. SnapshotOK(None)
  BY <1>3, TimesFacts DEF SnapshotOK, None, Current
<1>11. (\A e \in Ids : SnapshotOK(cached[e]))' /\ cached' = [e \in Ids |-> cached'[e]]
  <2>1. \A e \in Ids : SnapshotOK(cached'[e])
    BY Zenon, <1>1, <1>2, <1>10
  <2> QED
    BY Zenon, <1>2, <2>1 DEF SnapshotOK, Current, server
<1>12. (\A d \in Callers : CallOK(caller[d]))'
  <2> HIDE DEF r
  <2>1. \A d \in Callers : CallOK(caller'[d])
    BY Zenon, <1>1, <1>8, <1>9
  <2> QED
    BY Zenon, <1>2, <2>1 DEF CallOK, Current, server
<1>13. Published' /\ TokenOK(token)'
  BY Zenon, <1>1, <1>2 DEF Published, TokenOK, server, tokens
<1>14. ASSUME NEW d \in Callers, d # c, caller[d].pc # "idle"
       PROVE  /\ entries'[caller[d].key] = caller[d].entry
  <2>1. caller[d] \in CallRecords /\ entries[caller[d].key] = caller[d].entry
    BY <1>1, <1>14 DEF CallOK, IdleCaller, Guarded, E
  <2>2. caller[d].key \in Keys /\ caller[d].entry \in Ids
    BY Zenon, <2>1 DEF CallRecords
  <2>3. d \in Holders(caller[d].entry)
    BY Zenon, <1>14 DEF Holders
  <2>4. kept[caller[d].key] = caller[d].entry
    BY Zenon, <1>5, <2>1, <2>2, <2>3
  <2>5. 0 \notin Ids
    BY DEF Ids
  <2> QED
    BY ZenonT(30), <1>2, <1>5, <2>2, <2>4, <2>5 DEF en
<1>15. Guarded'
  <2>1. entries' \in [Keys -> Ids \cup {0}] /\ entries'[key] = en
    BY Zenon, <1>2, <1>5, <1>6
  <2>2. /\ locked' \in [Ids -> Callers \cup {Nobody}] /\ locked' = locked
        /\ tokenLock' \in Callers \cup {Nobody}
    BY Zenon, <1>1, <1>2 DEF Guarded, tokens
  <2>3. r.pc = "waiting" /\ r.key = key /\ r.entry = en
    BY Zenon
  <2> HIDE DEF r
  <2>4. ASSUME NEW e \in Ids, locked[e] # Nobody
        PROVE  locked[e] # c /\ locked[e] \in Callers /\ caller'[locked[e]] = caller[locked[e]]
    <3>1. locked[e] \in Callers /\ Fetching(locked[e])
      BY <1>1, <2>4 DEF Guarded
    <3>2. locked[e] # c
      BY Zenon, <1>2, <3>1 DEF Fetching
    <3> QED
      BY Zenon, <1>8, <3>1, <3>2
  <2>5. (\A e \in Ids : locked[e] # Nobody => Fetching(locked[e]) /\ E(locked[e]) = e)'
    <3>1. \A e \in Ids : locked[e] # Nobody => Fetching(locked[e]) /\ E(locked[e]) = e
      BY Zenon, <1>1 DEF Guarded
    <3> QED
      BY Zenon, <2>2, <2>4, <3>1 DEF Fetching, E
  <2>6. (\A d \in Callers : Fetching(d) => locked[E(d)] = d)'
    BY ZenonT(30), <1>1, <1>8, <2>2, <2>3 DEF Guarded, Fetching, E
  <2>7. (\A d \in Callers : caller[d].pc # "idle" => entries[caller[d].key] = E(d))'
    BY Zenon, <1>8, <1>14, <2>1, <2>3 DEF E
  <2> QED
    BY Zenon, <2>1, <2>2, <2>5, <2>6, <2>7 DEF Guarded
<1> QED
  BY Zenon, <1>8, <1>11, <1>12, <1>13, <1>15 DEF CInv

\* Every step keeps the invariant.
LEMMA CatalogStep == CInv /\ EntryLeft /\ [CatalogNext]_catalogVars => CInv'
<1> SUFFICES ASSUME CInv, EntryLeft, [CatalogNext]_catalogVars PROVE CInv'
  BY Zenon
<1>1. clock \in Nat /\ revision \in Nat /\ revision >= 1 /\ revision <= clock + 1 /\ clock <= MaxTime
      /\ closing \in [0..MaxTime -> Nat] /\ \A t \in 0..MaxTime : closing[t] <= revision
  BY TimesFacts DEF CInv, Published
<1>2. CASE Publish
  <2>1. Published' /\ clock <= clock' /\ revision <= revision' /\ closing' = closing
        /\ UNCHANGED <<entries, cached, locked, tokens, caller>>
    BY <1>1, <1>2, TimesFacts DEF Publish, Published
  <2> QED
    BY Zenon, <2>1, ServerMoves
<1>3. CASE Tick
  <2>1. clock' = clock + 1 /\ clock < MaxTime /\ revision' = revision /\ closing' = [closing EXCEPT ![clock] = revision]
        /\ UNCHANGED <<entries, cached, locked, tokens, caller>>
    BY Zenon, <1>3 DEF Tick
  <2>2. closing' \in [0..MaxTime -> Nat] /\ (\A t \in 0..MaxTime : closing'[t] <= revision)
        /\ \A t \in 0..MaxTime : t < clock => closing'[t] = closing[t]
    BY SMTT(30), <1>1, <2>1, TimesFacts
  <2>3. Published' /\ clock <= clock' /\ revision <= revision'
    BY SMTT(30), <1>1, <2>1, <2>2, TimesFacts DEF Published
  <2> QED
    BY Zenon, <2>1, <2>2, <2>3, ServerMoves
<1>4. CASE \E c \in Callers, k \in Keys, force \in BOOLEAN : Call(c, k, force)
  BY Zenon, <1>4, CallStep
<1>5. CASE \E c \in Callers : Progress(c) \/ Drop(c)
  BY ZenonT(30), <1>5, ProgressStep
<1>6. CASE UNCHANGED catalogVars
  <2>1. Published' /\ clock <= clock' /\ revision <= revision' /\ closing' = closing
        /\ UNCHANGED <<entries, cached, locked, tokens, caller>>
    BY <1>1, <1>6 DEF catalogVars, CInv, Published, tokens
  <2> QED
    BY Zenon, <2>1, ServerMoves
<1> QED
  BY Zenon, <1>2, <1>3, <1>4, <1>5, <1>6 DEF CatalogNext

\* The image of a finite set under a function.
LEMMA ImageBound ==
    ASSUME NEW S, IsFiniteSet(S), NEW f, f = [s \in S |-> f[s]]
    PROVE  LET T == {f[s] : s \in S} IN IsFiniteSet(T) /\ Cardinality(T) <= Cardinality(S)
<1> DEFINE T == {f[s] : s \in S}
<1>1. f \in Surjection(S, T)
  BY Zenon DEF Surjection
<1> HIDE DEF T
<1>2. IsFiniteSet(T) /\ Cardinality(T) <= Cardinality(S)
  BY Zenon, <1>1, FS_Surjection
<1> QED
  BY Zenon, <1>2 DEF T

\* There is an entry for one more call: the others refer to fewer than there
\* are callers, and the map to no more than there are keys.
LEMMA OneEntryLeft ==
    ASSUME NEW c \in Callers, caller[c].pc = "idle", NEW kept, kept = [j \in Keys |-> kept[j]]
    PROVE  \E e \in Ids : e \notin {kept[j] : j \in Keys} \cup {d \in Ids : Holders(d) # {}}
<1> DEFINE Others == Callers \ {c}
           refers == [d \in Others |-> caller[d].entry]
           K == {kept[j] : j \in Keys}
           H == {refers[d] : d \in Others}
           M == {d \in Ids : Holders(d) # {}}
           n == Cardinality(Callers)
           k == Cardinality(Keys)
<1>1. n \in Nat /\ k \in Nat /\ IsFiniteSet(Others) /\ Cardinality(Others) = n - 1 /\ IsFiniteSet(Keys)
  <2>1. IsFiniteSet(Callers) /\ IsFiniteSet(Keys)
    BY Zenon, CallersAssumption
  <2>2. IsFiniteSet(Callers \ {c}) /\ Cardinality(Callers \ {c}) = Cardinality(Callers) - 1
    BY Zenon, <2>1, FS_RemoveElement
  <2> QED
    BY Zenon, <2>1, <2>2, FS_CardinalityType
<1>2. IsFiniteSet(K) /\ Cardinality(K) <= k
  <2> HIDE DEF k
  <2> QED
    BY Zenon, <1>1, ImageBound DEF k
<1>3. IsFiniteSet(H) /\ Cardinality(H) <= n - 1
  <2>1. refers = [s \in Others |-> refers[s]]
    BY Zenon
  <2> HIDE DEF refers, Others
  <2> QED
    BY Zenon, <1>1, <2>1, ImageBound
<1>4. M \subseteq H
  BY Zenon DEF Holders
<1> HIDE DEF K, H, M, n, k
<1>5. IsFiniteSet(K \cup H) /\ Cardinality(K \cup H) <= k + n - 1
  <2>1. IsFiniteSet(K \cup H) /\ Cardinality(K \cup H) = Cardinality(K) + Cardinality(H) - Cardinality(K \cap H)
    BY Zenon, <1>2, <1>3, FS_Union
  <2>2. Cardinality(K) \in Nat /\ Cardinality(H) \in Nat /\ Cardinality(K \cap H) \in Nat
    <3>1. IsFiniteSet(K \cap H)
      BY Zenon, <1>2, FS_Intersection
    <3> QED
      BY Zenon, <1>2, <1>3, <3>1, FS_CardinalityType
  <2> QED
    BY SMTT(30), <1>1, <1>2, <1>3, <2>1, <2>2
<1>6. Cardinality(Ids) = n + k /\ IsFiniteSet(Ids)
  <2>1. Ids = 1..(n + k)
    BY Zenon DEF Ids, n, k
  <2>2. 1 \in Int /\ n + k \in Int /\ (1 > n + k => n + k = 0) /\ (n + k) - 1 + 1 = n + k
    BY <1>1
  <2> QED
    BY Zenon, <2>1, <2>2, FS_Interval
<1>7. ASSUME Ids \subseteq K \cup H PROVE FALSE
  <2>1. Cardinality(Ids) <= Cardinality(K \cup H)
    BY Zenon, <1>5, <1>7, FS_Subset
  <2>2. Cardinality(K \cup H) \in Nat
    BY Zenon, <1>5, FS_CardinalityType
  <2> QED
    BY SMTT(30), <1>1, <1>5, <1>6, <2>1, <2>2
<1>8. PICK e \in Ids : e \notin K \cup H
  BY Zenon, <1>7
<1> QED
  BY Zenon, <1>4, <1>8 DEF K, M

\* So there is one wherever a call looks for one.
LEMMA FreshEntry == EntryLeft
BY Zenon, OneEntryLeft DEF EntryLeft

\* However many callers and identities there are, and whatever fails, is
\* dropped or evicted meanwhile: one request at a time for an identity.
THEOREM FetchesAreExclusive == CatalogSpec => []OneFetchPerIdentity
  BY FreshEntry, CatalogStart, CatalogStep, CatalogImplies, PTL DEF CatalogSpec

\* For any interval and any moment of publication, no answer is older than its
\* call allows.
THEOREM AnswersStayFresh == CatalogSpec => []AnswersAreFresh
  BY FreshEntry, CatalogStart, CatalogStep, CatalogImplies, PTL DEF CatalogSpec

\* For any lifetime, and however late the token's answer comes, a token that is
\* taken from the cache is one that the server accepts.
THEOREM TokensAreAccepted == CatalogSpec => []ReusedTokensAreAccepted
  BY FreshEntry, CatalogStart, CatalogStep, CatalogImplies, PTL DEF CatalogSpec

-----------------------------------------------------------------------------
(***************************************************************************)
(* The streams of a DuckDB session: one that ends is whole, and a          *)
(* cancellation interrupts its own query only.                             *)
(***************************************************************************)

\* The places of a worker thread, and the ones it passes on its way out.
WayOut == {"drop", "clear", "leave", "unlock", "report"}
Stations == {"lock", "setup", "check", "view", "query", "rows", "send", "done"} \cup WayOut
Consumers == {"opening", "reading", "ended", "failed", "gone"}

FlowTypes ==
    /\ thread \in [Queries -> Stations] /\ fine \in [Queries -> BOOLEAN]
    /\ scan \in [Queries -> {"idle", "registered", "selecting"}]
    /\ schema \in [Queries -> {"none", "ok", "error"}] /\ channel \in [Queries -> Seq({"batch", "error"})]
    /\ produced \in [Queries -> Nat] /\ got \in [Queries -> Nat]
    /\ consumer \in [Queries -> Consumers]

\* Every item of the channel is a batch, and with those read they are n.
Delivers(ch, g, n) == (\A i \in 1..Len(ch) : ch[i] = "batch") /\ g + Len(ch) = n
EndsInError(ch) == ch # <<>> /\ ch[Len(ch)] = "error"

\* While a consumer waits or reads, what was produced is read or in the
\* channel; a worker whose result is fine leaves when it has produced all; and
\* what it leaves behind is the whole result, or ends in an error.
FlowOK(q) ==
    /\ consumer[q] = "ended" => got[q] = Batches
    /\ consumer[q] = "reading" => schema[q] = "ok"
    /\ consumer[q] \in {"opening", "reading"} =>
         /\ thread[q] # "done" => Delivers(channel[q], got[q], produced[q])
         /\ thread[q] \in WayOut /\ fine[q] => produced[q] = Batches
         /\ thread[q] = "done" /\ schema[q] = "ok" =>
               EndsInError(channel[q]) \/ Delivers(channel[q], got[q], Batches)

\* An input is scanned while the query reads its rows.
ScanOK(q) == scan[q] # "idle" => thread[q] = "rows" /\ q \in WithInput

FlowInv == FlowTypes /\ \A q \in Queries : FlowOK(q) /\ ScanOK(q)

\* At the start nothing has been produced.
LEMMA FlowStart == SessionInit => FlowInv
<1> SUFFICES ASSUME SessionInit PROVE FlowInv
  BY Zenon
<1>1. FlowTypes
  <2>1. <<>> \in Seq({"batch", "error"})
    OBVIOUS
  <2> QED
    BY Zenon, <2>1 DEF SessionInit, FlowTypes, Stations, Consumers
<1>2. \A q \in Queries : FlowOK(q) /\ ScanOK(q)
  <2>1. Delivers(<<>>, 0, 0)
    BY DEF Delivers
  <2> QED
    BY Zenon, <2>1 DEF SessionInit, FlowOK, ScanOK, WayOut
<1> QED
  BY Zenon, <1>1, <1>2 DEF FlowInv

\* A step of one query leaves the others alone.
LEMMA OtherQueries ==
    ASSUME FlowInv, FlowTypes', NEW q \in Queries, FlowOK(q)', ScanOK(q)',
           \A d \in Queries : d # q =>
               /\ thread'[d] = thread[d] /\ fine'[d] = fine[d] /\ scan'[d] = scan[d] /\ schema'[d] = schema[d]
               /\ channel'[d] = channel[d] /\ produced'[d] = produced[d] /\ got'[d] = got[d]
               /\ consumer'[d] = consumer[d]
    PROVE  FlowInv'
<1> SUFFICES ASSUME NEW d \in Queries, d # q PROVE FlowOK(d)' /\ ScanOK(d)'
  BY Zenon DEF FlowInv
<1>1. FlowOK(d) /\ ScanOK(d)
  BY Zenon DEF FlowInv
<1> QED
  BY Zenon, <1>1 DEF FlowOK, ScanOK

\* A worker moves from place to place, and nothing is sent.
LEMMA WorkerMoves ==
    ASSUME FlowInv, NEW q \in Queries, NEW place \in Stations, NEW ok \in BOOLEAN, NEW sc,
           thread[q] # "done", place # "done", UNCHANGED flow,
           thread' = [thread EXCEPT ![q] = place], fine' = [fine EXCEPT ![q] = ok],
           sc \in {"idle", "registered", "selecting"}, scan' = [scan EXCEPT ![q] = sc],
           sc # "idle" => place = "rows" /\ q \in WithInput,
           place \in WayOut /\ ok => Gone(q) \/ produced[q] = Batches \/ (thread[q] \in WayOut /\ fine[q])
    PROVE  FlowInv'
<1>1. FlowTypes /\ FlowOK(q)
  BY Zenon DEF FlowInv
<1>2. FlowTypes'
  BY Zenon, <1>1 DEF FlowTypes, flow
<1>3. /\ thread'[q] = place /\ fine'[q] = ok /\ scan'[q] = sc
      /\ \A d \in Queries : d # q => thread'[d] = thread[d] /\ fine'[d] = fine[d] /\ scan'[d] = scan[d]
      /\ schema' = schema /\ channel' = channel /\ produced' = produced /\ got' = got /\ consumer' = consumer
  BY Zenon, <1>1 DEF FlowTypes, flow
<1>4. FlowOK(q)' /\ ScanOK(q)'
  BY Zenon, <1>1, <1>3 DEF FlowOK, ScanOK, Gone
<1> QED
  BY Zenon, <1>2, <1>3, <1>4, OtherQueries

\* The steps of the worker that send nothing.
LEMMA WorkerStepKeeps ==
    ASSUME FlowInv, NEW q \in Queries,
           \/ LockExecutor(q) \/ SetUp(q) \/ Check(q) \/ CreateView(q) \/ QueryFails(q) \/ NextBatch(q)
           \/ EndOfRows(q) \/ ScanRegister(q) \/ ScanLook(q) \/ ScanWoken(q) \/ ScanReads(q)
           \/ DropView(q) \/ Clear(q) \/ Unarm(q) \/ Unlock(q)
    PROVE  FlowInv'
<1>1. FlowTypes /\ FlowOK(q) /\ ScanOK(q)
  BY Zenon DEF FlowInv
<1>2. /\ thread = [thread EXCEPT ![q] = thread[q]] /\ fine = [fine EXCEPT ![q] = fine[q]]
      /\ scan = [scan EXCEPT ![q] = scan[q]] /\ fine[q] \in BOOLEAN /\ thread[q] \in Stations
      /\ scan[q] \in {"idle", "registered", "selecting"}
  BY Zenon, <1>1 DEF FlowTypes
<1>3. Drops(q) \in {"drop", "clear"}
  BY Zenon DEF Drops
<1>4. CASE LockExecutor(q) \/ SetUp(q) \/ Check(q) \/ CreateView(q)
  <2>1. PICK place \in {"setup", "check", "leave", "view", "query", "clear"}, ok \in BOOLEAN :
          /\ thread' = [thread EXCEPT ![q] = place] /\ fine' = [fine EXCEPT ![q] = ok]
          /\ place \in {"leave", "clear"} => ~ok
    BY Zenon, <1>2, <1>4 DEF LockExecutor, SetUp, Check, CreateView, Moves, FailsTo, Executes
  <2>2. thread[q] \in {"lock", "setup", "check", "view"} /\ UNCHANGED <<scan, flow>>
    BY Zenon, <1>4 DEF LockExecutor, SetUp, Check, CreateView
  <2>3. scan[q] = "idle"
    BY Zenon, <1>1, <1>2, <2>2 DEF ScanOK
  <2> QED
    BY Zenon, <1>2, <2>1, <2>2, <2>3, WorkerMoves DEF Stations, WayOut
<1>5. CASE QueryFails(q) \/ ScanWoken(q) \/ (ScanLook(q) /\ cancelFlag[q])
  <2>1. /\ thread' = [thread EXCEPT ![q] = Drops(q)] /\ fine' = [fine EXCEPT ![q] = FALSE]
        /\ scan' = [scan EXCEPT ![q] = "idle"] /\ UNCHANGED flow /\ thread[q] # "done"
    BY Zenon, <1>1, <1>2, <1>5 DEF QueryFails, ScanWoken, ScanLook, ScanFails, FailsTo, Moves, ScanOK
  <2> QED
    BY Zenon, <1>3, <2>1, WorkerMoves DEF Stations, WayOut
<1>6. CASE NextBatch(q) \/ ScanReads(q)
  <2>1. /\ thread' = [thread EXCEPT ![q] = "send"] /\ fine' = fine /\ UNCHANGED flow
        /\ scan' = [scan EXCEPT ![q] = "idle"] /\ thread[q] # "done"
    BY Zenon, <1>1, <1>2, <1>6 DEF NextBatch, ScanReads, Moves, ScanOK
  <2> QED
    BY Zenon, <1>2, <2>1, WorkerMoves DEF Stations, WayOut
<1>7. CASE EndOfRows(q)
  <2>1. /\ thread' = [thread EXCEPT ![q] = Drops(q)] /\ fine' = fine /\ UNCHANGED flow
        /\ scan' = scan /\ scan[q] = "idle" /\ thread[q] = "rows" /\ produced[q] = Batches
    BY Zenon, <1>7 DEF EndOfRows, Executes, Moves
  <2> QED
    BY Zenon, <1>2, <1>3, <2>1, WorkerMoves DEF Stations, WayOut
<1>8. CASE ScanRegister(q) \/ (ScanLook(q) /\ ~cancelFlag[q])
  <2>1. PICK sc \in {"registered", "selecting"} : scan' = [scan EXCEPT ![q] = sc]
    BY Zenon, <1>8 DEF ScanRegister, ScanLook
  <2>2. thread[q] = "rows" /\ q \in WithInput /\ thread' = thread /\ fine' = fine /\ UNCHANGED flow
    BY Zenon, <1>1, <1>8 DEF ScanRegister, ScanLook, ScanOK
  <2> QED
    BY Zenon, <1>2, <2>1, <2>2, WorkerMoves DEF Stations, WayOut
<1>9. CASE DropView(q) \/ Clear(q) \/ Unarm(q) \/ Unlock(q)
  <2>1. PICK place \in WayOut, ok \in BOOLEAN :
          /\ thread' = [thread EXCEPT ![q] = place] /\ fine' = [fine EXCEPT ![q] = ok] /\ (ok => fine[q])
    BY Zenon, <1>2, <1>9 DEF DropView, Clear, Unarm, Unlock, Moves, FailsTo, Executes, WayOut
  <2>2. thread[q] \in WayOut /\ UNCHANGED <<scan, flow>>
    BY Zenon, <1>9 DEF DropView, Clear, Unarm, Unlock, WayOut
  <2>3. scan[q] = "idle"
    BY Zenon, <1>1, <1>2, <2>2 DEF ScanOK, WayOut
  <2> QED
    BY ZenonT(30), <1>2, <2>1, <2>2, <2>3, WorkerMoves DEF Stations, WayOut
<1> QED
  BY Zenon, <1>4, <1>5, <1>6, <1>7, <1>8, <1>9

\* One more batch in the channel.
LEMMA OneMoreBatch ==
    ASSUME NEW ch \in Seq({"batch", "error"}), NEW g \in Nat, NEW n \in Nat
    PROVE  /\ Append(ch, "batch") \in Seq({"batch", "error"}) /\ Append(ch, "error") \in Seq({"batch", "error"})
           /\ Delivers(ch, g, n) => Delivers(Append(ch, "batch"), g, n + 1)
           /\ EndsInError(Append(ch, "error"))
<1>1. /\ \A x \in {"batch", "error"} : Append(ch, x) \in Seq({"batch", "error"}) /\ Len(Append(ch, x)) = Len(ch) + 1
                                      /\ Append(ch, x)[Len(ch) + 1] = x
      /\ Len(ch) \in Nat
      /\ \A i \in 1..Len(ch) : Append(ch, "batch")[i] = ch[i]
  OBVIOUS
<1>2. EndsInError(Append(ch, "error"))
  BY <1>1 DEF EndsInError
<1>3. ASSUME Delivers(ch, g, n) PROVE Delivers(Append(ch, "batch"), g, n + 1)
  <2>1. \A i \in 1..(Len(ch) + 1) : i \in 1..Len(ch) \/ i = Len(ch) + 1
    BY <1>1
  <2> QED
    BY SMTT(30), <1>1, <1>3, <2>1 DEF Delivers
<1> QED
  BY Zenon, <1>1, <1>2, <1>3

\* The first item of the channel is read.
LEMMA OneLess ==
    ASSUME NEW ch \in Seq({"batch", "error"}), ch # <<>>, NEW g \in Nat, NEW n \in Nat
    PROVE  /\ Tail(ch) \in Seq({"batch", "error"}) /\ Head(ch) \in {"batch", "error"}
           /\ Delivers(ch, g, n) => Delivers(Tail(ch), g + 1, n)
           /\ EndsInError(ch) /\ Head(ch) = "batch" => EndsInError(Tail(ch))
<1>1. /\ Len(ch) \in Nat /\ Len(ch) >= 1 /\ Tail(ch) \in Seq({"batch", "error"}) /\ Len(Tail(ch)) = Len(ch) - 1
      /\ Head(ch) = ch[1] /\ Head(ch) \in {"batch", "error"}
      /\ \A i \in 1..(Len(ch) - 1) : Tail(ch)[i] = ch[i + 1]
  OBVIOUS
<1>2. ASSUME Delivers(ch, g, n) PROVE Delivers(Tail(ch), g + 1, n)
  BY <1>1, <1>2 DEF Delivers
<1>3. ASSUME EndsInError(ch), Head(ch) = "batch" PROVE EndsInError(Tail(ch))
  <2>1. Len(ch) # 1
    BY Zenon, <1>1, <1>3 DEF EndsInError
  <2>2. Len(Tail(ch)) \in 1..(Len(ch) - 1) /\ Len(Tail(ch)) + 1 = Len(ch)
    BY <1>1, <2>1
  <2>3. Tail(ch)[Len(Tail(ch))] = ch[Len(ch)]
    BY Zenon, <1>1, <2>2
  <2>4. Tail(ch) # <<>>
    <3>1. Len(Tail(ch)) # 0
      BY <2>2
    <3>2. Len(<<>>) = 0
      BY Zenon
    <3> QED
      BY Zenon, <3>1, <3>2
  <2> QED
    BY Zenon, <1>3, <2>3, <2>4 DEF EndsInError
<1> QED
  BY Zenon, <1>1, <1>2, <1>3

\* The worker tells the schema, sends a batch, and ends.
LEMMA PublishKeeps == ASSUME FlowInv, NEW q \in Queries, PublishSchema(q) PROVE FlowInv'
<1>1. FlowTypes /\ FlowOK(q) /\ ScanOK(q) /\ Drops(q) \in {"drop", "clear"}
  BY Zenon DEF FlowInv, Drops
<1>2. /\ thread[q] = "query" /\ scan[q] = "idle" /\ UNCHANGED <<fine, scan, channel, produced, consumer, got>>
  BY Zenon DEF PublishSchema, signals
<1>3. CASE Gone(q) /\ thread' = [thread EXCEPT ![q] = Drops(q)] /\ UNCHANGED schema
  <2>1. fine = [fine EXCEPT ![q] = fine[q]] /\ scan = [scan EXCEPT ![q] = "idle"] /\ fine[q] \in BOOLEAN
    BY Zenon, <1>1, <1>2 DEF FlowTypes
  <2> QED
    BY Zenon, <1>1, <1>2, <1>3, <2>1, WorkerMoves DEF Stations, WayOut, flow
<1>4. CASE schema' = [schema EXCEPT ![q] = "ok"] /\ thread' = [thread EXCEPT ![q] = "rows"]
  <2>1. FlowTypes'
    BY Zenon, <1>1, <1>2, <1>4 DEF FlowTypes, Stations
  <2>2. thread'[q] = "rows" /\ schema'[q] = "ok"
        /\ \A d \in Queries : d # q => thread'[d] = thread[d] /\ schema'[d] = schema[d]
    BY Zenon, <1>1, <1>4 DEF FlowTypes
  <2>3. FlowOK(q)' /\ ScanOK(q)'
    BY Zenon, <1>1, <1>2, <2>2 DEF FlowOK, ScanOK, WayOut
  <2> QED
    BY Zenon, <1>2, <2>1, <2>2, <2>3, OtherQueries
<1> QED
  BY Zenon, <1>3, <1>4 DEF PublishSchema, Executes, Moves

\* A batch goes into the channel, or finds no receiver.
LEMMA SendKeeps == ASSUME FlowInv, NEW q \in Queries, Send(q) PROVE FlowInv'
<1>1. FlowTypes /\ FlowOK(q) /\ ScanOK(q) /\ Drops(q) \in {"drop", "clear"}
  BY Zenon DEF FlowInv, Drops
<1>2. thread[q] = "send" /\ UNCHANGED <<fine, scan, schema, consumer, got>>
  BY Zenon DEF Send
<1>3. scan[q] = "idle"
  BY Zenon, <1>1, <1>2 DEF ScanOK
<1>4. CASE Gone(q) /\ thread' = [thread EXCEPT ![q] = Drops(q)] /\ UNCHANGED <<channel, produced>>
  <2>1. fine = [fine EXCEPT ![q] = fine[q]] /\ scan = [scan EXCEPT ![q] = "idle"] /\ fine[q] \in BOOLEAN
    BY Zenon, <1>1, <1>3 DEF FlowTypes
  <2> QED
    BY Zenon, <1>1, <1>2, <1>4, <2>1, WorkerMoves DEF Stations, WayOut, flow
<1>5. CASE /\ channel' = [channel EXCEPT ![q] = Append(@, "batch")]
           /\ produced' = [produced EXCEPT ![q] = @ + 1] /\ thread' = [thread EXCEPT ![q] = "rows"]
  <2>1. channel[q] \in Seq({"batch", "error"}) /\ produced[q] \in Nat /\ got[q] \in Nat
    BY Zenon, <1>1 DEF FlowTypes
  <2>2. Append(channel[q], "batch") \in Seq({"batch", "error"})
        /\ (Delivers(channel[q], got[q], produced[q]) =>
              Delivers(Append(channel[q], "batch"), got[q], produced[q] + 1))
    BY Zenon, <2>1, OneMoreBatch
  <2>3. /\ thread'[q] = "rows" /\ channel'[q] = Append(channel[q], "batch") /\ produced'[q] = produced[q] + 1
        /\ \A d \in Queries : d # q => thread'[d] = thread[d] /\ channel'[d] = channel[d] /\ produced'[d] = produced[d]
    BY Zenon, <1>1, <1>5 DEF FlowTypes
  <2>4. FlowTypes'
    <3>1. thread' \in [Queries -> Stations]
      BY Zenon, <1>1, <1>5 DEF FlowTypes, Stations
    <3>2. channel' \in [Queries -> Seq({"batch", "error"})]
      BY Zenon, <1>1, <1>5, <2>2 DEF FlowTypes
    <3>3. produced' \in [Queries -> Nat]
      BY <1>1, <1>5, <2>1 DEF FlowTypes
    <3> QED
      BY Zenon, <1>1, <1>2, <3>1, <3>2, <3>3 DEF FlowTypes
  <2>5. FlowOK(q)' /\ ScanOK(q)'
    BY Zenon, <1>1, <1>2, <1>3, <2>2, <2>3 DEF FlowOK, ScanOK, WayOut
  <2> QED
    BY ZenonT(30), <1>2, <2>3, <2>4, <2>5, OtherQueries
<1> QED
  BY Zenon, <1>4, <1>5 DEF Send, Executes, Moves

\* The thread reports an error, if there was one, and ends.
LEMMA ReportKeeps == ASSUME FlowInv, NEW q \in Queries, Report(q) PROVE FlowInv'
<1>1. FlowTypes /\ FlowOK(q) /\ ScanOK(q)
  BY Zenon DEF FlowInv
<1>2. /\ thread[q] = "report" /\ thread' = [thread EXCEPT ![q] = "done"] /\ UNCHANGED <<scan, consumer, got>>
      /\ fine' = [fine EXCEPT ![q] = TRUE] /\ produced' = [produced EXCEPT ![q] = 0]
  BY Zenon DEF Report, Moves
<1>3. scan[q] = "idle"
  BY Zenon, <1>1, <1>2 DEF ScanOK
<1>4. /\ channel[q] \in Seq({"batch", "error"}) /\ produced[q] \in Nat /\ got[q] \in Nat /\ fine[q] \in BOOLEAN
      /\ schema[q] \in {"none", "ok", "error"}
  BY Zenon, <1>1 DEF FlowTypes
<1>5. /\ thread'[q] = "done" /\ fine'[q] = TRUE /\ produced'[q] = 0
      /\ \A d \in Queries : d # q => thread'[d] = thread[d] /\ fine'[d] = fine[d] /\ produced'[d] = produced[d]
      /\ thread' \in [Queries -> Stations] /\ fine' \in [Queries -> BOOLEAN] /\ produced' \in [Queries -> Nat]
  BY Zenon, <1>1, <1>2 DEF FlowTypes, Stations
<1>6. Append(channel[q], "error") \in Seq({"batch", "error"}) /\ EndsInError(Append(channel[q], "error"))
  BY Zenon, <1>4, OneMoreBatch
<1>7. /\ schema' \in [Queries -> {"none", "ok", "error"}] /\ channel' \in [Queries -> Seq({"batch", "error"})]
      /\ \A d \in Queries : d # q => schema'[d] = schema[d] /\ channel'[d] = channel[d]
      /\ \/ fine[q] /\ schema'[q] = schema[q] /\ channel'[q] = channel[q]
         \/ Gone(q) /\ schema'[q] = schema[q] /\ channel'[q] = channel[q]
         \/ ~fine[q] /\ schema[q] = "none" /\ schema'[q] = "error" /\ channel'[q] = channel[q]
         \/ ~fine[q] /\ schema'[q] = "ok" /\ schema[q] = "ok" /\ channel'[q] = Append(channel[q], "error")
  <2>1. schema \in [Queries -> {"none", "ok", "error"}] /\ channel \in [Queries -> Seq({"batch", "error"})]
    BY Zenon, <1>1 DEF FlowTypes
  <2>2. CASE (fine[q] \/ Gone(q)) /\ UNCHANGED <<schema, channel>>
    BY Zenon, <2>1, <2>2
  <2>3. CASE ~fine[q] /\ schema[q] = "none" /\ schema' = [schema EXCEPT ![q] = "error"] /\ UNCHANGED channel
    BY Zenon, <2>1, <2>3
  <2>4. CASE ~fine[q] /\ schema[q] = "ok" /\ channel' = [channel EXCEPT ![q] = Append(@, "error")] /\ UNCHANGED schema
    BY Zenon, <1>6, <2>1, <2>4
  <2> QED
    BY Zenon, <2>2, <2>3, <2>4 DEF Report
<1>8. FlowTypes'
  BY Zenon, <1>1, <1>2, <1>5, <1>7 DEF FlowTypes
<1>9. ScanOK(q)'
  BY Zenon, <1>2, <1>3 DEF ScanOK
<1>10. ASSUME consumer[q] \in {"opening", "reading"}
       PROVE  /\ consumer[q] = "reading" => schema'[q] = "ok"
              /\ schema'[q] = "ok" => EndsInError(channel'[q]) \/ Delivers(channel'[q], got[q], Batches)
  <2>1. /\ consumer[q] = "reading" => schema[q] = "ok"
        /\ Delivers(channel[q], got[q], produced[q]) /\ (fine[q] => produced[q] = Batches) /\ ~Gone(q)
    BY Zenon, <1>1, <1>2, <1>10 DEF FlowOK, WayOut, Gone
  <2> QED
    BY Zenon, <1>6, <1>7, <2>1
<1>11. FlowOK(q)'
  BY Zenon, <1>1, <1>2, <1>5, <1>10 DEF FlowOK, WayOut
<1> QED
  BY ZenonT(30), <1>2, <1>5, <1>7, <1>8, <1>9, <1>11, OtherQueries

\* The consumer opens, reads, ends or goes.
LEMMA ConsumerMoves ==
    ASSUME FlowInv, NEW q \in Queries, NEW to \in Consumers, NEW ch \in Seq({"batch", "error"}), NEW n \in Nat,
           UNCHANGED <<thread, fine, scan, schema, produced>>, consumer' = [consumer EXCEPT ![q] = to],
           channel' = [channel EXCEPT ![q] = ch], got' = [got EXCEPT ![q] = n],
           \/ to \in {"failed", "gone"}
           \/ to = "ended" /\ n = Batches
           \/ /\ to \in {"opening", "reading"} /\ (to = "reading" => schema[q] = "ok")
              /\ thread[q] # "done" => Delivers(ch, n, produced[q])
              /\ thread[q] \in WayOut /\ fine[q] => produced[q] = Batches
              /\ thread[q] = "done" /\ schema[q] = "ok" => EndsInError(ch) \/ Delivers(ch, n, Batches)
    PROVE  FlowInv'
<1>1. FlowTypes /\ FlowOK(q) /\ ScanOK(q)
  BY Zenon DEF FlowInv
<1>2. /\ consumer'[q] = to /\ channel'[q] = ch /\ got'[q] = n
      /\ \A d \in Queries : d # q => consumer'[d] = consumer[d] /\ channel'[d] = channel[d] /\ got'[d] = got[d]
      /\ consumer' \in [Queries -> Consumers] /\ channel' \in [Queries -> Seq({"batch", "error"})]
      /\ got' \in [Queries -> Nat]
  BY Zenon, <1>1 DEF FlowTypes
<1>3. FlowTypes'
  BY Zenon, <1>1, <1>2 DEF FlowTypes
<1>4. FlowOK(q)' /\ ScanOK(q)'
  BY Zenon, <1>1, <1>2 DEF FlowOK, ScanOK
<1> QED
  BY Zenon, <1>2, <1>3, <1>4, OtherQueries

\* The steps of the consumer.
LEMMA ConsumerKeeps ==
    ASSUME FlowInv, NEW q \in Queries,
           Opened(q) \/ Read(q) \/ ReadEnd(q) \/ LeaveStream(q) \/ \E who \in {"consumer", "deadline"} : CancelInterrupt(q, who)
    PROVE  FlowInv'
<1>1. FlowTypes /\ FlowOK(q) /\ ScanOK(q)
  BY Zenon DEF FlowInv
<1>2. /\ consumer[q] \in Consumers /\ channel[q] \in Seq({"batch", "error"}) /\ got[q] \in Nat /\ produced[q] \in Nat
      /\ <<>> \in Seq({"batch", "error"}) /\ thread[q] \in Stations
      /\ consumer = [consumer EXCEPT ![q] = consumer[q]] /\ channel = [channel EXCEPT ![q] = channel[q]]
      /\ got = [got EXCEPT ![q] = got[q]]
  BY SMTT(30), <1>1 DEF FlowTypes
<1>3. CASE Opened(q)
  <2>1. UNCHANGED <<thread, fine, scan, schema, produced, channel, got>> /\ consumer[q] = "opening"
    BY Zenon, <1>3 DEF Opened, threads
  <2>2. \/ schema[q] = "ok" /\ consumer' = [consumer EXCEPT ![q] = "reading"]
        \/ consumer' = [consumer EXCEPT ![q] = "failed"]
    BY Zenon, <1>3 DEF Opened
  <2> QED
    BY SMTT(30), <1>1, <1>2, <2>1, <2>2, ConsumerMoves DEF FlowOK, Consumers
<1>4. CASE Read(q)
  <2> DEFINE hd == Head(channel[q])
             to == IF hd = "batch" THEN "reading" ELSE "failed"
             n == got[q] + (IF hd = "batch" THEN 1 ELSE 0)
  <2>1. /\ UNCHANGED <<thread, fine, scan, schema, produced>> /\ consumer[q] = "reading" /\ channel[q] # <<>>
        /\ channel' = [channel EXCEPT ![q] = Tail(channel[q])] /\ got' = [got EXCEPT ![q] = n]
        /\ consumer' = [consumer EXCEPT ![q] = to]
    BY Zenon, <1>4 DEF Read, threads
  <2>2. /\ Tail(channel[q]) \in Seq({"batch", "error"})
        /\ \A m \in Nat : Delivers(channel[q], got[q], m) => Delivers(Tail(channel[q]), got[q] + 1, m)
        /\ EndsInError(channel[q]) /\ hd = "batch" => EndsInError(Tail(channel[q]))
    BY ZenonT(30), <1>2, <2>1, OneLess
  <2>3. n \in Nat /\ (to = "reading" => n = got[q] + 1) /\ to \in {"reading", "failed"} /\ (to = "reading" => hd = "batch")
    BY <1>2
  <2> HIDE DEF n, to, hd
  <2>4. Batches \in Nat
    BY Zenon, QueriesAssumption
  <2>5. CASE to = "failed"
    BY ZenonT(30), <2>1, <2>2, <2>3, <2>5, ConsumerMoves DEF Consumers
  <2>6. CASE to = "reading"
    <3>1. /\ schema[q] = "ok" /\ (thread[q] # "done" => Delivers(channel[q], got[q], produced[q]))
          /\ (thread[q] \in WayOut /\ fine[q] => produced[q] = Batches)
          /\ (thread[q] = "done" => EndsInError(channel[q]) \/ Delivers(channel[q], got[q], Batches))
      BY Zenon, <1>1, <2>1 DEF FlowOK
    <3>2. /\ thread[q] # "done" => Delivers(Tail(channel[q]), n, produced[q])
          /\ thread[q] = "done" => EndsInError(Tail(channel[q])) \/ Delivers(Tail(channel[q]), n, Batches)
      BY ZenonT(30), <1>2, <2>2, <2>3, <2>4, <2>6, <3>1
    <3> QED
      BY ZenonT(30), <2>1, <2>2, <2>3, <2>6, <3>1, <3>2, ConsumerMoves DEF Consumers
  <2> QED
    BY Zenon, <2>3, <2>5, <2>6
<1>5. CASE ReadEnd(q)
  <2>1. /\ UNCHANGED <<thread, fine, scan, schema, produced, channel, got>> /\ consumer[q] = "reading"
        /\ channel[q] = <<>> /\ thread[q] = "done" /\ consumer' = [consumer EXCEPT ![q] = "ended"]
    BY Zenon, <1>5 DEF ReadEnd, threads
  <2>2. Delivers(channel[q], got[q], Batches)
    BY Zenon, <1>1, <2>1 DEF FlowOK, EndsInError
  <2>3. got[q] = Batches
    BY SMTT(30), <1>2, <2>1, <2>2, QueriesAssumption DEF Delivers
  <2>4. channel' = [channel EXCEPT ![q] = channel[q]] /\ got' = [got EXCEPT ![q] = got[q]] /\ "ended" \in Consumers
    BY Zenon, <1>2, <2>1 DEF Consumers
  <2>5. channel[q] \in Seq({"batch", "error"}) /\ got[q] \in Nat
    BY Zenon, <1>2
  <2> QED
    BY ZenonT(30), <2>1, <2>3, <2>4, <2>5, ConsumerMoves
<1>6. CASE (consumer' = [consumer EXCEPT ![q] = "gone"] /\ channel' = [channel EXCEPT ![q] = <<>>]
              /\ got' = [got EXCEPT ![q] = 0]) /\ UNCHANGED <<thread, fine, scan, schema, produced>>
  BY Zenon, <1>2, <1>6, ConsumerMoves DEF Consumers
<1>7. CASE UNCHANGED <<thread, fine, scan, schema, produced, channel, got, consumer>>
  BY Zenon, <1>1, <1>7, OtherQueries DEF FlowTypes, FlowOK, ScanOK
<1>8. CASE LeaveStream(q)
  BY Zenon, <1>6, <1>7, <1>8 DEF LeaveStream, Leaves, threads
<1>9. CASE \E who \in {"consumer", "deadline"} : CancelInterrupt(q, who)
  BY Zenon, <1>6, <1>7, <1>9 DEF CancelInterrupt, Leaves
<1> QED
  BY ZenonT(30), <1>3, <1>4, <1>5, <1>8, <1>9

\* Every step keeps the flow.
LEMMA FlowStep == FlowInv /\ [SessionNext]_sessionVars => FlowInv'
<1> SUFFICES ASSUME FlowInv, [SessionNext]_sessionVars PROVE FlowInv'
  BY Zenon
<1>1. CASE UNCHANGED <<thread, fine, scan, schema, produced, channel, got, consumer>>
  BY Zenon, <1>1 DEF FlowInv, FlowTypes, FlowOK, ScanOK
<1>2. CASE UNCHANGED sessionVars
  BY Zenon, <1>1, <1>2 DEF sessionVars
<1>3. CASE Rest
  BY Zenon, <1>1, <1>3 DEF Rest, sessionVars
<1>4. ASSUME NEW q \in Queries, WorkerStep(q) \/ QueryFails(q) \/ ScanReads(q) PROVE FlowInv'
  BY Zenon, <1>4, WorkerStepKeeps, PublishKeeps, SendKeeps, ReportKeeps DEF WorkerStep
<1>5. ASSUME NEW q \in Queries, DeadlineFires(q) PROVE FlowInv'
  BY Zenon, <1>1, <1>5 DEF DeadlineFires, threads, flow
<1>6. ASSUME NEW q \in Queries, Opened(q) \/ Read(q) \/ ReadEnd(q) \/ LeaveStream(q) PROVE FlowInv'
  BY Zenon, <1>6, ConsumerKeeps
<1>7. ASSUME NEW q \in Queries, NEW who \in {"consumer", "deadline"}, CancelStep(q, who) PROVE FlowInv'
  <2>1. CASE CancelInterrupt(q, who)
    BY Zenon, <2>1, ConsumerKeeps
  <2>2. CASE CancelFlag(q, who) \/ CancelNotify(q, who)
    BY Zenon, <1>1, <2>2 DEF CancelFlag, CancelNotify, threads, flow
  <2> QED
    BY Zenon, <1>7, <2>1, <2>2 DEF CancelStep
<1> QED
  BY ZenonT(30), <1>2, <1>3, <1>4, <1>5, <1>6, <1>7 DEF SessionNext

\* For any queries, batches and size of the channel, and whenever consumers
\* leave, inputs are silent and deadlines fire: a stream that ends has
\* delivered the whole result.
THEOREM StreamsEndComplete == SessionSpec => []EndIsComplete
<1>1. FlowInv => EndIsComplete
  BY ZenonT(30) DEF FlowInv, FlowOK, EndIsComplete
<1> QED
  BY <1>1, FlowStart, FlowStep, PTL DEF SessionSpec

-----------------------------------------------------------------------------
(* An interrupt reaches the query it was meant for. *)

Stages == {"no", "armed", "flag", "notify", "interrupt", "done"}
\* The query that still has its handle owns the session, and a call of cancel
\* raises the flag before it does anything else.
SignalInv ==
    /\ owner \in Queries \cup {NoQuery} /\ handle \in [Queries -> BOOLEAN] /\ cancelFlag \in [Queries -> BOOLEAN]
    /\ canceller \in [Queries -> [{"consumer", "deadline"} -> Stages]]
    /\ \A q \in Queries : handle[q] => owner = q
    /\ \A q \in Queries, who \in {"consumer", "deadline"} :
          canceller[q][who] \in {"notify", "interrupt", "done"} => cancelFlag[q]

\* At the start no interrupt is under way.
LEMMA SignalStart == SessionInit => SignalInv
  BY QueriesAssumption DEF SessionInit, SignalInv, Stages

\* A call of cancel goes one stage further.
LEMMA StageMoves ==
    ASSUME SignalInv, NEW q \in Queries, NEW who \in {"consumer", "deadline"}, NEW s \in Stages,
           canceller' = [canceller EXCEPT ![q][who] = s], UNCHANGED <<owner, handle>>,
           cancelFlag' \in [Queries -> BOOLEAN], \A d \in Queries : cancelFlag[d] => cancelFlag'[d],
           s \in {"notify", "interrupt", "done"} => cancelFlag'[q]
    PROVE  SignalInv'
<1>1. canceller \in [Queries -> [{"consumer", "deadline"} -> Stages]]
  BY Zenon DEF SignalInv
<1>2. /\ canceller' \in [Queries -> [{"consumer", "deadline"} -> Stages]]
      /\ \A d \in Queries, w \in {"consumer", "deadline"} :
            canceller'[d][w] = IF d = q /\ w = who THEN s ELSE canceller[d][w]
  BY Zenon, <1>1
<1>3. ASSUME NEW d \in Queries, NEW w \in {"consumer", "deadline"},
             canceller'[d][w] \in {"notify", "interrupt", "done"}
      PROVE  cancelFlag'[d]
  <2>1. CASE d = q /\ w = who
    BY Zenon, <1>2, <1>3, <2>1
  <2>2. CASE ~(d = q /\ w = who)
    BY ZenonT(30), <1>2, <1>3, <2>2 DEF SignalInv
  <2> QED
    BY Zenon, <2>1, <2>2
<1> QED
  BY Zenon, <1>2, <1>3 DEF SignalInv

\* Every step keeps what is known of the interrupts.
LEMMA SignalStep == SignalInv /\ [SessionNext]_sessionVars => SignalInv'
<1> SUFFICES ASSUME SignalInv, [SessionNext]_sessionVars PROVE SignalInv'
  BY Zenon
<1> DEFINE Who == {"consumer", "deadline"}
<1>0. /\ owner \in Queries \cup {NoQuery} /\ handle \in [Queries -> BOOLEAN] /\ cancelFlag \in [Queries -> BOOLEAN]
      /\ canceller \in [Queries -> [Who -> Stages]] /\ \A q \in Queries : handle[q] => owner = q
      /\ \A q \in Queries, who \in Who : canceller[q][who] \in {"notify", "interrupt", "done"} => cancelFlag[q]
  BY Zenon DEF SignalInv
<1>1. CASE UNCHANGED <<owner, handle, cancelFlag, canceller>>
  BY Zenon, <1>1 DEF SignalInv
<1>2. CASE UNCHANGED sessionVars
  BY Zenon, <1>1, <1>2 DEF sessionVars
<1>3. CASE Rest
  BY Zenon, <1>1, <1>3 DEF Rest, sessionVars
<1>4. ASSUME NEW q \in Queries, LockExecutor(q) PROVE SignalInv'
  <2>1. owner = NoQuery /\ owner' = q /\ handle' = [handle EXCEPT ![q] = TRUE] /\ UNCHANGED <<cancelFlag, canceller>>
    BY Zenon, <1>4 DEF LockExecutor
  <2>2. \A d \in Queries : ~handle[d]
    BY Zenon, <1>0, <2>1, QueriesAssumption
  <2>3. handle' \in [Queries -> BOOLEAN] /\ \A d \in Queries : handle'[d] => d = q
    BY ZenonT(30), <1>0, <2>1, <2>2
  <2> QED
    BY Zenon, <1>0, <2>1, <2>3 DEF SignalInv
<1>5. ASSUME NEW q \in Queries, Unarm(q) PROVE SignalInv'
  <2> DEFINE s == IF canceller[q]["deadline"] = "armed" THEN "no" ELSE canceller[q]["deadline"]
  <2>1. /\ canceller' = [canceller EXCEPT ![q]["deadline"] = s] /\ UNCHANGED <<owner, cancelFlag>>
        /\ handle' = [handle EXCEPT ![q] = FALSE]
    BY Zenon, <1>0, <1>5 DEF Unarm
  <2>2. /\ canceller' \in [Queries -> [Who -> Stages]]
        /\ \A d \in Queries, w \in Who : canceller'[d][w] \in {canceller[d][w], "no"}
    BY ZenonT(30), <1>0, <2>1 DEF Stages
  <2>3. handle' \in [Queries -> BOOLEAN] /\ \A d \in Queries : handle'[d] => handle[d]
    BY Zenon, <1>0, <2>1
  <2> QED
    BY SMTT(30), <1>0, <2>1, <2>2, <2>3 DEF SignalInv
<1>6. ASSUME NEW q \in Queries, Unlock(q) PROVE SignalInv'
  <2>1. /\ owner' = (IF owner = q THEN NoQuery ELSE owner) /\ handle' = [handle EXCEPT ![q] = FALSE]
        /\ UNCHANGED <<cancelFlag, canceller>>
    BY Zenon, <1>6 DEF Unlock
  <2>2. handle' \in [Queries -> BOOLEAN] /\ ~handle'[q] /\ \A d \in Queries : handle'[d] => handle[d]
    BY Zenon, <1>0, <2>1
  <2> QED
    BY ZenonT(30), <1>0, <2>1, <2>2 DEF SignalInv
<1>7. ASSUME NEW q \in Queries, Check(q) PROVE SignalInv'
  <2>1. CASE UNCHANGED canceller
    BY Zenon, <1>1, <1>7, <2>1 DEF Check
  <2>2. CASE canceller' = [canceller EXCEPT ![q].deadline = IF q \in Deadlines THEN "armed" ELSE @]
    <3> DEFINE s == IF q \in Deadlines THEN "armed" ELSE canceller[q]["deadline"]
    <3>1. canceller' = [canceller EXCEPT ![q]["deadline"] = s] /\ UNCHANGED <<owner, handle, cancelFlag>>
      BY Zenon, <1>0, <1>7, <2>2 DEF Check
    <3>2. s \in Stages /\ (s \in {"notify", "interrupt", "done"} => cancelFlag[q])
      BY Zenon, <1>0 DEF Stages
    <3> HIDE DEF s
    <3> QED
      BY ZenonT(30), <1>0, <3>1, <3>2, StageMoves
  <2> QED
    BY Zenon, <1>7, <2>1, <2>2 DEF Check
<1>8. ASSUME NEW q \in Queries, NEW who \in Who, Calls(q, who), UNCHANGED <<owner, handle, cancelFlag>> PROVE SignalInv'
  BY Zenon, <1>0, <1>8, StageMoves DEF Calls, Stages
<1>9. ASSUME NEW q \in Queries, Opened(q) \/ LeaveStream(q) \/ DeadlineFires(q) PROVE SignalInv'
  <2>1. UNCHANGED <<owner, handle, cancelFlag>>
    BY Zenon, <1>9 DEF Opened, LeaveStream, DeadlineFires, threads
  <2> QED
    BY ZenonT(30), <1>1, <1>8, <1>9, <2>1 DEF Opened, LeaveStream, DeadlineFires
<1>10. ASSUME NEW q \in Queries, NEW who \in Who, CancelStep(q, who) PROVE SignalInv'
  <2>1. CASE CancelFlag(q, who)
    <3>1. /\ canceller' = [canceller EXCEPT ![q][who] = "notify"] /\ cancelFlag' = [cancelFlag EXCEPT ![q] = TRUE]
          /\ UNCHANGED <<owner, handle>>
      BY Zenon, <2>1 DEF CancelFlag, threads
    <3>2. cancelFlag' \in [Queries -> BOOLEAN] /\ cancelFlag'[q] /\ \A d \in Queries : cancelFlag[d] => cancelFlag'[d]
      BY Zenon, <1>0, <3>1
    <3> QED
      BY Zenon, <3>1, <3>2, StageMoves DEF Stages
  <2>2. CASE CancelNotify(q, who) \/ CancelInterrupt(q, who)
    <3>1. PICK s \in {"interrupt", "done"} : canceller' = [canceller EXCEPT ![q][who] = s]
      BY Zenon, <2>2 DEF CancelNotify, CancelInterrupt
    <3>2. UNCHANGED <<owner, handle, cancelFlag>> /\ canceller[q][who] \in {"notify", "interrupt"}
      BY Zenon, <2>2 DEF CancelNotify, CancelInterrupt, threads
    <3> QED
      BY Zenon, <1>0, <3>1, <3>2, StageMoves DEF Stages
  <2> QED
    BY Zenon, <1>10, <2>1, <2>2 DEF CancelStep
<1>11. ASSUME NEW q \in Queries, Read(q) \/ ReadEnd(q) \/ QueryFails(q) \/ ScanReads(q) PROVE SignalInv'
  BY Zenon, <1>1, <1>11 DEF Read, ReadEnd, QueryFails, ScanReads, signals, threads
<1>12. ASSUME NEW q \in Queries,
              \/ SetUp(q) \/ CreateView(q) \/ PublishSchema(q) \/ NextBatch(q) \/ EndOfRows(q) \/ ScanRegister(q)
              \/ ScanLook(q) \/ ScanWoken(q) \/ Send(q) \/ DropView(q) \/ Clear(q) \/ Report(q)
       PROVE  SignalInv'
  <2>1. UNCHANGED <<owner, handle, cancelFlag, canceller>>
    BY Zenon, <1>12 DEF SetUp, CreateView, PublishSchema, NextBatch, EndOfRows, ScanRegister, ScanLook, ScanWoken, Send, DropView,
                 Clear, Report, signals
  <2> QED
    BY Zenon, <1>1, <2>1
<1> QED
  BY ZenonT(30), <1>2, <1>3, <1>4, <1>5, <1>6, <1>7, <1>9, <1>10, <1>11, <1>12 DEF SessionNext, WorkerStep

\* For any number of queries: whoever cancels and whenever a deadline fires, the
\* connection is interrupted for its owner, which was cancelled.
THEOREM InterruptsReachTheirQuery == SessionSpec => OnlyCancelledAreInterrupted
<1>1. SignalInv /\ [SessionNext]_sessionVars =>
        [statement # "interrupted" /\ statement' = "interrupted" => owner \in Queries /\ cancelFlag[owner]]_sessionVars
  <2> SUFFICES ASSUME SignalInv, SessionNext, statement # "interrupted", statement' = "interrupted"
               PROVE  owner \in Queries /\ cancelFlag[owner]
    BY Zenon
  <2>1. ASSUME NEW q \in Queries, WorkerStep(q) \/ QueryFails(q) \/ ScanReads(q) PROVE FALSE
    BY Zenon, <2>1 DEF WorkerStep, QueryFails, ScanReads, LockExecutor, SetUp, Check, CreateView, PublishSchema, NextBatch, EndOfRows,
                ScanRegister, ScanLook, ScanWoken, ScanFails, Send, DropView, Clear, Unarm, Unlock, Report, Executes, Moves
  <2>2. ASSUME NEW q \in Queries, DeadlineFires(q) \/ Opened(q) \/ Read(q) \/ ReadEnd(q) \/ LeaveStream(q) PROVE FALSE
    BY Zenon, <2>2 DEF DeadlineFires, Opened, Read, ReadEnd, LeaveStream, threads
  <2>3. ASSUME Rest PROVE FALSE
    BY Zenon, <2>3 DEF Rest, sessionVars
  <2>4. ASSUME NEW q \in Queries, NEW who \in {"consumer", "deadline"}, CancelStep(q, who)
        PROVE  owner \in Queries /\ cancelFlag[owner]
    <3>1. CancelInterrupt(q, who)
      BY Zenon, <2>4 DEF CancelStep, CancelFlag, CancelNotify, threads
    <3>2. handle[q] /\ canceller[q][who] = "interrupt"
      BY Zenon, <3>1 DEF CancelInterrupt
    <3> QED
      BY Zenon, <3>2 DEF SignalInv
  <2> QED
    BY ZenonT(30), <2>1, <2>2, <2>3, <2>4 DEF SessionNext
<1> QED
  BY <1>1, SignalStart, SignalStep, PTL DEF SessionSpec, OnlyCancelledAreInterrupted

=============================================================================
