---------------------------- MODULE StreamProofs ----------------------------
(***************************************************************************)
(* Proofs about StreamQuery, for any partitions, entities, log and limits, *)
(* and about StreamWire, for any callers and bounds.                       *)
(***************************************************************************)
EXTENDS StreamQuery, StreamWire, FiniteSetTheorems, TLAPS

-----------------------------------------------------------------------------
(* The smallest and the largest member of a set of numbers. *)

\* A set of natural numbers that is not empty has a smallest member (the last
\* section shows it).
WellOrdered == \A T \in SUBSET Nat : T # {} => \E x \in T : \A y \in T : x <= y

\* One that is bounded has a largest.
LEMMA Largest ==
    ASSUME WellOrdered, NEW T, NEW n \in Nat, T \subseteq 0..n, T # {}
    PROVE  \E x \in T : \A y \in T : y <= x
<1> DEFINE D == {n - y : y \in T}
<1>1. D \subseteq Nat /\ D # {}
  <2>1. \A y \in T : n - y \in Nat
    OBVIOUS
  <2> QED
    BY Zenon, <2>1
<1>2. PICK d \in D : \A e \in D : d <= e
  BY Zenon, <1>1 DEF WellOrdered
<1>3. PICK x \in T : d = n - x
  BY Zenon
<1>4. \A y \in T : n - x <= n - y
  BY Zenon, <1>2, <1>3
<1> QED
  BY <1>4

-----------------------------------------------------------------------------
(* The log *)

\* What is marked was written; a record that compaction removed has a later one
\* of its entity that compaction has kept.
LogOK ==
    /\ log \in [Partitions -> Seq(Changes)] /\ low \in Offsets
    /\ \A p \in Partitions : \A o \in Nat :
          <<p, o>> \in aborted \/ <<p, o>> \in compacted => o < Len(log[p])
    /\ \A p \in Partitions : \A o \in Committed(p) :
          <<p, o>> \in compacted =>
              \E l \in Committed(p) :
                  /\ o < l /\ ChangeAt(p, l).key = ChangeAt(p, o).key
                  /\ <<p, l>> \notin compacted

\* What a step of the log leaves of the offsets written before it.
Grows ==
    \A p \in Partitions :
        /\ Len(log[p]) <= Len(log'[p])
        /\ \A o \in 0..(Len(log[p]) - 1) : ChangeAt(p, o)' = ChangeAt(p, o)
        /\ \A o \in 0..(Len(log[p]) - 1) : o \in Committed(p)' <=> o \in Committed(p)
        /\ \A o \in Nat : <<p, o>> \in compacted => <<p, o>> \in compacted'

\* Offsets and lengths are numbers, committed changes are changes.
LEMMA LogFacts ==
    ASSUME LogOK, NEW p \in Partitions
    PROVE  /\ Len(log[p]) \in Nat /\ low[p] \in Nat
           /\ Committed(p) \subseteq 0..(Len(log[p]) - 1)
           /\ Readable(p) \subseteq Committed(p)
           /\ \A o \in 0..(Len(log[p]) - 1) : o \in Nat /\ ChangeAt(p, o) \in Changes
<1>1. log[p] \in Seq(Changes) /\ low[p] \in Nat
  BY Zenon DEF LogOK, Offsets
<1>2. \A o \in 0..(Len(log[p]) - 1) : o \in Nat /\ o + 1 \in 1..Len(log[p])
  BY <1>1
<1> QED
  BY <1>1, <1>2 DEF Committed, Readable, ChangeAt

\* A producer appends a change, of a transaction that commits or not.
LEMMA AppendGrows ==
    ASSUME LogOK, NEW p \in Partitions, NEW c \in Changes, log' = [log EXCEPT ![p] = Append(@, c)],
           aborted' = aborted \/ aborted' = aborted \cup {<<p, Len(log[p])>>},
           UNCHANGED <<low, compacted>>
    PROVE  LogOK' /\ Grows
<1>1. \A s \in Partitions : log[s] \in Seq(Changes) /\ Len(log[s]) \in Nat
  BY DEF LogOK
<1>2. log' \in [Partitions -> Seq(Changes)]
  BY <1>1 DEF LogOK
<1>3. \A s \in Partitions : /\ Len(log'[s]) = IF s = p THEN Len(log[s]) + 1 ELSE Len(log[s])
                            /\ \A i \in 1..Len(log[s]) : log'[s][i] = log[s][i]
  BY <1>1 DEF LogOK
<1>4. \A s \in Partitions : /\ Len(log'[s]) \in Nat /\ Len(log[s]) <= Len(log'[s])
                            /\ \A o \in 0..(Len(log[s]) - 1) : o \in 0..(Len(log'[s]) - 1)
  BY <1>1, <1>3
<1>5. \A s \in Partitions : \A o \in 0..(Len(log[s]) - 1) : ChangeAt(s, o)' = ChangeAt(s, o)
  <2> TAKE s \in Partitions
  <2> TAKE o \in 0..(Len(log[s]) - 1)
  <2>1. o + 1 \in 1..Len(log[s])
    BY <1>1
  <2> QED
    BY Zenon, <1>3, <2>1 DEF ChangeAt
<1>6. \A s \in Partitions : \A o \in 0..(Len(log[s]) - 1) : <<s, o>> \in aborted' <=> <<s, o>> \in aborted
  <2> TAKE s \in Partitions
  <2> TAKE o \in 0..(Len(log[s]) - 1)
  <2>1. o \in Nat /\ Len(log[s]) \in Nat /\ o < Len(log[s])
    BY <1>1
  <2>2. <<s, o>> # <<p, Len(log[p])>>
    BY <2>1
  <2> QED
    BY Zenon, <2>2
<1>7. \A s \in Partitions : \A o \in 0..(Len(log[s]) - 1) : o \in Committed(s)' <=> o \in Committed(s)
  BY Zenon, <1>4, <1>6 DEF Committed
<1>8. Grows
  BY Zenon, <1>4, <1>5, <1>7 DEF Grows
<1>9. \A s \in Partitions : \A o \in Nat :
         <<s, o>> \in aborted' \/ <<s, o>> \in compacted' => o < Len(log'[s])
  <2> TAKE s \in Partitions
  <2> TAKE o \in Nat
  <2>1. <<s, o>> \in aborted \/ <<s, o>> \in compacted => o < Len(log[s])
    BY Zenon DEF LogOK
  <2>2. <<s, o>> = <<p, Len(log[p])>> => s = p /\ o = Len(log[p])
    BY Zenon
  <2> QED
    BY <1>1, <1>3, <2>1, <2>2
<1>10. \A s \in Partitions : \A o \in Committed(s)' : <<s, o>> \in compacted =>
          o \in Committed(s) /\ o \in 0..(Len(log[s]) - 1)
  <2> TAKE s \in Partitions
  <2> SUFFICES ASSUME NEW o \in Committed(s)', <<s, o>> \in compacted
               PROVE  o \in Committed(s) /\ o \in 0..(Len(log[s]) - 1)
    BY Zenon
  <2>1. o \in Nat
    BY <1>4 DEF Committed
  <2>2. o < Len(log[s])
    BY Zenon, <2>1 DEF LogOK
  <2> QED
    BY <1>1, <1>7, <2>1, <2>2
<1>11. \A s \in Partitions : \A o \in Committed(s)' :
          <<s, o>> \in compacted' =>
              \E l \in Committed(s)' : /\ o < l /\ ChangeAt(s, l)'.key = ChangeAt(s, o)'.key
                                       /\ <<s, l>> \notin compacted'
  <2> TAKE s \in Partitions
  <2> SUFFICES ASSUME NEW o \in Committed(s)', <<s, o>> \in compacted
               PROVE  \E l \in Committed(s)' : /\ o < l /\ ChangeAt(s, l)'.key = ChangeAt(s, o)'.key
                                               /\ <<s, l>> \notin compacted
    BY Zenon
  <2>1. o \in Committed(s) /\ o \in 0..(Len(log[s]) - 1)
    BY Zenon, <1>10
  <2>2. PICK l \in Committed(s) : o < l /\ ChangeAt(s, l).key = ChangeAt(s, o).key /\ <<s, l>> \notin compacted
    BY Zenon, <2>1 DEF LogOK
  <2>3. l \in 0..(Len(log[s]) - 1)
    BY Zenon DEF Committed
  <2> QED
    BY Zenon, <1>5, <1>7, <2>1, <2>2, <2>3
<1> QED
  BY Zenon, <1>2, <1>8, <1>9, <1>11 DEF LogOK

\* Every step of the log.
LEMMA LogGrows == ASSUME LogOK, Changes # {}, LogNext PROVE LogOK' /\ Grows
<1> PICK p \in Partitions : \/ \E c \in Changes : Produce(p, c)
                            \/ ProduceAborted(p, CHOOSE c \in Changes : TRUE)
                            \/ Compact(p) \/ Retain(p)
  BY Zenon DEF LogNext
<1>1. ASSUME NEW c \in Changes, Produce(p, c) PROVE LogOK' /\ Grows
  BY Zenon, <1>1, AppendGrows DEF Produce
<1>2. CASE ProduceAborted(p, CHOOSE c \in Changes : TRUE)
  <2>1. PICK c \in Changes : ProduceAborted(p, c)
    BY Zenon, <1>2
  <2> QED
    BY Zenon, <2>1, AppendGrows DEF ProduceAborted
<1>3. CASE Compact(p)
  <2>1. PICK o \in Readable(p) : \E later \in Readable(p) :
           /\ o < later /\ ChangeAt(p, o).key = ChangeAt(p, later).key
           /\ compacted' = compacted \cup {<<p, o>>} /\ UNCHANGED <<log, low, aborted>>
    BY Zenon, <1>3 DEF Compact
  <2>2. PICK later \in Readable(p) :
           /\ o < later /\ ChangeAt(p, o).key = ChangeAt(p, later).key
           /\ compacted' = compacted \cup {<<p, o>>} /\ UNCHANGED <<log, low, aborted>>
    BY Zenon, <2>1
  <2>3. \A s \in Partitions : Committed(s)' = Committed(s) /\ \A i : ChangeAt(s, i)' = ChangeAt(s, i)
    BY Zenon, <2>2 DEF Committed, ChangeAt
  <2>4. /\ o \in 0..(Len(log[p]) - 1) /\ o \in Nat /\ o < Len(log[p]) /\ later \in Nat
        /\ o \in Committed(p) /\ later \in Committed(p) /\ <<p, later>> \notin compacted'
    BY <2>2, LogFacts DEF Readable
  <2>5. \A s \in Partitions : \A i \in Nat :
           <<s, i>> \in aborted' \/ <<s, i>> \in compacted' => i < Len(log'[s])
    <3> TAKE s \in Partitions
    <3> TAKE i \in Nat
    <3>1. <<s, i>> \in aborted \/ <<s, i>> \in compacted => i < Len(log[s])
      BY Zenon DEF LogOK
    <3>2. <<s, i>> = <<p, o>> => s = p /\ i = o
      BY Zenon
    <3> QED
      BY Zenon, <2>2, <2>4, <3>1, <3>2
  <2>6. \A s \in Partitions : \A i \in Committed(s) :
           <<s, i>> \in compacted' =>
               \E l \in Committed(s) : /\ i < l /\ ChangeAt(s, l).key = ChangeAt(s, i).key
                                       /\ <<s, l>> \notin compacted'
    <3> TAKE s \in Partitions
    <3> SUFFICES ASSUME NEW i \in Committed(s), <<s, i>> \in compacted'
                 PROVE  \E l \in Committed(s) : /\ i < l /\ ChangeAt(s, l).key = ChangeAt(s, i).key
                                                /\ <<s, l>> \notin compacted'
      BY Zenon
    <3>1. CASE <<s, i>> = <<p, o>>
      BY Zenon, <2>2, <2>4, <3>1
    <3>2. CASE <<s, i>> # <<p, o>>
      <4>1. <<s, i>> \in compacted
        BY Zenon, <2>2, <3>2
      <4>2. PICK l \in Committed(s) : i < l /\ ChangeAt(s, l).key = ChangeAt(s, i).key /\ <<s, l>> \notin compacted
        BY Zenon, <4>1 DEF LogOK
      <4>3. CASE <<s, l>> = <<p, o>>
        <5>1. s = p /\ l = o
          BY Zenon, <4>3
        <5>2. i \in Nat /\ i < later
          BY <2>2, <2>4, <4>2, <5>1, LogFacts
        <5> QED
          BY Zenon, <2>2, <2>4, <4>2, <5>1, <5>2
      <4>4. CASE <<s, l>> # <<p, o>>
        BY Zenon, <2>2, <4>2, <4>4
      <4> QED
        BY Zenon, <4>3, <4>4
    <3> QED
      BY Zenon, <3>1, <3>2
  <2>9. \A s \in Partitions : \A i \in Committed(s)' :
           <<s, i>> \in compacted' =>
               \E l \in Committed(s)' : /\ i < l /\ ChangeAt(s, l)'.key = ChangeAt(s, i)'.key
                                        /\ <<s, l>> \notin compacted'
    BY Zenon, <2>3, <2>6
  <2>7. LogOK'
    BY Zenon, <2>2, <2>5, <2>9 DEF LogOK
  <2>8. Grows
    BY <2>2, <2>3, LogFacts DEF Grows
  <2> QED
    BY Zenon, <2>7, <2>8
<1>4. CASE Retain(p)
  <2>1. low' \in Offsets /\ UNCHANGED <<log, aborted, compacted>>
    BY <1>4 DEF Retain, LogOK, Offsets
  <2>2. \A s \in Partitions : Committed(s)' = Committed(s) /\ \A i : ChangeAt(s, i)' = ChangeAt(s, i)
    BY Zenon, <2>1 DEF Committed, ChangeAt
  <2>3. LogOK'
    BY Zenon, <2>1, <2>2 DEF LogOK
  <2>4. Grows
    BY <2>1, <2>2, LogFacts DEF Grows
  <2> QED
    BY Zenon, <2>3, <2>4
<1> QED
  BY Zenon, <1>1, <1>2, <1>3, <1>4

\* The offsets below a length the log has had are what they were.
LEMMA GrowFacts ==
    ASSUME LogOK, LogOK', Grows, NEW p \in Partitions
    PROVE  /\ \A n \in Nat : n <= Len(log[p]) =>
                 n <= Len(log'[p]) /\ \A o \in Committed(p)' : o < n => o \in Committed(p) /\ ChangeAt(p, o)' = ChangeAt(p, o)
           /\ \A o \in Committed(p) : o \in Committed(p)' /\ ChangeAt(p, o)' = ChangeAt(p, o)
           /\ \A o \in Nat : <<p, o>> \notin compacted' => <<p, o>> \notin compacted
           /\ Committed(p)' \subseteq Nat
<1>1. Len(log[p]) \in Nat /\ Len(log'[p]) \in Nat /\ Len(log[p]) <= Len(log'[p])
  BY DEF LogOK, Grows
<1>2. Committed(p) \subseteq 0..(Len(log[p]) - 1) /\ Committed(p)' \subseteq 0..(Len(log'[p]) - 1)
  BY Zenon DEF Committed
<1>3. \A o \in Nat : o < Len(log[p]) => o \in 0..(Len(log[p]) - 1)
  BY <1>1
<1>4. Committed(p) \subseteq Nat /\ Committed(p)' \subseteq Nat
  BY <1>1, <1>2
<1>5. ASSUME NEW n \in Nat, n <= Len(log[p]), NEW o \in Committed(p)', o < n
      PROVE  o \in Committed(p) /\ ChangeAt(p, o)' = ChangeAt(p, o)
  <2>1. o \in 0..(Len(log[p]) - 1)
    BY <1>1, <1>3, <1>4, <1>5
  <2> QED
    BY Zenon, <2>1 DEF Grows
<1> QED
  BY <1>1, <1>2, <1>4, <1>5 DEF Grows

-----------------------------------------------------------------------------
(* The query *)

StateSet == [Entities -> Changes \cup {None}]
Marks == [Partitions -> Nat \cup {None}]
Queries == [pc : {"idle", "bounds", "start", "read", "graph", "done", "failed"}, state : StateSet,
            positions : Offsets, low : Marks, high : Marks, records : Nat]
Reading == {"read", "graph", "done"}

\* The change is committed, before the offsets; the state has it or a newer one.
From(c, offsets) == \E p \in Partitions : \E o \in Committed(p) : o < offsets[p] /\ ChangeAt(p, o) = c
Covers(state, c) == state[c.key] # None /\ state[c.key].version >= c.version

\* The state holds committed changes before the offsets, and covers all of them.
Sound(state, offsets) == \A k \in Entities : state[k] # None => From(state[k], offsets)
Whole(state, offsets) ==
    \A p \in Partitions : \A o \in Committed(p) : o < offsets[p] => Covers(state, ChangeAt(p, o))
Materialized(state, offsets) ==
    /\ state \in StateSet /\ offsets \in Offsets
    /\ \A p \in Partitions : offsets[p] <= Len(log[p])
    /\ Sound(state, offsets) /\ Whole(state, offsets)

\* The state covers what a reader found up to the positions.
Partly(state, positions, high) ==
    \A p \in Partitions : \A o \in Committed(p) :
        o < high[p] /\ o < positions[p] /\ <<p, o>> \notin compacted => Covers(state, ChangeAt(p, o))

QueryTypes == q \in Queries /\ pos \in Offsets
\* What the local variables r of a query and the position of its reader satisfy.
Stage(r, at) ==
    /\ \A p \in Partitions : r.high[p] # None => r.high[p] <= Len(log[p]) /\ r.low[p] # None
    /\ r.pc \in {"bounds", "start"} => Materialized(r.state, r.positions)
    /\ r.pc \in {"start"} \cup Reading => \A p \in Partitions : r.high[p] # None
    /\ r.pc \in Reading => Sound(r.state, r.high) /\ Partly(r.state, r.positions, r.high)
    /\ r.pc = "read" => \A p \in Partitions : at[p] <= r.positions[p]
    /\ r.pc \in {"graph", "done"} => Complete(r)
QueryOK == Stage(q, pos)

IInv == LogOK /\ Materialized(snapshot.changes, snapshot.offsets) /\ QueryTypes /\ QueryOK

\* The changes a materializer has read.
LEMMA BeforeFacts == \A offsets : \A c : c \in Before(offsets) <=> From(c, offsets)
<1> TAKE offsets
<1> TAKE c
<1> DEFINE Pairs(p) == {p} \X {o \in Committed(p) : o < offsets[p]}
           All == UNION {Pairs(p) : p \in Partitions}
<1>1. \A p \in Partitions : \A o \in Committed(p) : o < offsets[p] => <<p, o>> \in All
  <2> TAKE p \in Partitions
  <2> TAKE o \in Committed(p)
  <2>1. o < offsets[p] => <<p, o>> \in Pairs(p)
    BY Zenon
  <2> QED
    BY Zenon, <2>1
<1>2. ASSUME NEW x \in All PROVE \E p \in Partitions : \E o \in Committed(p) : o < offsets[p] /\ x[1] = p /\ x[2] = o
  <2>1. PICK p \in Partitions : x \in Pairs(p)
    BY Zenon, <1>2
  <2> QED
    BY Zenon, <2>1
<1>3. Before(offsets) = {ChangeAt(x[1], x[2]) : x \in All}
  BY Zenon DEF Before
<1> HIDE DEF All
<1>4. ASSUME c \in Before(offsets) PROVE From(c, offsets)
  <2>1. PICK x \in All : c = ChangeAt(x[1], x[2])
    BY Zenon, <1>3, <1>4
  <2> QED
    BY Zenon, <1>2, <2>1 DEF From
<1>5. ASSUME From(c, offsets) PROVE c \in Before(offsets)
  <2>1. PICK p \in Partitions : \E o \in Committed(p) : o < offsets[p] /\ ChangeAt(p, o) = c
    BY Zenon, <1>5 DEF From
  <2>2. PICK o \in Committed(p) : o < offsets[p] /\ ChangeAt(p, o) = c
    BY Zenon, <2>1
  <2>3. <<p, o>> \in All /\ <<p, o>>[1] = p /\ <<p, o>>[2] = o
    BY Zenon, <1>1, <2>2
  <2> QED
    BY Zenon, <1>3, <2>2, <2>3
<1> QED
  BY Zenon, <1>4, <1>5

\* Nothing is written, and no query runs.
LEMMA InitInv == Init => IInv
<1> SUFFICES ASSUME Init PROVE IInv
  BY Zenon
<1>1. \A p \in Partitions : log[p] = << >> /\ Committed(p) = {} /\ Len(log[p]) = 0
  BY DEF Init, LogInit, Committed
<1>2. log \in [Partitions -> Seq(Changes)] /\ ZeroOffsets \in Offsets /\ \A p \in Partitions : ZeroOffsets[p] = 0
  BY DEF Init, LogInit, ZeroOffsets, Offsets
<1>3. LogOK
  BY Zenon, <1>1, <1>2 DEF Init, LogInit, LogOK
<1>4. Empty \in StateSet /\ \A k \in Entities : Empty[k] = None
  BY Zenon DEF Empty, StateSet
<1>5. Materialized(Empty, ZeroOffsets)
  BY <1>1, <1>2, <1>4 DEF Materialized, Sound, Whole
<1>6. q \in Queries /\ q.pc = "idle" /\ \A p \in Partitions : q.high[p] = None
  BY Zenon, <1>2, <1>4 DEF Init, NoQuery, Queries, Unknown, Marks
<1>7. QueryTypes /\ QueryOK
  BY Zenon, <1>2, <1>6 DEF Init, QueryTypes, QueryOK, Stage, Reading
<1> QED
  BY Zenon, <1>3, <1>5, <1>7 DEF Init, IInv

\* The properties follow from the invariant: a change that compaction removed
\* has a later one of its entity that it kept, and that one was read.
LEMMA InvImplies == IInv => QueryInventsNothing /\ QueryFindsEveryChange
<1> SUFFICES ASSUME IInv, Answered PROVE QueryInventsNothing /\ QueryFindsEveryChange
  BY Zenon DEF QueryInventsNothing, QueryFindsEveryChange
<1>1. /\ Sound(q.state, q.high) /\ Partly(q.state, q.positions, q.high)
      /\ \A p \in Partitions : q.high[p] \in Nat /\ q.positions[p] \in Nat /\ q.positions[p] >= q.high[p]
  BY Zenon DEF IInv, QueryOK, Stage, Answered, Reading, Complete, QueryTypes, Queries, Marks, Offsets
<1>2. QueryInventsNothing
  BY Zenon, <1>1, BeforeFacts DEF QueryInventsNothing, Held, Sound
<1>3. ASSUME NEW p \in Partitions, NEW o \in Committed(p), o < q.high[p], <<p, o>> \notin compacted
      PROVE  Covers(q.state, ChangeAt(p, o))
  <2>1. o \in Nat /\ o < q.positions[p]
    BY <1>1, <1>3, LogFacts DEF IInv
  <2> QED
    BY Zenon, <1>1, <1>3, <2>1 DEF Partly
<1>4. ASSUME NEW p \in Partitions, NEW o \in Committed(p), o < q.high[p], ~HiddenByCompaction(p, o),
             <<p, o>> \in compacted
      PROVE  Covers(q.state, ChangeAt(p, o))
  <2>1. PICK l \in Committed(p) : o < l /\ ChangeAt(p, l).key = ChangeAt(p, o).key /\ <<p, l>> \notin compacted
    BY Zenon, <1>4 DEF IInv, LogOK
  <2>2. l \in Nat /\ ChangeAt(p, l) \in Changes /\ ChangeAt(p, o) \in Changes
    BY Zenon, LogFacts DEF IInv
  <2>3. ~(l >= q.high[p]) /\ ~(ChangeAt(p, l).version < ChangeAt(p, o).version)
    BY Zenon, <1>4, <2>1 DEF HiddenByCompaction
  <2>4. Covers(q.state, ChangeAt(p, l))
    BY <1>1, <1>3, <2>1, <2>2, <2>3
  <2>5. q.state[ChangeAt(p, o).key] # None => q.state[ChangeAt(p, o).key] \in Changes
    BY Zenon, <2>2 DEF IInv, QueryTypes, Queries, StateSet, Changes
  <2> QED
    BY <2>1, <2>2, <2>3, <2>4, <2>5, MaxVersionAssumption DEF Covers, Changes
<1>5. QueryFindsEveryChange
  BY Zenon, <1>3, <1>4 DEF QueryFindsEveryChange, Covers
<1> QED
  BY Zenon, <1>2, <1>5

-----------------------------------------------------------------------------
(* The steps *)

\* Producers, compaction and retention do not disturb what was read.
LEMMA LogStep ==
    ASSUME IInv, LogOK', Grows, UNCHANGED queryVars
    PROVE  IInv'
<1>1. UNCHANGED <<snapshot, q, pos>>
  BY Zenon DEF queryVars
<1>2. Materialized(snapshot.changes, snapshot.offsets)'
  BY SMTT(30), <1>1, GrowFacts DEF IInv, Materialized, Sound, From, Whole, Covers, Offsets
<1>3. q.pc \in {"bounds", "start"} => Materialized(q.state, q.positions)'
  BY <1>1, GrowFacts DEF IInv, QueryOK, Stage, Materialized, Sound, From, Whole, Covers, Offsets
<1>4. \A p \in Partitions : q.high[p] # None =>
         q.high[p] \in Nat /\ q.high[p] <= Len(log[p]) /\ q.high[p] <= Len(log'[p]) /\ q.low[p] # None
  BY Zenon, GrowFacts DEF IInv, QueryOK, Stage, QueryTypes, Queries, Marks
<1>5. q.pc \in Reading => Sound(q.state, q.high)'
  BY Zenon, <1>1, GrowFacts DEF IInv, QueryOK, Stage, Sound, From
<1>6. q.pc \in Reading => Partly(q.state, q.positions, q.high)'
  <2> SUFFICES ASSUME q.pc \in Reading, NEW p \in Partitions, NEW o \in Committed(p)',
                      o < q.high[p], o < q.positions[p], <<p, o>> \notin compacted'
               PROVE  Covers(q.state, ChangeAt(p, o)')
    BY Zenon, <1>1 DEF Partly, Covers
  <2>1. q.high[p] \in Nat /\ q.high[p] <= Len(log[p])
    BY Zenon, <1>4 DEF IInv, QueryOK, Stage
  <2>2. o \in Committed(p) /\ ChangeAt(p, o)' = ChangeAt(p, o) /\ <<p, o>> \notin compacted
    BY Zenon, <2>1, GrowFacts DEF IInv
  <2> QED
    BY Zenon, <2>2 DEF IInv, QueryOK, Stage, Partly
<1>7. QueryOK'
  BY Zenon, <1>1, <1>3, <1>4, <1>5, <1>6 DEF IInv, QueryOK, Stage, Complete
<1> QED
  BY Zenon, <1>1, <1>2, <1>7 DEF IInv, QueryTypes

\* A query that has failed, or has not begun to read, promises nothing yet.
LEMMA NoQueryFacts ==
    /\ NoQuery \in Queries /\ NoQuery.pc = "idle"
    /\ NoQuery.state = Empty /\ NoQuery.positions = ZeroOffsets
    /\ \A p \in Partitions : NoQuery.high[p] = None
    /\ Failed \in Queries /\ Failed.pc = "failed" /\ \A p \in Partitions : Failed.high[p] = None
<1>1. Empty \in StateSet /\ ZeroOffsets \in Offsets /\ Unknown \in Marks /\ \A p \in Partitions : Unknown[p] = None
  BY Zenon DEF Empty, StateSet, ZeroOffsets, Offsets, Unknown, Marks
<1>2. /\ NoQuery \in Queries /\ NoQuery.pc = "idle" /\ NoQuery.high = Unknown
      /\ NoQuery.state = Empty /\ NoQuery.positions = ZeroOffsets
  BY Zenon, <1>1 DEF NoQuery, Queries
<1>3. Failed \in Queries /\ Failed.pc = "failed" /\ Failed.high = NoQuery.high
  BY Zenon, <1>2 DEF Failed, Queries
<1> QED
  BY Zenon, <1>1, <1>2, <1>3

\* The log does not move.
LEMMA SameLog ==
    ASSUME IInv, UNCHANGED logVars
    PROVE  /\ log' = log /\ compacted' = compacted /\ LogOK'
           /\ \A p \in Partitions : Committed(p)' = Committed(p) /\ \A o : ChangeAt(p, o)' = ChangeAt(p, o)
<1>1. UNCHANGED <<log, low, aborted, compacted>>
  BY Zenon DEF logVars
<1>2. \A p \in Partitions : Committed(p)' = Committed(p) /\ \A o : ChangeAt(p, o)' = ChangeAt(p, o)
  BY Zenon, <1>1 DEF Committed, ChangeAt
<1>3. LogOK'
  BY Zenon, <1>1, <1>2 DEF IInv, LogOK
<1> QED
  BY Zenon, <1>1, <1>2, <1>3

\* What holds of a query goes on holding while the log does not move.
LEMMA QueryKept ==
    ASSUME IInv, NEW r \in Queries, NEW at \in Offsets, q' = r, pos' = at, Stage(r, at), UNCHANGED logVars
    PROVE  QueryTypes' /\ QueryOK'
<1>1. UNCHANGED <<log, low, aborted, compacted>>
  BY Zenon DEF logVars
<1>2. QueryTypes'
  BY Zenon DEF QueryTypes
<1>3. ASSUME Materialized(r.state, r.positions) PROVE Materialized(q.state, q.positions)'
  BY Zenon, <1>1, <1>3 DEF Materialized, Sound, From, Whole, Covers, Committed, ChangeAt
<1>4. ASSUME Sound(r.state, r.high) PROVE Sound(q.state, q.high)'
  BY Zenon, <1>1, <1>4 DEF Sound, From, Committed, ChangeAt
<1>5. ASSUME Partly(r.state, r.positions, r.high) PROVE Partly(q.state, q.positions, q.high)'
  BY Zenon, <1>1, <1>5 DEF Partly, Covers, Committed, ChangeAt
<1>6. ASSUME Complete(r) PROVE Complete(q)'
  BY Zenon, <1>1, <1>6 DEF Complete
<1>7. Stage(q, pos)'
  BY Zenon, <1>1, <1>3, <1>4, <1>5, <1>6 DEF Stage
<1> QED
  BY Zenon, <1>2, <1>7 DEF QueryOK

\* What holds of a snapshot goes on holding while the log does not move.
LEMMA SnapshotKept ==
    ASSUME NEW changes, NEW offsets, Materialized(changes, offsets), UNCHANGED logVars,
           snapshot'.changes = changes, snapshot'.offsets = offsets
    PROVE  Materialized(snapshot.changes, snapshot.offsets)'
<1>1. UNCHANGED <<log, low, aborted, compacted>>
  BY Zenon DEF logVars
<1> QED
  BY ZenonT(30), <1>1 DEF Materialized, Sound, From, Whole, Covers, Committed, ChangeAt

\* A step of the query alone.
LEMMA QueryStep ==
    ASSUME IInv, NEW r \in Queries, NEW at \in Offsets, q' = r, pos' = at, Stage(r, at),
           UNCHANGED <<logVars, snapshot>>
    PROVE  IInv'
<1>1. Materialized(snapshot.changes, snapshot.offsets)'
  <2>1. Materialized(snapshot.changes, snapshot.offsets)
    BY Zenon DEF IInv
  <2> QED
    BY Zenon, <2>1, SnapshotKept
<1>2. QueryTypes' /\ QueryOK'
  BY Zenon, QueryKept
<1> QED
  BY Zenon, <1>1, <1>2, SameLog DEF IInv

\* The query fails.
LEMMA FailStep ==
    ASSUME IInv, q' = Failed, NEW at \in Offsets, pos' = at, UNCHANGED <<logVars, snapshot>>
    PROVE  IInv'
<1>1. Stage(Failed, at)
  BY Zenon, NoQueryFacts DEF Stage, Reading
<1> QED
  BY Zenon, <1>1, NoQueryFacts, QueryStep

\* The materializer publishes the newest version of each entity.
LEMMA PublishStep ==
    ASSUME WellOrdered, IInv, NEW offsets \in [Partitions -> 0..MaxLog], Publish(offsets)
    PROVE  IInv'
<1>1. /\ UNCHANGED <<log, low, aborted, compacted, q, pos>>
      /\ snapshot'.offsets = offsets
      /\ snapshot'.changes = [k \in Entities |-> Newest(Before(offsets), k)]
  BY Zenon DEF Publish, logVars
<1>2. \A p \in Partitions : offsets[p] \in Nat /\ offsets[p] <= Len(log[p])
  BY MaxLogAssumption DEF Publish, High
<1>3. offsets \in Offsets
  BY Zenon, <1>2 DEF Offsets
<1>4. \A c \in Before(offsets) : c \in Changes
  BY BeforeFacts, LogFacts DEF From, IInv
<1>5. ASSUME NEW k \in Entities, NEW c \in Before(offsets), c.key = k
      PROVE  /\ Newest(Before(offsets), k) \in Before(offsets)
             /\ Newest(Before(offsets), k).version >= c.version
  <2> DEFINE mine == {d \in Before(offsets) : d.key = k}
             T == {d.version : d \in mine}
  <2>1. T \subseteq 0..MaxVersion /\ T # {}
    BY <1>4, <1>5, MaxVersionAssumption DEF Changes
  <2>2. PICK v \in T : \A w \in T : w <= v
    BY Zenon, <2>1, MaxVersionAssumption, Largest
  <2>3. \E d \in mine : \A e \in mine : e.version <= d.version
    BY Zenon, <2>2
  <2>4. Newest(Before(offsets), k) = CHOOSE d \in mine : \A e \in mine : e.version <= d.version
    BY Zenon, <1>5 DEF Newest
  <2>5. Newest(Before(offsets), k) \in mine /\ \A e \in mine : e.version <= Newest(Before(offsets), k).version
    BY Zenon, <2>3, <2>4
  <2> QED
    BY Zenon, <1>4, <1>5, <2>5, MaxVersionAssumption DEF Changes
<1>6. \A k \in Entities : Newest(Before(offsets), k) # None =>
         Newest(Before(offsets), k) \in Before(offsets)
  <2> TAKE k \in Entities
  <2>1. CASE \E c \in Before(offsets) : c.key = k
    BY Zenon, <1>5, <2>1
  <2>2. CASE ~\E c \in Before(offsets) : c.key = k
    BY Zenon, <2>2 DEF Newest
  <2> QED
    BY Zenon, <2>1, <2>2
<1>7. snapshot'.changes \in StateSet /\ \A k \in Entities : snapshot'.changes[k] = Newest(Before(offsets), k)
  BY Zenon, <1>1, <1>4, <1>6 DEF StateSet
<1>8. Sound(snapshot'.changes, offsets)
  BY Zenon, <1>6, <1>7, BeforeFacts DEF Sound
<1>9. Whole(snapshot'.changes, offsets)
  <2> SUFFICES ASSUME NEW p \in Partitions, NEW o \in Committed(p), o < offsets[p]
               PROVE  Covers(snapshot'.changes, ChangeAt(p, o))
    BY Zenon DEF Whole
  <2>1. ChangeAt(p, o) \in Before(offsets)
    BY Zenon, BeforeFacts DEF From
  <2>2. ChangeAt(p, o) \in Changes /\ ChangeAt(p, o).key \in Entities
    BY Zenon, <1>4, <2>1 DEF Changes
  <2>3. Newest(Before(offsets), ChangeAt(p, o).key) \in Changes
    BY Zenon, <1>4, <1>5, <2>1, <2>2
  <2> QED
    BY Zenon, <1>5, <1>7, <2>1, <2>2, <2>3, NoneAssumption DEF Covers
<1>10. Materialized(snapshot'.changes, offsets)
  BY Zenon, <1>2, <1>3, <1>7, <1>8, <1>9 DEF Materialized
<1>11. q \in Queries /\ pos \in Offsets /\ Stage(q, pos) /\ UNCHANGED logVars
  BY Zenon, <1>1 DEF IInv, QueryTypes, QueryOK, logVars
<1>12. Materialized(snapshot.changes, snapshot.offsets)'
  BY Zenon, <1>1, <1>10, <1>11, SnapshotKept
<1>13. QueryTypes' /\ QueryOK'
  BY Zenon, <1>1, <1>11, QueryKept
<1> QED
  BY Zenon, <1>11, <1>12, <1>13, SameLog DEF IInv

\* A query begins, from nothing or from the published snapshot.
LEMMA BeginStep == ASSUME IInv, Query \/ QueryHybrid PROVE IInv'
<1>1. pos' = pos /\ pos \in Offsets /\ UNCHANGED <<logVars, snapshot>>
  BY Zenon DEF IInv, QueryTypes, Query, QueryHybrid
<1>2. CASE Query
  <2> DEFINE r == [NoQuery EXCEPT !.pc = "bounds"]
  <2>1. r \in Queries /\ r.pc = "bounds" /\ r.state = Empty /\ r.positions = ZeroOffsets
        /\ \A p \in Partitions : r.high[p] = None
    BY Zenon, NoQueryFacts DEF Queries
  <2>2. q' = r
    BY Zenon, <1>2 DEF Query
  <2> HIDE DEF r
  <2>3. /\ ZeroOffsets \in Offsets /\ \A p \in Partitions : ZeroOffsets[p] = 0
        /\ Empty \in StateSet /\ \A k \in Entities : Empty[k] = None
    BY Zenon DEF ZeroOffsets, Offsets, Empty, StateSet
  <2>4. Materialized(Empty, ZeroOffsets)
    <3>1. \A p \in Partitions : Len(log[p]) \in Nat /\ \A o \in Committed(p) : ~(o < 0)
      BY LogFacts DEF IInv
    <3> QED
      BY <2>3, <3>1 DEF Materialized, Sound, Whole
  <2>5. Stage(r, pos)
    BY Zenon, <2>1, <2>4 DEF Stage, Reading
  <2> QED
    BY Zenon, <1>1, <2>1, <2>2, <2>5, QueryStep
<1>3. CASE QueryHybrid
  <2> DEFINE r == [NoQuery EXCEPT !.pc = "bounds", !.state = snapshot.changes, !.positions = snapshot.offsets]
  <2>1. snapshot.changes \in StateSet /\ snapshot.offsets \in Offsets
    BY Zenon DEF IInv, Materialized
  <2>2. r \in Queries /\ r.pc = "bounds" /\ r.state = snapshot.changes /\ r.positions = snapshot.offsets
        /\ \A p \in Partitions : r.high[p] = None
    BY Zenon, <2>1, NoQueryFacts DEF Queries
  <2>3. q' = r
    BY Zenon, <1>3 DEF QueryHybrid
  <2> HIDE DEF r
  <2>4. Stage(r, pos)
    BY Zenon, <2>2 DEF IInv, Stage, Reading
  <2> QED
    BY Zenon, <1>1, <2>2, <2>3, <2>4, QueryStep
<1> QED
  BY Zenon, <1>2, <1>3

\* The watermarks of one more partition are known.
LEMMA FetchStep == ASSUME IInv, NEW p \in Partitions, FetchWatermarks(p) PROVE IInv'
<1> DEFINE r == [q EXCEPT !.low[p] = low[p], !.high[p] = High[p]]
           t == [r EXCEPT !.pc = "start"]
<1>1. /\ q.pc = "bounds" /\ q \in Queries /\ pos' = pos /\ pos \in Offsets /\ UNCHANGED <<logVars, snapshot>>
      /\ low[p] \in Nat /\ High[p] = Len(log[p]) /\ Len(log[p]) \in Nat
  BY Zenon, LogFacts DEF IInv, QueryTypes, FetchWatermarks, High
<1>2. /\ r \in Queries /\ r.pc = "bounds" /\ r.state = q.state /\ r.positions = q.positions
      /\ r.high = [q.high EXCEPT ![p] = Len(log[p])] /\ r.low = [q.low EXCEPT ![p] = low[p]]
  BY Zenon, <1>1 DEF Queries, Marks
<1>3. /\ t \in Queries /\ t.pc = "start" /\ t.state = q.state /\ t.positions = q.positions
      /\ t.high = r.high /\ t.low = r.low
  <2> HIDE DEF r
  <2> QED
    BY Zenon, <1>2 DEF Queries
<1>4. q' = IF \A s \in Partitions : r.high[s] # None THEN t ELSE r
  BY Zenon DEF FetchWatermarks
<1> HIDE DEF r, t
<1>5. Materialized(q.state, q.positions)
  BY Zenon, <1>1 DEF IInv, QueryOK, Stage
<1>6. \A s \in Partitions : r.high[s] # None => r.high[s] <= Len(log[s]) /\ r.low[s] # None
  BY SMTT(30), <1>1, <1>2, NoneAssumption DEF IInv, QueryOK, Stage, Queries, Marks
<1>7. Stage(r, pos)
  BY Zenon, <1>2, <1>5, <1>6 DEF Stage, Reading
<1>8. (\A s \in Partitions : r.high[s] # None) => Stage(t, pos)
  BY Zenon, <1>3, <1>5, <1>6 DEF Stage, Reading
<1> QED
  BY Zenon, <1>1, <1>2, <1>3, <1>4, <1>7, <1>8, QueryStep

\* The offsets of the snapshot are valid: it is what a reader would have found.
LEMMA StartStep == ASSUME IInv, Start PROVE IInv'
<1>1. /\ q.pc = "start" /\ q \in Queries /\ pos' = q.positions /\ q.positions \in Offsets
      /\ UNCHANGED <<logVars, snapshot>>
  BY Zenon DEF IInv, QueryTypes, Queries, Start
<1>2. CASE q' = Failed
  BY Zenon, <1>1, <1>2, FailStep
<1>3. CASE q' # Failed
  <2> DEFINE pc == IF Complete(q) THEN "graph" ELSE "read"
             r == [q EXCEPT !.pc = pc]
  <2>1. ValidOffsets(q) /\ q' = r
    BY Zenon, <1>3 DEF Start
  <2>2. /\ r \in Queries /\ r.pc = pc /\ r.state = q.state /\ r.positions = q.positions
        /\ r.high = q.high /\ r.low = q.low
    BY Zenon, <1>1 DEF Queries
  <2>3. pc \in {"graph", "read"} /\ (pc = "graph" => Complete(r))
    BY Zenon, <2>2 DEF Complete
  <2> HIDE DEF r, pc
  <2>4. Materialized(q.state, q.positions) /\ \A p \in Partitions : q.high[p] # None
    BY Zenon, <1>1 DEF IInv, QueryOK, Stage
  <2>5. \A p \in Partitions : q.positions[p] \in Nat /\ q.high[p] \in Nat /\ q.positions[p] <= q.high[p]
    BY Zenon, <1>1, <2>1, <2>4 DEF ValidOffsets, Queries, Marks, Offsets
  <2>6. Sound(r.state, r.high)
    <3>1. \A p \in Partitions : \A o \in Committed(p) : o \in Nat
      BY Zenon, LogFacts DEF IInv
    <3>2. \A p \in Partitions : \A o \in Committed(p) : o < q.positions[p] => o < q.high[p]
      BY <2>5, <3>1
    <3> QED
      BY Zenon, <2>2, <2>4, <3>2 DEF Materialized, Sound, From
  <2>7. Partly(r.state, r.positions, r.high)
    BY Zenon, <2>2, <2>4 DEF Materialized, Whole, Partly
  <2>8. Stage(r, q.positions)
    BY SMTT(30), <1>1, <2>2, <2>3, <2>4, <2>5, <2>6, <2>7 DEF IInv, QueryOK, Stage, Reading
  <2> QED
    BY Zenon, <1>1, <2>1, <2>2, <2>8, QueryStep
<1> QED
  BY Zenon, <1>2, <1>3

\* An item of the reader: the next record it finds, or a progress over offsets
\* at which it finds none.
LEMMA YieldFacts ==
    ASSUME WellOrdered, IInv, NEW item \in Yields(pos)
    PROVE  \E p \in Partitions :
              /\ pos[p] \in Nat /\ low[p] <= pos[p]
              /\ \/ \E o \in Readable(p) : /\ item = Record(p, o) /\ pos[p] <= o
                                           /\ \A a \in Readable(p) : pos[p] <= a => o <= a
                 \/ \E n \in Nat : /\ item = [partition |-> p, next_offset |-> n] /\ pos[p] <= n
                                   /\ \A a \in Readable(p) : ~(pos[p] <= a)
<1> DEFINE Ahead(p) == {o \in Readable(p) : o >= pos[p]}
           First(p) == CHOOSE o \in Ahead(p) : \A a \in Ahead(p) : o <= a
           Items(p) == IF pos[p] < low[p] THEN {}
                       ELSE IF Ahead(p) # {} THEN {Record(p, First(p))}
                       ELSE {[partition |-> p, next_offset |-> o] : o \in (pos[p] + 1)..Len(log[p])}
<1>1. Yields(pos) = UNION {Items(p) : p \in Partitions}
  BY Zenon DEF Yields
<1> HIDE DEF Items
<1>2. PICK p \in Partitions : item \in Items(p)
  BY Zenon, <1>1
<1> USE DEF Items
<1>3. pos[p] \in Nat /\ low[p] \in Nat /\ Len(log[p]) \in Nat /\ Readable(p) \subseteq Nat
  BY Zenon, LogFacts DEF IInv, QueryTypes, Offsets
<1>4. low[p] <= pos[p]
  BY SMTT(30), <1>2, <1>3
<1>5. CASE Ahead(p) # {}
  <2>1. \E o \in Ahead(p) : \A a \in Ahead(p) : o <= a
    BY Zenon, <1>3, <1>5 DEF WellOrdered
  <2>2. First(p) \in Ahead(p) /\ \A a \in Ahead(p) : First(p) <= a
    BY Zenon, <2>1
  <2>3. item = Record(p, First(p))
    BY Zenon, <1>2, <1>3, <1>4, <1>5
  <2> HIDE DEF First
  <2> QED
    BY Zenon, <1>3, <1>4, <2>2, <2>3
<1>6. CASE Ahead(p) = {}
  <2>1. PICK n \in (pos[p] + 1)..Len(log[p]) : item = [partition |-> p, next_offset |-> n]
    BY ZenonT(30), <1>2, <1>3, <1>4, <1>6
  <2>2. n \in Nat /\ pos[p] <= n
    BY <1>3
  <2> QED
    BY ZenonT(30), <1>3, <1>4, <1>6, <2>1, <2>2
<1> QED
  BY Zenon, <1>5, <1>6

\* The query goes on reading with r, or has read enough.
LEMMA ReadOn ==
    ASSUME IInv, q.pc = "read", NEW r \in Queries, NEW at \in Offsets, r.pc = "read",
           r.high = q.high, r.low = q.low, Sound(r.state, r.high), Partly(r.state, r.positions, r.high),
           \A p \in Partitions : at[p] <= r.positions[p],
           q' = IF r.pc = "read" /\ Complete(r) THEN [r EXCEPT !.pc = "graph"] ELSE r,
           pos' = at, UNCHANGED <<logVars, snapshot>>
    PROVE  IInv'
<1>1. /\ \A p \in Partitions : q.high[p] # None /\ q.high[p] <= Len(log[p]) /\ q.low[p] # None
  BY Zenon DEF IInv, QueryOK, Stage, Reading
<1>2. CASE Complete(r)
  <2> DEFINE t == [r EXCEPT !.pc = "graph"]
  <2>1. /\ t \in Queries /\ t.pc = "graph" /\ t.state = r.state /\ t.positions = r.positions
        /\ t.high = r.high /\ t.low = r.low
    BY Zenon DEF Queries
  <2>2. q' = t
    BY Zenon, <1>2
  <2> HIDE DEF t
  <2>3. Stage(t, at)
    BY Zenon, <1>1, <1>2, <2>1 DEF Stage, Reading, Complete
  <2> QED
    BY Zenon, <2>1, <2>2, <2>3, QueryStep
<1>3. CASE ~Complete(r)
  <2>1. Stage(r, at)
    BY Zenon, <1>1 DEF Stage, Reading
  <2> QED
    BY Zenon, <1>3, <2>1, QueryStep
<1> QED
  BY Zenon, <1>2, <1>3

\* The positions move over offsets of one partition; the state still covers
\* what it did, and what was found at those offsets.
LEMMA MoveOver ==
    ASSUME IInv, q.pc = "read", NEW p \in Partitions, NEW n \in Nat, q.positions[p] <= n,
           NEW state \in StateSet, \A c \in Changes : Covers(q.state, c) => Covers(state, c),
           \A o \in Committed(p) : q.positions[p] <= o /\ o < n /\ o < q.high[p] /\ <<p, o>> \notin compacted
              => Covers(state, ChangeAt(p, o))
    PROVE  Partly(state, [q.positions EXCEPT ![p] = n], q.high)
<1> SUFFICES ASSUME NEW s \in Partitions, NEW o \in Committed(s), o < q.high[s],
                    o < [q.positions EXCEPT ![p] = n][s], <<s, o>> \notin compacted
             PROVE  Covers(state, ChangeAt(s, o))
  BY Zenon DEF Partly
<1>1. /\ q.positions \in Offsets /\ o \in Nat /\ ChangeAt(s, o) \in Changes
      /\ Partly(q.state, q.positions, q.high)
  BY Zenon, LogFacts DEF IInv, QueryTypes, Queries, QueryOK, Stage, Reading
<1>2. CASE o < q.positions[s]
  BY Zenon, <1>1, <1>2 DEF Partly
<1>3. CASE ~(o < q.positions[s])
  <2>1. s = p /\ o < n /\ q.positions[p] <= o
    BY <1>1, <1>3 DEF Offsets
  <2> QED
    BY ZenonT(30), <2>1
<1> QED
  BY Zenon, <1>2, <1>3

\* merge keeps what the state covers, and covers the change.
LEMMA MergeFacts ==
    ASSUME NEW state \in StateSet, NEW c \in Changes
    PROVE  /\ Merged(state, c) \in StateSet /\ Covers(Merged(state, c), c)
           /\ \A d \in Changes : Covers(state, d) => Covers(Merged(state, c), d)
           /\ \A k \in Entities : Merged(state, c)[k] = state[k] \/ Merged(state, c)[k] = c
<1>1. c.key \in Entities /\ c.version \in Nat /\ c # None
  BY SMTT(30), NoneAssumption, MaxVersionAssumption DEF Changes
<1>2. \A k \in Entities : state[k] # None => state[k] \in Changes /\ state[k].version \in Nat
  BY MaxVersionAssumption DEF StateSet, Changes
<1>3. CASE state[c.key] # None /\ state[c.key].version >= c.version
  BY Zenon, <1>1, <1>3 DEF Merged, Covers
<1>4. CASE ~(state[c.key] # None /\ state[c.key].version >= c.version)
  <2>1. Merged(state, c) = [state EXCEPT ![c.key] = c]
    BY Zenon, <1>4 DEF Merged
  <2>2. Merged(state, c) \in StateSet
    BY Zenon, <1>1, <2>1 DEF StateSet
  <2>3. \A k \in Entities : Merged(state, c)[k] = IF k = c.key THEN c ELSE state[k]
    BY Zenon, <2>1 DEF StateSet
  <2>4. ASSUME NEW d \in Changes, Covers(state, d) PROVE Covers(Merged(state, c), d)
    <3>1. d.key \in Entities /\ d.version \in Nat
      BY SMTT(30), MaxVersionAssumption DEF Changes
    <3>2. CASE d.key = c.key
      BY SMTT(30), <1>1, <1>2, <1>4, <2>3, <2>4, <3>1, <3>2 DEF Covers
    <3>3. CASE d.key # c.key
      BY ZenonT(30), <2>3, <2>4, <3>1, <3>3 DEF Covers
    <3> QED
      BY Zenon, <3>2, <3>3
  <2>5. Covers(Merged(state, c), c)
    BY <1>1, <2>3 DEF Covers
  <2> QED
    BY ZenonT(30), <2>2, <2>3, <2>4, <2>5
<1> QED
  BY Zenon, <1>3, <1>4

\* One item is read.  Between the position of the query and the item there is
\* nothing that a reader finds.
LEMMA ReadStep == ASSUME WellOrdered, IInv, Read PROVE IInv'
<1>1. PICK item \in Yields(pos) :
         /\ q' = IF Handled(q, item).pc = "read" /\ Complete(Handled(q, item))
                 THEN [Handled(q, item) EXCEPT !.pc = "graph"] ELSE Handled(q, item)
         /\ pos' = After(pos, item)
  BY Zenon DEF Read
<1>2. q.pc = "read" /\ UNCHANGED <<logVars, snapshot>>
  BY Zenon DEF Read
<1>3. PICK p \in Partitions :
         /\ pos[p] \in Nat /\ low[p] <= pos[p]
         /\ \/ \E o \in Readable(p) : /\ item = Record(p, o) /\ pos[p] <= o
                                      /\ \A a \in Readable(p) : pos[p] <= a => o <= a
            \/ \E n \in Nat : /\ item = [partition |-> p, next_offset |-> n] /\ pos[p] <= n
                              /\ \A a \in Readable(p) : ~(pos[p] <= a)
  BY Zenon, YieldFacts
<1>4. /\ q \in Queries /\ pos \in Offsets /\ q.state \in StateSet /\ q.positions \in Offsets
      /\ q.positions[p] \in Nat /\ low[p] \in Nat /\ q.records \in Nat
      /\ \A s \in Partitions : pos[s] \in Nat /\ q.positions[s] \in Nat /\ pos[s] <= q.positions[s]
      /\ \A s \in Partitions : q.high[s] \in Nat
      /\ Sound(q.state, q.high) /\ Partly(q.state, q.positions, q.high)
  BY Zenon, <1>2, LogFacts DEF IInv, QueryTypes, Queries, Marks, QueryOK, Stage, Reading, Offsets
<1>5. \A a \in Committed(p) : a \in Nat /\ ChangeAt(p, a) \in Changes
         /\ (q.positions[p] <= a /\ <<p, a>> \notin compacted => a \in Readable(p) /\ pos[p] <= a)
  <2> TAKE a \in Committed(p)
  <2>1. a \in Nat /\ ChangeAt(p, a) \in Changes
    BY Zenon, LogFacts DEF IInv
  <2>2. pos[p] <= q.positions[p]
    BY Zenon, <1>4
  <2>3. q.positions[p] <= a => pos[p] <= a /\ low[p] <= a
    BY <1>3, <1>4, <2>1, <2>2
  <2> QED
    BY Zenon, <2>1, <2>3 DEF Readable
<1>6. ASSUME NEW o \in Readable(p), item = Record(p, o), pos[p] <= o,
             \A a \in Readable(p) : pos[p] <= a => o <= a
      PROVE  IInv'
  <2>1. o \in Committed(p) /\ o \in Nat /\ ChangeAt(p, o) \in Changes /\ <<p, o>> \notin compacted
    BY Zenon, <1>5 DEF Readable
  <2>2. item.partition = p /\ item.offset = o /\ item.change = ChangeAt(p, o) /\ IsRecord(item)
    BY Zenon, <1>6 DEF Record, IsRecord
  <2> DEFINE at == [pos EXCEPT ![p] = o + 1]
  <2>3. pos' = at
    BY ZenonT(30), <1>1, <2>2 DEF After
  <2>4. at \in Offsets /\ \A s \in Partitions : at[s] = IF s = p THEN o + 1 ELSE pos[s]
    BY <1>4, <2>1 DEF Offsets
  <2> HIDE DEF at
  <2>5. CASE o < q.positions[p]
    <3>1. Handled(q, item) = q
      BY SMTT(30), <1>4, <2>1, <2>2, <2>5 DEF Handled
    <3>2. \A s \in Partitions : at[s] <= q.positions[s]
      BY SMTT(30), <1>4, <2>1, <2>4, <2>5
    <3> QED
      BY ZenonT(30), <1>1, <1>2, <1>4, <2>3, <2>4, <3>1, <3>2, ReadOn
  <2>6. CASE ~(o < q.positions[p])
    <3> DEFINE moved == [q.positions EXCEPT ![p] = o + 1]
               r == [q EXCEPT !.positions[p] = o + 1]
    <3>1. /\ moved \in Offsets /\ \A s \in Partitions : moved[s] = IF s = p THEN o + 1 ELSE q.positions[s]
      BY <1>4, <2>1 DEF Offsets
    <3>2. /\ r \in Queries /\ r.pc = "read" /\ r.state = q.state /\ r.positions = moved
          /\ r.high = q.high /\ r.low = q.low /\ r.records = q.records
      BY ZenonT(30), <1>2, <1>4, <3>1 DEF Queries
    <3>3. \A s \in Partitions : at[s] <= moved[s]
      BY SMTT(30), <1>4, <2>1, <2>4, <3>1
    <3>4. o + 1 \in Nat /\ q.positions[p] <= o + 1
      BY SMTT(30), <1>4, <2>1, <2>6
    <3>5. \A a \in Committed(p) : q.positions[p] <= a /\ a < o + 1 /\ <<p, a>> \notin compacted => a = o
      <4> SUFFICES ASSUME NEW a \in Committed(p), q.positions[p] <= a, a < o + 1, <<p, a>> \notin compacted
                   PROVE  a = o
        BY Zenon
      <4>1. a \in Nat /\ o <= a
        BY Zenon, <1>5, <1>6
      <4> QED
        BY <2>1, <4>1
    <3> HIDE DEF moved
    <3>6. CASE Beyond(q, item)
      <4>1. Handled(q, item) = r
        BY SMTT(30), <1>4, <2>1, <2>2, <2>6, <3>6 DEF Handled
      <4>2. \A a \in Committed(p) : q.positions[p] <= a /\ a < o + 1 /\ a < q.high[p] /\ <<p, a>> \notin compacted
               => Covers(q.state, ChangeAt(p, a))
        BY SMTT(30), <1>4, <2>1, <2>2, <3>5, <3>6 DEF Beyond
      <4>3. Partly(q.state, moved, q.high)
        BY Zenon, <1>2, <1>4, <3>4, <4>2, MoveOver DEF moved
      <4> HIDE DEF r
      <4> QED
        BY ZenonT(30), <1>1, <1>2, <1>4, <2>3, <2>4, <3>2, <3>3, <4>1, <4>3, ReadOn
    <3>7. CASE ~Beyond(q, item)
      <4> DEFINE counted == [r EXCEPT !.records = @ + 1]
                 c == ChangeAt(p, o)
                 t == [counted EXCEPT !.state = Merged(@, c)]
      <4>1. /\ counted \in Queries /\ counted.pc = "read" /\ counted.state = q.state
            /\ counted.positions = moved /\ counted.high = q.high /\ counted.low = q.low
        <5> HIDE DEF r
        <5> QED
          BY <1>4, <3>2 DEF Queries
      <4>2. Merged(q.state, c) \in StateSet
        BY Zenon, <1>4, <2>1, MergeFacts
      <4>3. /\ t \in Queries /\ t.pc = "read" /\ t.state = Merged(q.state, c)
            /\ t.positions = moved /\ t.high = q.high /\ t.low = q.low
        <5> HIDE DEF counted
        <5> QED
          BY ZenonT(30), <4>1, <4>2 DEF Queries
      <4>4. Handled(q, item) = t \/ Handled(q, item) = Failed
        BY SMTT(30), <1>4, <2>1, <2>2, <2>6, <3>7 DEF Handled
      <4> HIDE DEF t, counted, r
      <4>5. CASE Handled(q, item) = Failed
        <5>1. q' = Failed
          BY Zenon, <1>1, <4>5, NoQueryFacts
        <5> QED
          BY ZenonT(30), <1>2, <2>3, <2>4, <5>1, FailStep
      <4>6. CASE Handled(q, item) = t
        <5>1. Partly(t.state, moved, q.high)
          <6>1. \A a \in Committed(p) : q.positions[p] <= a /\ a < o + 1 /\ a < q.high[p] /\ <<p, a>> \notin compacted
                   => Covers(t.state, ChangeAt(p, a))
            BY SMTT(30), <1>4, <2>1, <3>5, <4>3, MergeFacts
          <6>2. \A d \in Changes : Covers(q.state, d) => Covers(t.state, d)
            BY SMTT(30), <1>4, <2>1, <4>3, MergeFacts
          <6> QED
            BY ZenonT(30), <1>2, <3>4, <4>2, <4>3, <6>1, <6>2, MoveOver DEF moved
        <5>2. Sound(t.state, q.high)
          <6>1. o < q.high[p]
            BY SMTT(30), <1>4, <2>1, <2>2, <3>7 DEF Beyond
          <6>2. From(c, q.high)
            BY Zenon, <2>1, <6>1 DEF From
          <6> QED
            BY SMTT(30), <1>4, <2>1, <4>3, <6>2, MergeFacts DEF Sound
        <5> QED
          BY ZenonT(30), <1>1, <1>2, <2>3, <2>4, <3>3, <4>3, <4>6, <5>1, <5>2, ReadOn
      <4> QED
        BY Zenon, <4>4, <4>5, <4>6
    <3> QED
      BY ZenonT(30), <3>6, <3>7
  <2> QED
    BY Zenon, <2>5, <2>6
<1>7. ASSUME NEW n \in Nat, item = [partition |-> p, next_offset |-> n], pos[p] <= n,
             \A a \in Readable(p) : ~(pos[p] <= a)
      PROVE  IInv'
  <2>1. item.partition = p /\ item.next_offset = n /\ ~IsRecord(item)
    BY Zenon, <1>7 DEF IsRecord
  <2> DEFINE at == [pos EXCEPT ![p] = n]
             m == IF q.positions[p] < n THEN n ELSE q.positions[p]
             moved == [q.positions EXCEPT ![p] = m]
             r == [q EXCEPT !.positions[p] = m]
  <2>2. pos' = at
    BY Zenon, <1>1, <2>1 DEF After
  <2>3. at \in Offsets /\ \A s \in Partitions : at[s] = IF s = p THEN n ELSE pos[s]
    BY ZenonT(30), <1>4 DEF Offsets
  <2>4. m \in Nat /\ q.positions[p] <= m /\ n <= m
    BY <1>4
  <2>5. Handled(q, item) = r
    BY Zenon, <2>1 DEF Handled, Progressed
  <2> HIDE DEF m, at
  <2>6. /\ moved \in Offsets /\ \A s \in Partitions : moved[s] = IF s = p THEN m ELSE q.positions[s]
    BY Zenon, <1>4, <2>4 DEF Offsets
  <2>7. /\ r \in Queries /\ r.pc = "read" /\ r.state = q.state /\ r.positions = moved
        /\ r.high = q.high /\ r.low = q.low
    BY Zenon, <1>2, <1>4, <2>6 DEF Queries
  <2>8. \A s \in Partitions : at[s] <= moved[s]
    BY Zenon, <1>4, <2>3, <2>4, <2>6
  <2>9. \A a \in Committed(p) : q.positions[p] <= a /\ <<p, a>> \notin compacted => FALSE
    BY Zenon, <1>5, <1>7
  <2>10. Partly(q.state, moved, q.high)
    BY Zenon, <1>2, <1>4, <2>4, <2>9, MoveOver
  <2> HIDE DEF r, moved
  <2> QED
    BY ZenonT(30), <1>1, <1>2, <1>4, <2>2, <2>3, <2>5, <2>7, <2>8, <2>10, ReadOn
<1> QED
  BY Zenon, <1>3, <1>6, <1>7

\* Every step keeps the invariant.
LEMMA StepInv == ASSUME WellOrdered, Changes # {} PROVE IInv /\ [Next]_vars => IInv'
<1> SUFFICES ASSUME IInv, [Next]_vars PROVE IInv'
  BY Zenon
<1>1. CASE LogNext /\ UNCHANGED queryVars
  BY Zenon, <1>1, LogGrows, LogStep DEF IInv
<1>2. ASSUME NEW offsets \in [Partitions -> 0..MaxLog], Publish(offsets) PROVE IInv'
  BY Zenon, <1>2, PublishStep
<1>3. CASE Query \/ QueryHybrid
  BY Zenon, <1>3, BeginStep
<1>4. ASSUME NEW p \in Partitions, FetchWatermarks(p) PROVE IInv'
  BY Zenon, <1>4, FetchStep
<1>5. CASE Start
  BY Zenon, <1>5, StartStep
<1>6. CASE Read
  BY Zenon, <1>6, ReadStep
<1>7. CASE Redeliver
  <2>1. PICK p \in Partitions : \E o \in 0..pos[p] : o < pos[p] /\ pos' = [pos EXCEPT ![p] = o]
    BY Zenon, <1>7 DEF Redeliver
  <2>2. PICK o \in 0..pos[p] : o < pos[p] /\ pos' = [pos EXCEPT ![p] = o]
    BY Zenon, <2>1
  <2>3. /\ q' = q /\ q \in Queries /\ q.pc = "read" /\ pos \in Offsets /\ UNCHANGED <<logVars, snapshot>>
        /\ q.positions \in Offsets /\ pos[p] \in Nat /\ o \in Nat
    BY <1>7, <2>2 DEF Redeliver, IInv, QueryTypes, Queries, Offsets
  <2> DEFINE at == [pos EXCEPT ![p] = o]
  <2>4. at \in Offsets /\ \A s \in Partitions : at[s] = IF s = p THEN o ELSE pos[s]
    BY Zenon, <2>3 DEF Offsets
  <2>5. \A s \in Partitions : at[s] <= q.positions[s]
    <3>1. \A s \in Partitions : pos[s] \in Nat /\ q.positions[s] \in Nat /\ pos[s] <= q.positions[s]
      BY Zenon, <2>3 DEF IInv, QueryOK, Stage, Offsets
    <3> QED
      BY SMTT(30), <2>2, <2>3, <2>4, <3>1
  <2>6. pos' = at
    BY Zenon, <2>2
  <2> HIDE DEF at
  <2>7. Stage(q, at)
    BY Zenon, <2>3, <2>5 DEF IInv, QueryOK, Stage
  <2> QED
    BY Zenon, <2>3, <2>4, <2>6, <2>7, QueryStep
<1>8. CASE Fail
  BY Zenon, <1>8, FailStep DEF Fail, IInv, QueryTypes
<1>9. CASE Answer
  <2> DEFINE r == [q EXCEPT !.pc = "done"]
  <2>1. /\ q.pc = "graph" /\ q' = r /\ q \in Queries /\ pos' = pos /\ pos \in Offsets
        /\ UNCHANGED <<logVars, snapshot>>
    BY Zenon, <1>9 DEF Answer, IInv, QueryTypes
  <2>2. /\ r \in Queries /\ r.pc = "done" /\ r.state = q.state /\ r.positions = q.positions
        /\ r.high = q.high /\ r.low = q.low
    BY Zenon, <2>1 DEF Queries
  <2> HIDE DEF r
  <2>3. Stage(r, pos)
    BY Zenon, <2>1, <2>2 DEF IInv, QueryOK, Stage, Reading, Complete
  <2> QED
    BY Zenon, <2>1, <2>2, <2>3, QueryStep
<1>10. CASE UNCHANGED vars
  <2>1. UNCHANGED <<logVars, snapshot>> /\ q' = q /\ pos' = pos
    BY Zenon, <1>10 DEF vars, queryVars
  <2> QED
    BY Zenon, <2>1, QueryStep DEF IInv, QueryTypes, QueryOK
<1> QED
  BY ZenonT(30), <1>1, <1>2, <1>3, <1>4, <1>5, <1>6, <1>7, <1>8, <1>9, <1>10 DEF Next

-----------------------------------------------------------------------------
(* StreamWire. *)

Commands == [op : 1..MaxOps, action : Actions]
Working == {"run", "wait", "result"}

\* A channel holds nothing or one message.
Types ==
    /\ registered \in BOOLEAN /\ busy \in BOOLEAN /\ pending \in Requests \cup {Nil}
    /\ caller \in [Callers -> CallerStates]
    /\ \A c \in Callers : caller[c] = "poll" <=> lock = c
    /\ commands = << >> \/ \E m \in Commands : commands = <<m>>
    /\ events = << >> \/ \E e \in Events : events = <<e>>
    /\ worker \in WorkerStates /\ expired \subseteq Requests
    /\ started \in 0..MaxOps /\ writes \subseteq 1..MaxOps /\ answered \subseteq 1..started
    /\ grants \in [given : SUBSET Requests, yes : SUBSET Requests]
    /\ worker.pc \in Working => worker.op \in 1..MaxOps

\* An answer waits only for the request the worker waits on, and says yes only
\* if the host did; so does the permission the operation goes on with.
Granted ==
    /\ IF worker.pc = "wait" THEN worker.round # 0 ELSE worker.reply = Nil
    /\ worker.reply = TRUE => Request \in grants.yes
    /\ worker.granted => \E r \in grants.yes : r[1] = worker.op
    /\ WritesAreGranted

\* Something of an operation is on its way.
Pending == commands # << >> \/ events # << >> \/ worker.pc \in Working

\* The operation started last moves from the command to the worker to the
\* result, and is in one of these places at a time.
InFlight ==
    /\ \A m \in Commands : commands = <<m>> =>
          m.op = started /\ events = << >> /\ worker.pc \in {"recv", "dead"}
    /\ \A e \in Events : events = <<e>> =>
          e.op = started /\ commands = << >> /\ (e.type = "result" => worker.pc \in {"recv", "dead"})
    /\ worker.pc \in Working => worker.op = started /\ commands = << >>
    /\ Pending => started \notin answered /\ (Alive => busy)
    /\ \A c \in Callers : Alive /\ caller[c] = "send" => busy /\ ~Pending /\ started < MaxOps
    /\ \A c, d \in Callers : Alive /\ caller[c] = "send" /\ caller[d] = "send" => c = d

WireInv == Types /\ Granted /\ InFlight

\* A sequence of one message.
LEMMA SingleFacts ==
    ASSUME NEW m
    PROVE  /\ <<m>> # << >> /\ Len(<<m>>) = 1 /\ <<m>>[1] = m
           /\ Head(<<m>>) = m /\ Tail(<<m>>) = << >>
OBVIOUS

\* A channel that holds nothing or one message is a sequence of at most one.
LEMMA ShortSeq ==
    ASSUME NEW S, NEW s, s = << >> \/ \E m \in S : s = <<m>>
    PROVE  s \in Seq(S) /\ Len(s) <= 1
<1>1. CASE s = << >>
  BY <1>1
<1>2. ASSUME NEW m \in S, s = <<m>> PROVE s \in Seq(S) /\ Len(s) <= 1
  BY <1>2
<1> QED
  BY Zenon, <1>1, <1>2

\* The first message of a channel that is not empty.
LEMMA ChannelFacts ==
    ASSUME Types
    PROVE  /\ commands # << >> => /\ Head(commands) \in Commands /\ commands = <<Head(commands)>>
                                  /\ Tail(commands) = << >>
           /\ events # << >> => /\ Head(events) \in Events /\ events = <<Head(events)>>
                                /\ Tail(events) = << >>
BY Zenon, SingleFacts DEF Types

\* A set of one member has one (the last section shows it).
Singles == \A x : Cardinality({x}) = 1

\* The properties follow from the invariant.
LEMMA WireImplies == Singles /\ WireInv => WireTypeOK /\ WritesAreGranted /\ OneOperationOutstanding
<1> SUFFICES ASSUME Singles, WireInv PROVE WireTypeOK /\ WritesAreGranted /\ OneOperationOutstanding
  BY Zenon
<1>1. WireTypeOK
  <2>1. commands \in Seq([op : 1..MaxOps, action : Actions]) /\ Len(commands) <= 1
    BY Zenon, ShortSeq DEF WireInv, Types, Commands
  <2>2. events \in Seq(Events) /\ Len(events) <= 1
    BY Zenon, ShortSeq DEF WireInv, Types
  <2>3. answered \subseteq 1..MaxOps
    BY BoundsAssumption DEF WireInv, Types
  <2> QED
    BY Zenon, <2>1, <2>2, <2>3 DEF WireInv, Types, WireTypeOK
<1>2. WritesAreGranted
  BY Zenon DEF WireInv, Granted
<1>3. \A i \in 1..Len(commands) : commands[i].op = started /\ Pending
  <2>1. CASE commands = << >>
    BY SMTT(30), <2>1
  <2>2. CASE commands # << >>
    <3>1. PICK m \in Commands : commands = <<m>>
      BY Zenon, <2>2 DEF WireInv, Types
    <3> QED
      BY <2>2, <3>1, SingleFacts DEF WireInv, InFlight, Pending
  <2> QED
    BY Zenon, <2>1, <2>2
<1>4. \A i \in 1..Len(events) : events[i].op = started /\ Pending
  <2>1. CASE events = << >>
    BY <2>1
  <2>2. CASE events # << >>
    <3>1. PICK e \in Events : events = <<e>>
      BY Zenon, <2>2 DEF WireInv, Types
    <3> QED
      BY SMTT(30), <2>2, <3>1, SingleFacts DEF WireInv, InFlight, Pending
  <2> QED
    BY Zenon, <2>1, <2>2
<1>5. \A op \in Outstanding : op = started /\ Pending
  BY Zenon, <1>3, <1>4 DEF Outstanding, WireInv, InFlight, Pending, Working
<1>6. ASSUME Alive, NEW c \in Starting
      PROVE  busy /\ Outstanding = {} /\ Cardinality(Starting) = 1
  <2>1. busy /\ ~Pending
    BY Zenon, <1>6 DEF Starting, WireInv, InFlight
  <2>2. Starting = {c}
    BY Zenon, <1>6 DEF Starting, WireInv, InFlight
  <2> QED
    BY Zenon, <1>5, <2>1, <2>2 DEF Singles
<1>7. OneOperationOutstanding
  BY Zenon, <1>5, <1>6 DEF OneOperationOutstanding, WireInv, InFlight
<1> QED
  BY Zenon, <1>1, <1>2, <1>7

\* The worker before its first operation.
LEMMA NoWorkFacts ==
    /\ NoWork \in WorkerStates /\ NoWork.pc = "recv" /\ NoWork.reply = Nil /\ NoWork.granted = FALSE
    /\ 0 \in 0..MaxRounds
BY BoundsAssumption DEF NoWork, WorkerStates, Actions

\* Nothing is started yet.
LEMMA WireStart == WireInit => WireInv
<1> SUFFICES ASSUME WireInit PROVE WireInv
  BY Zenon
<1>1. worker \in WorkerStates /\ worker.pc = "recv" /\ worker.reply = Nil /\ worker.granted = FALSE
  BY Zenon, NoWorkFacts DEF WireInit
<1>2. Types
  <2>1. grants \in [given : SUBSET Requests, yes : SUBSET Requests]
    BY Zenon DEF WireInit
  <2>2. caller \in [Callers -> CallerStates] /\ \A c \in Callers : caller[c] = "idle" /\ lock # c
    BY Zenon, NilAssumption DEF WireInit, CallerStates
  <2>3. worker.pc \notin Working
    BY Zenon, <1>1 DEF Working
  <2>4. started \in 0..MaxOps /\ writes \subseteq 1..MaxOps /\ answered \subseteq 1..started
    BY BoundsAssumption DEF WireInit
  <2> QED
    BY ZenonT(30), <1>1, <2>1, <2>2, <2>3, <2>4 DEF WireInit, Types
<1>3. Granted
  BY Zenon, <1>1, NilAssumption DEF WireInit, Granted, WritesAreGranted
<1>4. InFlight
  BY Zenon, <1>1, SingleFacts DEF WireInit, InFlight, Pending, Working
<1> QED
  BY Zenon, <1>2, <1>3, <1>4 DEF WireInv

-----------------------------------------------------------------------------
(* The calls of the host leave the worker alone, except that an answer may be *)
(* put where it waits.                                                        *)

\* A thread of the host takes the step; the worker and its permissions do not.
LEMMA HostGranted ==
    ASSUME Granted, UNCHANGED <<worker, writes>>, grants.yes \subseteq grants'.yes
    PROVE  Granted'
BY Zenon DEF Granted, WritesAreGranted, Request

\* The state of the calling thread in its type.
LEMMA CallerFacts ==
    ASSUME Types, NEW c \in Callers, NEW pc \in CallerStates, caller' = [caller EXCEPT ![c] = pc]
    PROVE  /\ caller' \in [Callers -> CallerStates] /\ caller'[c] = pc
           /\ \A d \in Callers : d # c => caller'[d] = caller[d]
BY Zenon DEF Types

\* A thread that finds the handle free marks it.
LEMMA StartInv == ASSUME WireInv, NEW c \in Callers, StartOp(c) PROVE WireInv'
<1>1. /\ caller' \in [Callers -> CallerStates] /\ caller'[c] = "send"
      /\ \A d \in Callers : d # c => caller'[d] = caller[d]
  BY Zenon, CallerFacts DEF WireInv, StartOp, CallerStates
<1>2. ~busy /\ busy' = TRUE /\ started < MaxOps /\ caller[c] = "idle"
      /\ UNCHANGED <<registered, pending, lock, commands, events, worker, expired, started, writes, grants, answered>>
  BY Zenon DEF StartOp, historyVars
<1>3. Types'
  BY Zenon, <1>1, <1>2 DEF WireInv, Types
<1>4. Granted'
  BY Zenon, <1>2, HostGranted DEF WireInv
<1>5. Alive => ~Pending /\ \A d \in Callers : caller[d] # "send"
  BY Zenon, <1>2 DEF WireInv, InFlight
<1>6. InFlight'
  BY Zenon, <1>1, <1>2, <1>5 DEF WireInv, InFlight, Pending, Alive
<1> QED
  BY Zenon, <1>3, <1>4, <1>6 DEF WireInv

\* Its command goes out, or the worker is gone.
LEMMA SendInv == ASSUME WireInv, NEW c \in Callers, NEW action \in Actions, Send(c, action) PROVE WireInv'
<1>1. /\ caller' \in [Callers -> CallerStates] /\ caller'[c] = "idle"
      /\ \A d \in Callers : d # c => caller'[d] = caller[d]
  BY Zenon, CallerFacts DEF WireInv, Send, CallerStates
<1>2. caller[c] = "send"
      /\ UNCHANGED <<registered, pending, lock, events, worker, expired, writes, grants, answered>>
  BY Zenon DEF Send
<1>3. Granted'
  BY Zenon, <1>2, HostGranted DEF WireInv
<1>4. CASE Alive /\ commands = << >>
  <2> DEFINE m == Command(started + 1, action)
  <2>1. started' = started + 1 /\ commands' = <<m>> /\ busy' = busy
    BY Zenon, <1>4 DEF Send
  <2>2. busy /\ ~Pending /\ started < MaxOps /\ \A d \in Callers : d # c => caller[d] # "send"
    BY Zenon, <1>2, <1>4 DEF WireInv, InFlight
  <2>3. started' \in 0..MaxOps /\ started' \in 1..MaxOps /\ started' \notin answered /\ answered \subseteq 1..started'
    BY <2>1, <2>2, BoundsAssumption DEF WireInv, Types
  <2>4. m \in Commands /\ m.op = started'
    BY Zenon, <2>1, <2>3 DEF Command, Commands
  <2> HIDE DEF m
  <2>5. Types'
    BY Zenon, <1>1, <1>2, <2>1, <2>3, <2>4 DEF WireInv, Types
  <2>6. events = << >> /\ worker.pc \notin Working /\ worker.pc \in {"recv", "dead"}
    BY Zenon, <2>2 DEF Pending, WireInv, Types, WorkerStates, Working
  <2>7. \A k \in Commands : commands' = <<k>> => k = m
    BY Zenon, <2>1, SingleFacts
  <2>8. \A e : events' # <<e>>
    BY Zenon, <1>2, <2>6, SingleFacts
  <2>9. \A d \in Callers : caller'[d] # "send"
    BY Zenon, <1>1, <2>2
  <2>10. InFlight'
    BY ZenonT(30), <1>2, <2>1, <2>2, <2>3, <2>4, <2>6, <2>7, <2>8, <2>9 DEF InFlight, Pending, Alive
  <2> QED
    BY Zenon, <1>3, <2>5, <2>10 DEF WireInv
<1>5. CASE ~(Alive /\ commands = << >>)
  <2>1. busy' = FALSE /\ UNCHANGED <<started, commands>>
    BY Zenon, <1>5 DEF Send
  <2>2. ~Alive
    BY Zenon, <1>2, <1>5 DEF WireInv, InFlight, Pending
  <2>3. Types'
    BY Zenon, <1>1, <1>2, <2>1 DEF WireInv, Types
  <2>4. InFlight'
    BY Zenon, <1>2, <2>1, <2>2 DEF WireInv, InFlight, Pending, Alive
  <2> QED
    BY Zenon, <1>3, <2>3, <2>4 DEF WireInv
<1> QED
  BY Zenon, <1>4, <1>5

\* A poll that only moves on, or returns with nothing.
LEMMA PollStepInv ==
    ASSUME WireInv, NEW c \in Callers, NEW pc \in CallerStates \ {"send"}, caller[c] # "send",
           caller' = [caller EXCEPT ![c] = pc],
           \A d \in Callers : caller'[d] = "poll" <=> lock' = d,
           busy' \in BOOLEAN, busy' # busy => ~Alive,
           UNCHANGED <<registered, pending, commands, events, worker, expired, historyVars>>
    PROVE  WireInv'
<1>1. /\ caller' \in [Callers -> CallerStates] /\ caller'[c] = pc
      /\ \A d \in Callers : d # c => caller'[d] = caller[d]
  BY Zenon, CallerFacts DEF WireInv
<1>2. UNCHANGED <<started, writes, grants, answered>>
  BY Zenon DEF historyVars
<1>3. Types'
  BY Zenon, <1>1, <1>2 DEF WireInv, Types
<1>4. Granted'
  BY Zenon, <1>2, HostGranted DEF WireInv
<1>5. \A d \in Callers : caller'[d] = "send" <=> caller[d] = "send"
  BY Zenon, <1>1
<1>6. InFlight'
  BY Zenon, <1>2, <1>5 DEF WireInv, InFlight, Pending, Alive
<1> QED
  BY Zenon, <1>3, <1>4, <1>6 DEF WireInv

\* A poll that takes a message.
LEMMA PollTakesInv ==
    ASSUME WireInv, NEW c \in Callers, caller[c] = "poll", events # << >>, events' = Tail(events), Unlock(c),
           pending' \in Requests \cup {Nil},
           \/ /\ Head(events).type = "result" /\ busy' = FALSE
              /\ answered' = answered \cup {Head(events).op} /\ UNCHANGED grants
           \/ /\ UNCHANGED <<busy, answered>> /\ grants'.yes = grants.yes
              /\ grants' \in [given : SUBSET Requests, yes : SUBSET Requests],
           UNCHANGED <<registered, commands, worker, expired, started, writes>>
    PROVE  WireInv'
<1>1. /\ caller' \in [Callers -> CallerStates] /\ caller'[c] = "idle"
      /\ \A d \in Callers : d # c => caller'[d] = caller[d]
  BY Zenon, CallerFacts DEF WireInv, Unlock, CallerStates
<1>2. \A d \in Callers : caller'[d] # "poll" /\ lock' # d
  BY Zenon, <1>1, NilAssumption DEF WireInv, Types, Unlock
<1>3. PICK e \in Events : events = <<e>> /\ Head(events) = e
  BY Zenon, ChannelFacts DEF WireInv
<1>4. events' = << >> /\ e.op = started /\ commands = << >> /\ (e.type = "result" => worker.pc \in {"recv", "dead"})
  BY Zenon, <1>3, ChannelFacts DEF WireInv, InFlight
<1>5. started \in 1..MaxOps
  BY Zenon, <1>3, <1>4 DEF Events
<1>6. Types'
  <2>1. busy' \in BOOLEAN
    BY Zenon DEF WireInv, Types
  <2>3. started \in 1..started
    BY <1>5, BoundsAssumption
  <2>4. answered' \subseteq 1..started
    BY Zenon, <1>3, <1>4, <2>3 DEF WireInv, Types
  <2>2. grants' \in [given : SUBSET Requests, yes : SUBSET Requests]
    BY Zenon DEF WireInv, Types
  <2> QED
    BY Zenon, <1>1, <1>2, <1>4, <2>1, <2>2, <2>4 DEF WireInv, Types
<1>7. Granted'
  BY Zenon, HostGranted DEF WireInv
<1>8. \A d \in Callers : Alive => caller'[d] # "send"
  BY Zenon, <1>1 DEF WireInv, InFlight, Pending
<1>9. commands' = << >> /\ (\A m : commands' # <<m>>) /\ (\A f : events' # <<f>>)
  BY Zenon, <1>4, SingleFacts
<1>10. InFlight'
  <2>1. CASE Head(events).type = "result" /\ busy' = FALSE
    <3>1. ~Pending' /\ worker'.pc \notin Working
      BY Zenon, <1>3, <1>4, <1>9, <2>1 DEF Pending, Working
    <3> QED
      BY Zenon, <1>8, <1>9, <3>1 DEF WireInv, InFlight, Alive
  <2>2. CASE UNCHANGED <<busy, answered>>
    BY Zenon, <1>8, <1>9, <2>2 DEF WireInv, InFlight, Alive, Pending
  <2> QED
    BY Zenon, <2>1, <2>2
<1> QED
  BY Zenon, <1>6, <1>7, <1>10 DEF WireInv

\* The host answers, and the answer reaches the worker or is dropped.
LEMMA AuthorizeInv ==
    ASSUME WireInv, NEW r \in Requests, NEW yes \in BOOLEAN, Authorize(r, yes)
    PROVE  WireInv'
<1>1. /\ pending' = Nil /\ registered' = registered
      /\ UNCHANGED <<busy, lock, commands, events, caller, expired, started, writes, answered>>
  BY Zenon DEF Authorize
<1>2. /\ grants' \in [given : SUBSET Requests, yes : SUBSET Requests]
      /\ grants.yes \subseteq grants'.yes /\ (yes => r \in grants'.yes)
  BY Zenon DEF Authorize, WireInv, Types
<1>3. CASE worker' = worker
  <2>1. Types'
    BY Zenon, <1>1, <1>2, <1>3 DEF WireInv, Types
  <2>2. Granted'
    BY Zenon, <1>1, <1>2, <1>3, HostGranted DEF WireInv
  <2>3. InFlight'
    BY Zenon, <1>1, <1>3 DEF WireInv, InFlight, Pending, Alive
  <2> QED
    BY Zenon, <2>1, <2>2, <2>3 DEF WireInv
<1>4. CASE worker' # worker
  <2>1. Listening(r) /\ worker' = [worker EXCEPT !.reply = yes]
    BY Zenon, <1>4 DEF Authorize
  <2>2. /\ worker' \in WorkerStates /\ worker'.pc = worker.pc /\ worker'.op = worker.op
        /\ worker'.round = worker.round /\ worker'.reply = yes /\ worker'.granted = worker.granted
    BY Zenon, <2>1 DEF WireInv, Types, WorkerStates
  <2>3. Types'
    BY Zenon, <1>1, <1>2, <2>2 DEF WireInv, Types
  <2>4. Granted'
    BY Zenon, <1>1, <1>2, <2>1, <2>2 DEF WireInv, Granted, WritesAreGranted, Listening, Request
  <2>5. InFlight'
    BY Zenon, <1>1, <2>2 DEF WireInv, InFlight, Pending, Alive
  <2> QED
    BY Zenon, <2>3, <2>4, <2>5 DEF WireInv
<1> QED
  BY Zenon, <1>3, <1>4

-----------------------------------------------------------------------------
(* The worker *)

\* The worker stays with its operation.
LEMMA WorkerStays ==
    ASSUME WireInv, Granted', worker.pc \in Working, worker' \in WorkerStates, worker'.pc \in Working,
           worker'.op = worker.op,
           events' = events \/ \E e \in Events : events' = <<e>> /\ e.type = "auth" /\ e.op = worker.op,
           writes' \subseteq writes \cup {worker.op}, expired' \subseteq Requests,
           Quiet, UNCHANGED <<commands, started, grants, answered>>
    PROVE  WireInv'
<1>1. UNCHANGED <<registered, busy, pending, lock, caller>>
  BY Zenon DEF Quiet
<1>2. worker.op = started /\ commands = << >> /\ worker.op \in 1..MaxOps /\ Pending
  BY Zenon DEF WireInv, InFlight, Types, Pending
<1>3. Types'
  BY Zenon, <1>1, <1>2 DEF WireInv, Types
<1>4. \A e \in Events : events' = <<e>> => e.op = started /\ e.type # "result"
  <2>1. CASE events' = events
    BY Zenon, <2>1 DEF WireInv, InFlight, Working
  <2>2. ASSUME NEW f \in Events, events' = <<f>>, f.type = "auth", f.op = worker.op
        PROVE  \A e \in Events : events' = <<e>> => e.op = started /\ e.type # "result"
    <3>1. \A e \in Events : events' = <<e>> => e = f
      BY Zenon, <2>2, SingleFacts
    <3> QED
      BY Zenon, <1>2, <2>2, <3>1
  <2> QED
    BY Zenon, <2>1, <2>2
<1>5. (\A m : commands' # <<m>>) /\ commands' = << >>
  BY Zenon, <1>2, SingleFacts
<1>6. Alive /\ Alive'
  BY Zenon DEF Alive, Working
<1>7. InFlight'
  BY Zenon, <1>1, <1>2, <1>4, <1>5, <1>6 DEF WireInv, InFlight, Pending
<1> QED
  BY Zenon, <1>3, <1>7 DEF WireInv

\* The worker takes the command.
LEMMA TakeInv == ASSUME WireInv, Take PROVE WireInv'
<1> DEFINE m == Head(commands)
<1>1. /\ m \in Commands /\ commands = <<m>> /\ commands' = << >> /\ worker.pc = "recv"
  BY Zenon, ChannelFacts DEF WireInv, Take
<1>2. UNCHANGED <<registered, busy, pending, lock, caller, events, expired, started, writes, grants, answered>>
  BY Zenon DEF Take, Quiet, historyVars
<1>3. m.op = started /\ events = << >> /\ m.op \in 1..MaxOps /\ m.action \in Actions
  BY Zenon, <1>1 DEF WireInv, InFlight, Commands
<1>4. worker.reply = Nil /\ worker \in WorkerStates
  BY Zenon, <1>1 DEF WireInv, Granted, Types
<1> HIDE DEF m
<1> DEFINE w == [worker EXCEPT !.pc = "run", !.op = m.op, !.action = m.action, !.round = 0, !.granted = FALSE]
<1>5. m.op \in 0..MaxOps
  BY <1>3, BoundsAssumption
<1>6. /\ w \in WorkerStates /\ w.pc = "run" /\ w.op = m.op /\ w.reply = Nil /\ w.granted = FALSE
  BY Zenon, <1>3, <1>4, <1>5, NoWorkFacts DEF WorkerStates
<1>7. /\ Finish(w) \in WorkerStates /\ Finish(w).pc = "result" /\ Finish(w).op = m.op
      /\ Finish(w).reply = Nil /\ Finish(w).granted = FALSE
  <2> HIDE DEF w
  <2> QED
    BY Zenon, <1>6 DEF WorkerStates, Finish
<1>8. worker' = w \/ worker' = Finish(w)
  BY Zenon DEF Take, m
<1> HIDE DEF w
<1>9. /\ worker' \in WorkerStates /\ worker'.pc \in {"run", "result"} /\ worker'.op = started
      /\ worker'.reply = Nil /\ worker'.granted = FALSE
  BY Zenon, <1>3, <1>6, <1>7, <1>8
<1>10. Types'
  BY Zenon, <1>1, <1>2, <1>3, <1>9 DEF WireInv, Types
<1>11. Granted'
  BY Zenon, <1>2, <1>9, NilAssumption DEF WireInv, Granted, WritesAreGranted
<1>12. (\A k : commands' # <<k>>) /\ (\A e : events' # <<e>>) /\ commands # << >>
  BY Zenon, <1>1, <1>2, <1>3, SingleFacts
<1>13. Alive /\ Pending
  BY Zenon, <1>1, <1>12 DEF Alive, Pending
<1>14. InFlight'
  BY Zenon, <1>1, <1>2, <1>9, <1>12, <1>13 DEF WireInv, InFlight
<1> QED
  BY Zenon, <1>10, <1>11, <1>14 DEF WireInv

\* The worker asks the host.
LEMMA AskInv == ASSUME WireInv, Ask PROVE WireInv'
<1>1. /\ worker.pc = "run" /\ worker \in WorkerStates /\ worker.op \in 1..MaxOps /\ worker.reply = Nil
  BY Zenon DEF Ask, WireInv, Types, Granted, Working
<1>2. worker.round + 1 \in 1..MaxRounds /\ worker.round + 1 \in 0..MaxRounds
  BY <1>1, BoundsAssumption DEF Ask, WorkerStates
<1>3. /\ worker' \in WorkerStates /\ worker'.pc = "wait" /\ worker'.op = worker.op
      /\ worker'.reply = Nil /\ worker'.granted = worker.granted /\ worker'.round = worker.round + 1
  BY Zenon, <1>1, <1>2 DEF Ask, WorkerStates
<1>8. worker'.round # 0
  BY <1>1, <1>3 DEF WorkerStates
<1> DEFINE e == Auth(<<worker.op, worker.round + 1>>)
<1>4. events' = <<e>> /\ Quiet /\ UNCHANGED <<commands, expired, started, writes, grants, answered>>
  BY Zenon DEF Ask, historyVars
<1>5. e \in Events /\ e.type = "auth" /\ e.op = worker.op
  BY Zenon, <1>1, <1>2 DEF Auth, Events, Requests
<1> HIDE DEF e
<1>6. Granted'
  BY Zenon, <1>3, <1>4, <1>8, NilAssumption DEF WireInv, Granted, WritesAreGranted
<1>7. worker.pc \in Working /\ worker'.pc \in Working /\ expired' \subseteq Requests
  BY Zenon, <1>1, <1>3, <1>4 DEF Working, WireInv, Types
<1> QED
  BY Zenon, <1>3, <1>4, <1>5, <1>6, <1>7, WorkerStays

\* The worker finishes its operation without having written.
LEMMA FinishInv ==
    ASSUME WireInv, worker.pc \in Working, worker' = Finish(worker), Quiet,
           UNCHANGED <<commands, events, expired, historyVars>>
    PROVE  WireInv'
<1>1. UNCHANGED <<started, writes, grants, answered>>
  BY Zenon DEF historyVars
<1>2. /\ worker' \in WorkerStates /\ worker'.pc = "result" /\ worker'.op = worker.op
      /\ worker'.reply = Nil /\ worker'.granted = worker.granted
  BY Zenon DEF WireInv, Types, WorkerStates, Finish
<1>3. Granted'
  BY Zenon, <1>1, <1>2, NilAssumption DEF WireInv, Granted, WritesAreGranted
<1>4. worker'.pc \in Working /\ expired' \subseteq Requests
  BY Zenon, <1>2 DEF Working, WireInv, Types
<1> QED
  BY Zenon, <1>1, <1>2, <1>3, <1>4, WorkerStays

\* The worker has its answer.
LEMMA DecideInv == ASSUME WireInv, Decide PROVE WireInv'
<1>1. worker.pc = "wait" /\ worker.reply # Nil /\ worker.pc \in Working /\ Quiet
      /\ UNCHANGED <<commands, events, expired, historyVars>>
  BY Zenon DEF Decide, Working
<1>2. CASE worker' = Finish(worker)
  BY Zenon, <1>1, <1>2, FinishInv
<1>3. CASE worker' = [worker EXCEPT !.pc = "run", !.reply = Nil, !.granted = worker.reply]
  <2>1. worker \in WorkerStates /\ worker.reply \in BOOLEAN
    BY Zenon, <1>1 DEF WireInv, Types, WorkerStates
  <2>2. /\ worker' \in WorkerStates /\ worker'.pc = "run" /\ worker'.op = worker.op
        /\ worker'.reply = Nil /\ worker'.granted = worker.reply
    BY Zenon, <1>3, <2>1 DEF WorkerStates
  <2>3. worker.reply = TRUE => \E r \in grants.yes : r[1] = worker.op
    BY Zenon DEF WireInv, Granted, Request
  <2>4. UNCHANGED <<started, writes, grants, answered>>
    BY Zenon, <1>1 DEF historyVars
  <2>5. Granted'
    BY Zenon, <2>1, <2>2, <2>3, <2>4, NilAssumption DEF WireInv, Granted, WritesAreGranted
  <2>6. worker'.pc \in Working /\ expired' \subseteq Requests
    BY Zenon, <1>1, <2>2 DEF Working, WireInv, Types
  <2> QED
    BY ZenonT(30), <1>1, <2>2, <2>4, <2>5, <2>6, WorkerStays
<1> QED
  BY Zenon, <1>2, <1>3 DEF Decide

\* The operation is done, with its permission.
LEMMA RunInv == ASSUME WireInv, Run PROVE WireInv'
<1>1. worker.pc = "run" /\ worker.pc \in Working /\ worker \in WorkerStates /\ Quiet
      /\ UNCHANGED <<commands, events, expired, started, grants, answered>>
  BY Zenon DEF Run, Working, WireInv, Types
<1>2. Finish(worker) \in WorkerStates /\ Finish(worker).pc = "result" /\ Finish(worker).op = worker.op
      /\ Finish(worker).reply = Nil /\ Finish(worker).granted = worker.granted
      /\ Finish(worker).subscribed \in BOOLEAN
  BY Zenon, <1>1 DEF WorkerStates, Finish
<1>3. PICK b \in BOOLEAN : worker' = [Finish(worker) EXCEPT !.subscribed = b]
  BY Zenon, <1>2 DEF Run
<1>4. /\ worker' \in WorkerStates /\ worker'.pc = "result" /\ worker'.op = worker.op
      /\ worker'.reply = Nil /\ worker'.granted = worker.granted
  BY Zenon, <1>2, <1>3 DEF WorkerStates
<1>5. /\ writes' \subseteq writes \cup {worker.op}
      /\ worker.op \in writes' => worker.op \in writes \/ worker.granted
  BY Zenon DEF Run
<1>6. Granted'
  BY Zenon, <1>1, <1>4, <1>5, NilAssumption DEF WireInv, Granted, WritesAreGranted
<1>7. worker'.pc \in Working /\ expired' \subseteq Requests
  BY Zenon, <1>1, <1>4 DEF Working, WireInv, Types
<1> QED
  BY ZenonT(30), <1>1, <1>4, <1>5, <1>6, <1>7, WorkerStays

\* The result takes the place of the operation.
LEMMA SendResultInv == ASSUME WireInv, SendResult PROVE WireInv'
<1>1. /\ worker.pc = "result" /\ events = << >> /\ events' = <<Result(worker.op)>>
      /\ worker' = [NoWork EXCEPT !.subscribed = worker.subscribed]
      /\ UNCHANGED <<registered, busy, pending, lock, caller, commands, expired, started, writes, grants, answered>>
  BY Zenon DEF SendResult, Quiet, historyVars
<1>2. worker.op = started /\ commands = << >> /\ worker.op \in 1..MaxOps /\ Pending /\ Alive
  BY Zenon, <1>1 DEF WireInv, InFlight, Types, Pending, Working, Alive
<1>3. /\ worker' \in WorkerStates /\ worker'.pc = "recv" /\ worker'.reply = Nil /\ worker'.granted = FALSE
  <2>1. worker.subscribed \in BOOLEAN
    BY Zenon DEF WireInv, Types, WorkerStates
  <2> QED
    BY Zenon, <1>1, <2>1, NoWorkFacts DEF WorkerStates
<1>4. Result(worker.op) \in Events /\ Result(worker.op).op = worker.op
  BY Zenon, <1>2 DEF Result, Events
<1>5. Types'
  BY ZenonT(30), <1>1, <1>3, <1>4 DEF WireInv, Types, Working
<1>6. Granted'
  BY Zenon, <1>1, <1>3, NilAssumption DEF WireInv, Granted, WritesAreGranted
<1>7. (\A m : commands' # <<m>>) /\ (\A e : events' = <<e>> => e = Result(worker.op))
  BY ZenonT(30), <1>1, <1>2, SingleFacts
<1>8. worker'.pc \notin Working /\ Alive' /\ commands' = << >>
  BY Zenon, <1>1, <1>2, <1>3 DEF Working, Alive
<1>9. InFlight'
  BY ZenonT(30), <1>1, <1>2, <1>3, <1>4, <1>7, <1>8 DEF WireInv, InFlight
<1> QED
  BY Zenon, <1>5, <1>6, <1>9 DEF WireInv

\* The worker is gone; what is in the channels stays.
LEMMA AbortInv == ASSUME WireInv, Abort PROVE WireInv'
<1>1. /\ worker' = [NoWork EXCEPT !.pc = "dead"]
      /\ UNCHANGED <<registered, busy, pending, lock, caller, commands, events, expired, started, writes, grants, answered>>
  BY Zenon DEF Abort, handleVars, historyVars
<1>2. /\ worker' \in WorkerStates /\ worker'.pc = "dead" /\ worker'.reply = Nil /\ worker'.granted = FALSE
  BY Zenon, <1>1, NoWorkFacts DEF WorkerStates
<1>3. worker'.pc \notin Working /\ ~Alive'
  BY Zenon, <1>2 DEF Working, Alive
<1>4. Types'
  BY Zenon, <1>1, <1>2, <1>3 DEF WireInv, Types
<1>5. Granted'
  BY Zenon, <1>1, <1>2, NilAssumption DEF WireInv, Granted, WritesAreGranted
<1>6. Pending' => Pending
  BY Zenon, <1>1, <1>3 DEF Pending
<1>7. InFlight'
  BY Zenon, <1>1, <1>2, <1>3, <1>6 DEF WireInv, InFlight
<1> QED
  BY Zenon, <1>4, <1>5, <1>7 DEF WireInv

-----------------------------------------------------------------------------
\* Every step of the host's threads and of the worker keeps the invariant.
LEMMA WireStep == WireInv /\ [WireNext]_wireVars => WireInv'
<1> SUFFICES ASSUME WireInv, [WireNext]_wireVars PROVE WireInv'
  BY Zenon
<1>1. ASSUME NEW c \in Callers, StartOp(c) \/ (\E action \in Actions : Send(c, action))
      PROVE  WireInv'
  BY Zenon, <1>1, StartInv, SendInv
<1>2. ASSUME NEW c \in Callers,
             PollBusy(c) \/ PollPending(c) \/ PollLock(c) \/ PollTimeout(c) \/ PollClosed(c)
      PROVE  WireInv'
  <2>1. caller[c] # "send" /\ UNCHANGED <<registered, pending, commands, events, worker, expired, historyVars>>
    BY Zenon, <1>2 DEF PollBusy, PollPending, PollLock, PollTimeout, PollClosed, handleVars
  <2>2. busy' \in BOOLEAN /\ (busy' # busy => ~Alive)
    BY Zenon, <1>2 DEF PollBusy, PollPending, PollLock, PollTimeout, PollClosed, handleVars, WireInv, Types
  <2>3. CASE PollBusy(c) \/ PollPending(c)
    <3>1. PICK pc \in {"idle", "pollPending", "pollLock"} : caller' = [caller EXCEPT ![c] = pc]
      BY Zenon, <2>3 DEF PollBusy, PollPending
    <3>2. lock' = lock /\ caller[c] # "poll"
      BY Zenon, <2>3 DEF PollBusy, PollPending, handleVars
    <3>3. \A d \in Callers : caller'[d] = "poll" <=> lock' = d
      BY Zenon, <3>1, <3>2 DEF WireInv, Types
    <3>4. pc \in CallerStates \ {"send"}
      BY Zenon DEF CallerStates
    <3> QED
      BY Zenon, <2>1, <2>2, <3>1, <3>3, <3>4, PollStepInv
  <2>4. CASE PollLock(c)
    <3>1. PICK pc \in {"idle", "poll"} :
             /\ caller' = [caller EXCEPT ![c] = pc]
             /\ pc = "poll" => lock = Nil /\ lock' = c
             /\ pc = "idle" => lock # Nil /\ lock' = lock
      BY Zenon, <2>4 DEF PollLock
    <3>2. caller[c] = "pollLock"
      BY Zenon, <2>4 DEF PollLock
    <3>3. \A d \in Callers : caller'[d] = "poll" <=> lock' = d
      BY <3>1, <3>2, NilAssumption DEF WireInv, Types
    <3>4. pc \in CallerStates \ {"send"}
      BY Zenon DEF CallerStates
    <3> QED
      BY ZenonT(30), <2>1, <2>2, <3>1, <3>3, <3>4, PollStepInv
  <2>5. CASE PollTimeout(c) \/ PollClosed(c)
    <3>1. caller' = [caller EXCEPT ![c] = "idle"] /\ lock' = Nil /\ caller[c] = "poll"
      BY Zenon, <2>5 DEF PollTimeout, PollClosed, Unlock
    <3>2. \A d \in Callers : caller'[d] = "poll" <=> lock' = d
      BY Zenon, <3>1, NilAssumption DEF WireInv, Types
    <3>3. "idle" \in CallerStates \ {"send"}
      BY Zenon DEF CallerStates
    <3> QED
      BY ZenonT(30), <2>1, <2>2, <3>1, <3>2, <3>3, PollStepInv
  <2> QED
    BY Zenon, <1>2, <2>3, <2>4, <2>5
<1>3. ASSUME NEW c \in Callers, PollAuth(c) PROVE WireInv'
  <2>1. Head(events) \in Events /\ Head(events).type = "auth"
    BY Zenon, <1>3, ChannelFacts DEF PollAuth, WireInv
  <2>2. pending' \in Requests
    BY Zenon, <1>3, <2>1 DEF PollAuth, Events
  <2>3. grants'.yes = grants.yes /\ grants' \in [given : SUBSET Requests, yes : SUBSET Requests]
    BY Zenon, <1>3, <2>2 DEF PollAuth, WireInv, Types
  <2> QED
    BY Zenon, <1>3, <2>2, <2>3, PollTakesInv DEF PollAuth
<1>4. ASSUME NEW c \in Callers, PollResult(c) PROVE WireInv'
  BY Zenon, <1>4, PollTakesInv DEF PollResult, WireInv, Types
<1>5. ASSUME NEW r \in Requests, NEW yes \in BOOLEAN, Authorize(r, yes) PROVE WireInv'
  BY Zenon, <1>5, AuthorizeInv
<1>6. CASE Close \/ UNCHANGED wireVars
  <2>1. registered' \in BOOLEAN
        /\ UNCHANGED <<busy, pending, lock, commands, events, caller, worker, expired, started, writes, grants, answered>>
    BY Zenon, <1>6 DEF Close, wireVars, handleVars, historyVars, WireInv, Types
  <2>2. Types'
    BY Zenon, <2>1 DEF WireInv, Types
  <2>3. Granted'
    BY Zenon, <2>1, HostGranted DEF WireInv
  <2>4. InFlight'
    BY Zenon, <2>1 DEF WireInv, InFlight, Pending, Alive
  <2> QED
    BY Zenon, <2>2, <2>3, <2>4 DEF WireInv
<1>7. CASE Abort
  BY Zenon, <1>7, AbortInv
<1>8. CASE Take
  BY Zenon, <1>8, TakeInv
<1>9. CASE Ask
  BY Zenon, <1>9, AskInv
<1>10. CASE Expire
  <2>1. /\ worker.pc = "wait" /\ expired' = expired \cup {Request}
        /\ UNCHANGED <<worker, commands, events, started, writes, grants, answered>> /\ Quiet
    BY Zenon, <1>10 DEF Expire, handleVars, historyVars, Quiet
  <2>2. expired' \subseteq Requests
    <3>1. worker.op \in 1..MaxOps /\ worker.round \in 0..MaxRounds
      BY Zenon, <2>1 DEF WireInv, Types, Working, WorkerStates
    <3>2. worker.round # 0
      BY Zenon, <2>1 DEF WireInv, Granted
    <3> QED
      BY SMTT(30), <2>1, <3>1, <3>2, BoundsAssumption DEF Request, Requests, WireInv, Types
  <2>3. Granted'
    BY Zenon, <2>1, HostGranted DEF WireInv
  <2> QED
    BY Zenon, <2>1, <2>2, <2>3, WorkerStays DEF Working, WireInv, Types
<1>11. CASE Decide
  BY Zenon, <1>11, DecideInv
<1>12. CASE GiveUp \/ QueryTimeout \/ RunFails
  BY ZenonT(30), <1>12, FinishInv DEF GiveUp, QueryTimeout, RunFails, Working
<1>13. CASE Run
  BY Zenon, <1>13, RunInv
<1>14. CASE SendResult
  BY Zenon, <1>14, SendResultInv
<1> QED
  BY SMTT(30), <1>1, <1>2, <1>3, <1>4, <1>5, <1>6, <1>7, <1>8, <1>9, <1>10, <1>11, <1>12, <1>13, <1>14 DEF WireNext

\* An operation is granted only on an answer taken before its deadline: the
\* check of the clock after the answer (HostAuth::check_many) is enough.
THEOREM GrantsAreInTime == WireSpec => NoLateGrant
<1>1. WireInv /\ [WireNext]_wireVars => [worker'.granted /\ ~worker.granted => Request \notin expired]_wireVars
  <2> SUFFICES ASSUME WireInv, WireNext, worker'.granted, ~worker.granted PROVE Request \notin expired
    BY Zenon DEF wireVars
  <2>1. worker' # worker /\ worker \in WorkerStates /\ worker.granted = FALSE
    BY Zenon DEF WireInv, Types, WorkerStates
  <2>2. Finish(worker).granted = FALSE /\ Finish(worker) \in WorkerStates
    BY Zenon, <2>1 DEF Finish, WorkerStates
  <2>3. CASE Decide
    BY Zenon, <2>2, <2>3 DEF Decide
  <2>4. CASE GiveUp \/ QueryTimeout \/ RunFails
    BY Zenon, <2>2, <2>4 DEF GiveUp, QueryTimeout, RunFails
  <2>5. CASE Abort \/ SendResult
    <3>1. PICK b, d : worker' = [[NoWork EXCEPT !.pc = b] EXCEPT !.subscribed = d]
      BY Zenon, <2>5, NoWorkFacts DEF Abort, SendResult, NoWork
    <3> QED
      BY Zenon, <3>1 DEF NoWork
  <2>6. CASE Take
    <3>1. PICK a, b : LET w == [worker EXCEPT !.pc = "run", !.op = a, !.action = b, !.round = 0, !.granted = FALSE]
                      IN  worker' = w \/ worker' = Finish(w)
      BY Zenon, <2>6 DEF Take
    <3> QED
      BY Zenon, <2>1, <3>1 DEF Finish, WorkerStates
  <2>7. CASE Ask
    BY Zenon, <2>1, <2>7 DEF Ask, WorkerStates
  <2>8. CASE Run
    <3>1. PICK b : worker' = [Finish(worker) EXCEPT !.subscribed = b]
      BY Zenon, <2>8 DEF Run
    <3> QED
      BY Zenon, <2>2, <3>1 DEF WorkerStates
  <2>9. ASSUME NEW r \in Requests, NEW yes \in BOOLEAN, Authorize(r, yes) PROVE Request \notin expired
    BY Zenon, <2>1, <2>9 DEF Authorize, WorkerStates
  <2>10. ASSUME NEW c \in Callers, StartOp(c) \/ (\E action \in Actions : Send(c, action)) \/ PollBusy(c)
               \/ PollPending(c) \/ PollLock(c) \/ PollTimeout(c) \/ PollClosed(c) \/ PollAuth(c) \/ PollResult(c)
         PROVE Request \notin expired
    BY Zenon, <2>1, <2>10 DEF StartOp, Send, PollBusy, PollPending, PollLock, PollTimeout, PollClosed, PollAuth, PollResult
  <2>11. CASE Close \/ Expire
    BY Zenon, <2>1, <2>11 DEF Close, Expire
  <2> QED
    BY Zenon, <2>3, <2>4, <2>5, <2>6, <2>7, <2>8, <2>9, <2>10, <2>11 DEF WireNext
<1> QED
  BY <1>1, WireStart, WireStep, PTL DEF WireSpec, NoLateGrant

-----------------------------------------------------------------------------
(***************************************************************************)
(* The facts about numbers and finite sets, and the theorems that rest on  *)
(* them.                                                                   *)
(***************************************************************************)
\* The natural numbers are well ordered.
LEMMA Smallest == WellOrdered
<1> SUFFICES ASSUME NEW T \in SUBSET Nat, T # {} PROVE \E x \in T : \A y \in T : x <= y
  BY Zenon DEF WellOrdered
<1>1. PICK x \in T : \A y \in T : ~ (<<y, x>> \in OpToRel(<, Nat))
  BY Zenon, NatLessThanWellFounded, WFMin
<1>2. \A y \in T : ~(y < x)
  BY Zenon, <1>1 DEF OpToRel
<1> QED
  BY <1>2

\* A singleton has one member.
LEMMA SinglesHold == Singles
BY Zenon, FS_Singleton DEF Singles

\* A query whose answer is ready has seen every committed change before its
\* watermarks, or a newer version of the entity, or one that compaction has
\* hidden (query_snapshot, streaming/mod.rs): for any number of partitions,
\* entities and versions, any length of the log, any snapshot, and whatever
\* producers, compaction, retention and reconnections do meanwhile.
THEOREM QueriesFindEveryChange ==
    ASSUME Changes # {} PROVE Spec => []QueryFindsEveryChange
<1>1. IInv /\ [Next]_vars => IInv'
  BY Zenon, Smallest, StepInv
<1> QED
  BY <1>1, InitInv, InvImplies, PTL DEF Spec

\* What a query sees of an entity is a committed change from before its
\* watermarks, under the same assumptions.
THEOREM QueriesInventNothing ==
    ASSUME Changes # {} PROVE Spec => []QueryInventsNothing
<1>1. IInv /\ [Next]_vars => IInv'
  BY Zenon, Smallest, StepInv
<1> QED
  BY <1>1, InitInv, InvImplies, PTL DEF Spec

\* The handle runs one operation at a time (wire.rs): whatever is under way
\* belongs to the operation started last, whichever threads start, poll,
\* authorize and close, in any order.
THEOREM OneOperationAtATime == WireSpec => [](WireTypeOK /\ OneOperationOutstanding)
BY SinglesHold, WireStart, WireStep, WireImplies, PTL DEF WireSpec

\* Nothing is appended to the log without the host's yes to a request of that
\* operation, for any number of threads, operations and requests.
THEOREM EveryWriteIsGranted == WireSpec => []WritesAreGranted
BY SinglesHold, WireStart, WireStep, WireImplies, PTL DEF WireSpec

=============================================================================
