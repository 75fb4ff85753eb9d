----------------------- MODULE StreamSubscriptionSteps -----------------------
(***************************************************************************)
(* The inductive invariant of StreamSubscription, and the steps of the     *)
(* log, of subscribing and of next() that keep it, for any partitions,     *)
(* entities, log, limits and batch sizes. StreamSubscriptionProofs has the *)
(* other steps and the theorems.                                           *)
(***************************************************************************)
EXTENDS StreamSubscription, Integers, TLAPS

-----------------------------------------------------------------------------
(* Numbers and sequences *)

\* A set of natural numbers that is not empty has a smallest member: a fact of
\* WellFoundedInduction, which the lemmas below take as an assumption and the
\* end of this module proves.
WellOrdered == \A T \in SUBSET Nat : T # {} => \E x \in T : \A y \in T : x <= y

\* A sequence has a length, and its elements.
LEMMA SeqFacts ==
    ASSUME NEW S, NEW q \in Seq(S)
    PROVE  Len(q) \in Nat /\ \A i \in 1..Len(q) : q[i] \in S
  OBVIOUS

\* The first element of a sequence, and the others.
LEMMA HeadTail ==
    ASSUME NEW S, NEW q \in Seq(S), q # << >>
    PROVE  /\ Head(q) = q[1] /\ q[1] \in S /\ Tail(q) \in Seq(S)
           /\ Len(q) \in Nat /\ Len(q) >= 1 /\ Len(Tail(q)) = Len(q) - 1
           /\ \A i \in 1..Len(Tail(q)) : i + 1 \in 1..Len(q) /\ Tail(q)[i] = q[i + 1]
           /\ \A i \in 1..Len(q) : i > 1 => i - 1 \in 1..Len(Tail(q)) /\ q[i] = Tail(q)[i - 1]
<1>1. Len(q) \in Nat /\ Len(q) # 0
  OBVIOUS
<1>2. Head(q) = q[1] /\ Tail(q) \in Seq(S) /\ Len(Tail(q)) = Len(q) - 1
      /\ \A i \in 1..Len(Tail(q)) : Tail(q)[i] = q[i + 1]
  BY <1>1
<1>3. q[1] \in S
  BY <1>1
<1>4. \A i \in 1..Len(q) : i > 1 => i - 1 \in 1..Len(Tail(q)) /\ (i - 1) + 1 = i
  BY <1>1, <1>2
<1>5. \A i \in 1..Len(Tail(q)) : i + 1 \in 1..Len(q)
  BY <1>1, <1>2
<1>6. \A i \in 1..Len(q) : i > 1 => q[i] = Tail(q)[i - 1]
  BY Zenon, <1>2, <1>4
<1> QED
  BY <1>1, <1>2, <1>3, <1>4, <1>5, <1>6

\* A position in every partition is a number, and no further than itself.
LEMMA OffsetFacts ==
    ASSUME NEW off \in Offsets
    PROVE  \A p \in Partitions : off[p] \in Nat /\ off[p] <= off[p]
<1>1. \A p \in Partitions : off[p] \in Nat
  BY Zenon DEF Offsets
<1>2. \A n \in Nat : n <= n
  OBVIOUS
<1> QED
  BY Zenon, <1>1, <1>2

\* One more element.
LEMMA AppendOne ==
    ASSUME NEW S, NEW q \in Seq(S), NEW x \in S
    PROVE  /\ Append(q, x) \in Seq(S) /\ Len(q) \in Nat /\ Len(Append(q, x)) = Len(q) + 1
           /\ \A i \in 1..Len(q) : Append(q, x)[i] = q[i] /\ i \in 1..Len(Append(q, x))
           /\ Append(q, x)[Len(q) + 1] = x
           /\ \A i \in 1..Len(Append(q, x)) : i \in 1..Len(q) \/ i = Len(q) + 1
<1>1. Append(q, x) \in Seq(S) /\ Len(q) \in Nat /\ Len(Append(q, x)) = Len(q) + 1
  OBVIOUS
<1>2. (\A i \in 1..Len(q) : Append(q, x)[i] = q[i]) /\ Append(q, x)[Len(q) + 1] = x
  OBVIOUS
<1> QED
  BY <1>1, <1>2

-----------------------------------------------------------------------------
(* The log *)

LogOK == log \in [Partitions -> Seq(Changes)] /\ low \in Offsets

\* A change a reader finds, until retention takes it.
Live(p, o) == o \in Committed(p) /\ <<p, o>> \notin compacted

\* What a step of the log leaves of the offsets written before it.
Grows ==
    \A p \in Partitions :
        /\ Len(log[p]) <= Len(log'[p])
        /\ \A o \in 0..(Len(log[p]) - 1) : ChangeAt(p, o)' = ChangeAt(p, o)
        /\ \A o \in 0..(Len(log[p]) - 1) : o \in Committed(p)' <=> o \in Committed(p)
        /\ \A o \in Nat : <<p, o>> \in compacted => <<p, o>> \in compacted'

\* Offsets and lengths are numbers, committed changes are changes.
LEMMA LogFacts ==
    ASSUME LogOK, NEW p \in Partitions
    PROVE  /\ Len(log[p]) \in Nat /\ low[p] \in Nat
           /\ Committed(p) \subseteq 0..(Len(log[p]) - 1)
           /\ Readable(p) \subseteq Committed(p)
           /\ \A o \in 0..(Len(log[p]) - 1) : o \in Nat /\ o < Len(log[p]) /\ ChangeAt(p, o) \in Changes
           /\ \A o \in Committed(p) : o \in Nat /\ o < Len(log[p]) /\ ChangeAt(p, o) \in Changes
<1>1. log[p] \in Seq(Changes) /\ low[p] \in Nat /\ Len(log[p]) \in Nat
  BY DEF LogOK, Offsets
<1>2. \A o \in 0..(Len(log[p]) - 1) : o \in Nat /\ o < Len(log[p]) /\ o + 1 \in 1..Len(log[p])
  BY <1>1
<1>3. \A o \in 0..(Len(log[p]) - 1) : o \in Nat /\ o < Len(log[p]) /\ ChangeAt(p, o) \in Changes
  BY <1>1, <1>2 DEF ChangeAt
<1>4. Committed(p) \subseteq 0..(Len(log[p]) - 1) /\ Readable(p) \subseteq Committed(p)
  BY Zenon DEF Committed, Readable
<1> QED
  BY Zenon, <1>1, <1>3, <1>4

\* A producer appends a change, of a transaction that commits or not.
LEMMA AppendGrows ==
    ASSUME LogOK, NEW p \in Partitions, NEW c \in Changes, log' = [log EXCEPT ![p] = Append(@, c)],
           aborted' = aborted \/ aborted' = aborted \cup {<<p, Len(log[p])>>},
           UNCHANGED <<low, compacted>>
    PROVE  LogOK' /\ Grows
<1>1. \A s \in Partitions : log[s] \in Seq(Changes) /\ Len(log[s]) \in Nat
  BY DEF LogOK
<1>2. log' \in [Partitions -> Seq(Changes)]
  BY <1>1 DEF LogOK
<1>3. \A s \in Partitions : /\ Len(log'[s]) = IF s = p THEN Len(log[s]) + 1 ELSE Len(log[s])
                            /\ \A i \in 1..Len(log[s]) : log'[s][i] = log[s][i]
  BY <1>1 DEF LogOK
<1>4. \A s \in Partitions : /\ Len(log'[s]) \in Nat /\ Len(log[s]) <= Len(log'[s])
                            /\ \A o \in 0..(Len(log[s]) - 1) : o \in 0..(Len(log'[s]) - 1)
  BY <1>1, <1>3
<1>5. \A s \in Partitions : \A o \in 0..(Len(log[s]) - 1) : ChangeAt(s, o)' = ChangeAt(s, o)
  <2> TAKE s \in Partitions
  <2> TAKE o \in 0..(Len(log[s]) - 1)
  <2>1. o + 1 \in 1..Len(log[s])
    BY <1>1
  <2> QED
    BY Zenon, <1>3, <2>1 DEF ChangeAt
<1>6. \A s \in Partitions : \A o \in 0..(Len(log[s]) - 1) : <<s, o>> \in aborted' <=> <<s, o>> \in aborted
  <2> TAKE s \in Partitions
  <2> TAKE o \in 0..(Len(log[s]) - 1)
  <2>1. o \in Nat /\ Len(log[s]) \in Nat /\ o < Len(log[s])
    BY <1>1
  <2>2. <<s, o>> # <<p, Len(log[p])>>
    BY <2>1
  <2> QED
    BY Zenon, <2>2
<1>7. \A s \in Partitions : \A o \in 0..(Len(log[s]) - 1) : o \in Committed(s)' <=> o \in Committed(s)
  BY Zenon, <1>4, <1>6 DEF Committed
<1>8. Grows
  BY Zenon, <1>4, <1>5, <1>7 DEF Grows
<1> QED
  BY Zenon, <1>2, <1>8 DEF LogOK

\* Every step of the log.
LEMMA LogGrows == ASSUME LogOK, Changes # {}, LogNext PROVE LogOK' /\ Grows
<1> PICK p \in Partitions : \/ \E c \in Changes : Produce(p, c)
                            \/ ProduceAborted(p, CHOOSE c \in Changes : TRUE)
                            \/ Compact(p) \/ Retain(p)
  BY Zenon DEF LogNext
<1>1. ASSUME NEW c \in Changes, Produce(p, c) PROVE LogOK' /\ Grows
  BY Zenon, <1>1, AppendGrows DEF Produce
<1>2. CASE ProduceAborted(p, CHOOSE c \in Changes : TRUE)
  <2>1. PICK c \in Changes : ProduceAborted(p, c)
    BY Zenon, <1>2
  <2> QED
    BY Zenon, <2>1, AppendGrows DEF ProduceAborted
<1>3. ASSUME UNCHANGED <<log, aborted>>, low' \in Offsets, compacted \subseteq compacted'
      PROVE  LogOK' /\ Grows
  <2>1. \A s \in Partitions : Committed(s)' = Committed(s) /\ \A i : ChangeAt(s, i)' = ChangeAt(s, i)
    BY Zenon, <1>3 DEF Committed, ChangeAt
  <2> QED
    BY <1>3, <2>1, LogFacts DEF Grows, LogOK
<1>4. CASE Compact(p)
  <2>1. UNCHANGED <<log, aborted, low>> /\ compacted \subseteq compacted'
    BY Zenon, <1>4 DEF Compact
  <2> QED
    BY Zenon, <1>3, <2>1 DEF LogOK
<1>5. CASE Retain(p)
  <2>1. low' \in Offsets /\ UNCHANGED <<log, aborted, compacted>>
    BY <1>5 DEF Retain, LogOK, Offsets
  <2> QED
    BY Zenon, <1>3, <2>1
<1> QED
  BY Zenon, <1>1, <1>2, <1>4, <1>5

\* The offsets below a length the log has had are what they were.
LEMMA GrowFacts ==
    ASSUME LogOK, LogOK', Grows, NEW p \in Partitions
    PROVE  /\ Len(log[p]) \in Nat /\ Len(log'[p]) \in Nat /\ Len(log[p]) <= Len(log'[p])
           /\ \A o \in Nat : Live(p, o)' /\ o < Len(log[p]) => Live(p, o)
           /\ \A o \in Committed(p) : o \in Committed(p)' /\ ChangeAt(p, o)' = ChangeAt(p, o)
           /\ \A o \in Nat : o < Len(log[p]) => ChangeAt(p, o)' = ChangeAt(p, o)
<1>1. Len(log[p]) \in Nat /\ Len(log'[p]) \in Nat /\ Len(log[p]) <= Len(log'[p])
  BY DEF LogOK, Grows
<1>2. Committed(p) \subseteq 0..(Len(log[p]) - 1)
  BY Zenon DEF Committed
<1>3. \A o \in Nat : o < Len(log[p]) => o \in 0..(Len(log[p]) - 1)
  BY <1>1
<1> QED
  BY Zenon, <1>1, <1>2, <1>3 DEF Grows, Live

\* An item of a reader at the positions at: the next record it finds, or a
\* progress over offsets at which it finds none.
LEMMA YieldFacts ==
    ASSUME WellOrdered, LogOK, NEW at \in Offsets, NEW item \in Yields(at)
    PROVE  \E p \in Partitions :
              /\ at[p] \in Nat /\ low[p] <= at[p]
              /\ \/ \E o \in Readable(p) : /\ item = Record(p, o) /\ at[p] <= o
                                           /\ \A a \in Readable(p) : at[p] <= a => o <= a
                 \/ \E n \in Nat : /\ item = [partition |-> p, next_offset |-> n]
                                   /\ at[p] <= n /\ n <= Len(log[p])
                                   /\ \A a \in Readable(p) : ~(at[p] <= a)
<1> DEFINE Ahead(p) == {o \in Readable(p) : o >= at[p]}
           First(p) == CHOOSE o \in Ahead(p) : \A a \in Ahead(p) : o <= a
           Yielded(p) == IF at[p] < low[p] THEN {}
                         ELSE IF Ahead(p) # {} THEN {Record(p, First(p))}
                         ELSE {[partition |-> p, next_offset |-> o] : o \in (at[p] + 1)..Len(log[p])}
<1>1. Yields(at) = UNION {Yielded(p) : p \in Partitions}
  BY Zenon DEF Yields
<1> HIDE DEF Yielded
<1>2. PICK p \in Partitions : item \in Yielded(p)
  BY Zenon, <1>1
<1> USE DEF Yielded
<1>3. at[p] \in Nat /\ low[p] \in Nat /\ Len(log[p]) \in Nat /\ Readable(p) \subseteq Nat
  BY Zenon, LogFacts DEF Offsets
<1>4. low[p] <= at[p]
  BY <1>2, <1>3
<1>5. CASE Ahead(p) # {}
  <2>1. \E o \in Ahead(p) : \A a \in Ahead(p) : o <= a
    BY Zenon, <1>3, <1>5 DEF WellOrdered
  <2>2. First(p) \in Ahead(p) /\ \A a \in Ahead(p) : First(p) <= a
    BY Zenon, <2>1
  <2>3. item = Record(p, First(p))
    BY Zenon, <1>2, <1>3, <1>4, <1>5
  <2> HIDE DEF First
  <2> QED
    BY Zenon, <1>3, <1>4, <2>2, <2>3
<1>6. CASE Ahead(p) = {}
  <2>1. PICK n \in (at[p] + 1)..Len(log[p]) : item = [partition |-> p, next_offset |-> n]
    BY Zenon, <1>2, <1>3, <1>4, <1>6
  <2>2. n \in Nat /\ at[p] <= n /\ n <= Len(log[p])
    BY <1>3
  <2> QED
    BY Zenon, <1>3, <1>4, <1>6, <2>1, <2>2
<1> QED
  BY Zenon, <1>5, <1>6

-----------------------------------------------------------------------------
(* The items in hand *)

Records == [partition : Partitions, offset : Nat, change : Changes]
Progress == [partition : Partitions, next_offset : Nat]

\* Where an item ends: before it, in its partition, is every offset below.
Reach(item) == IF IsRecord(item) THEN item.offset ELSE item.next_offset
\* An item says what the log holds.
Real(item) ==
    IF IsRecord(item)
    THEN /\ item.offset \in Committed(item.partition)
         /\ item.change = ChangeAt(item.partition, item.offset)
    ELSE item.next_offset <= Len(log[item.partition])

\* The record of an offset is in hand: it is pending, or one of the first n of
\* those buffered.
InHand(pending, buffered, n, p, o) ==
    \/ pending = Record(p, o)
    \/ \E j \in 1..n : buffered[j] = Record(p, o)

\* Nothing between the cursor and an item in hand, or between the cursor and
\* the reader, is missing: it is in hand, before the item.
First(offsets, r) ==
    \A o \in Nat : Live(r.partition, o) /\ offsets[r.partition] <= o => r.offset <= o
Follows(offsets, pending, buffered, i) ==
    \A o \in Nat :
        Live(buffered[i].partition, o) /\ offsets[buffered[i].partition] <= o /\ o < Reach(buffered[i])
            => InHand(pending, buffered, i - 1, buffered[i].partition, o)
ReadUpTo(offsets, pending, buffered, at) ==
    \A p \in Partitions : \A o \in Nat :
        Live(p, o) /\ offsets[p] <= o /\ o < at[p] => InHand(pending, buffered, Len(buffered), p, o)
Ordered(offsets, pending, buffered, at) ==
    /\ pending # None => Real(pending) /\ First(offsets, pending)
    /\ \A i \in 1..Len(buffered) : Real(buffered[i]) /\ Follows(offsets, pending, buffered, i)
    /\ ReadUpTo(offsets, pending, buffered, at)

\* Records and progress are told apart.
LEMMA ItemKinds ==
    /\ \A r \in Records : IsRecord(r) /\ r \notin Progress /\ r # None
    /\ \A g \in Progress : ~IsRecord(g) /\ g \notin Records /\ g # None
    /\ Items = Records \cup Progress
<1>1. \A r \in Records : DOMAIN r = {"partition", "offset", "change"}
  BY Zenon DEF Records
<1>2. \A g \in Progress : DOMAIN g = {"partition", "next_offset"}
  BY Zenon DEF Progress
<1>3. \A r \in Records : IsRecord(r)
  BY Zenon, <1>1 DEF IsRecord
<1>4. \A g \in Progress : ~IsRecord(g)
  BY <1>2 DEF IsRecord
<1>5. Items = Records \cup Progress
  BY Zenon DEF Items, Records, Progress
<1>6. \A x \in Items : x # None
  BY Zenon, NoneAssumption
<1> QED
  BY Zenon, <1>3, <1>4, <1>5, <1>6

\* The record of a committed offset.
LEMMA RecordFacts ==
    ASSUME LogOK, NEW p \in Partitions, NEW o \in Committed(p)
    PROVE  /\ Record(p, o) \in Records
           /\ Record(p, o).partition = p /\ Record(p, o).offset = o /\ Record(p, o).change = ChangeAt(p, o)
  BY Zenon, LogFacts DEF Record, Records

\* Real items.
LEMMA RealFacts ==
    ASSUME LogOK
    PROVE  /\ \A r \in Records : Real(r) =>
                 /\ r.partition \in Partitions /\ r.offset \in Committed(r.partition) /\ r.offset \in Nat
                 /\ r.change = ChangeAt(r.partition, r.offset) /\ r = Record(r.partition, r.offset)
                 /\ Reach(r) = r.offset
           /\ \A g \in Progress : /\ Reach(g) = g.next_offset /\ g.next_offset \in Nat /\ g.partition \in Partitions
                                  /\ Real(g) <=> g.next_offset <= Len(log[g.partition])
<1>1. \A r \in Records : /\ r = [partition |-> r.partition, offset |-> r.offset, change |-> r.change]
                         /\ r.partition \in Partitions /\ r.offset \in Nat
  BY DEF Records
<1>2. \A g \in Progress : g.next_offset \in Nat /\ g.partition \in Partitions
  BY Zenon DEF Progress
<1> QED
  BY Zenon, <1>1, <1>2, ItemKinds DEF Real, Reach, Record

\* The cursor moves over the pending record.
LEMMA DropPending ==
    ASSUME LogOK, NEW off \in Offsets, NEW new \in Offsets, NEW r \in Records, NEW at \in Offsets,
           NEW b \in Seq(Records \cup Progress), Ordered(off, r, b, at),
           \A p \in Partitions : off[p] <= new[p], r.offset < new[r.partition]
    PROVE  Ordered(new, None, b, at)
<1>1. \A p \in Partitions : off[p] \in Nat /\ new[p] \in Nat
  BY Zenon DEF Offsets
<1>2. r # None /\ Real(r)
  BY Zenon, ItemKinds DEF Ordered
<1>3. ASSUME NEW p \in Partitions, NEW o \in Nat, Live(p, o), new[p] <= o, NEW n, InHand(r, b, n, p, o)
      PROVE  InHand(None, b, n, p, o)
  <2>1. r # Record(p, o)
    <3>1. o \in Committed(p)
      BY Zenon, <1>3 DEF Live
    <3>2. Record(p, o).partition = p /\ Record(p, o).offset = o
      BY Zenon, <3>1, RecordFacts
    <3>3. r.partition = p => r.offset < new[p]
      BY Zenon
    <3>4. r.offset \in Nat
      BY Zenon DEF Records
    <3> QED
      BY <1>1, <1>3, <3>2, <3>3, <3>4
  <2> QED
    BY Zenon, <1>3, <2>1 DEF InHand
<1>4. \A i \in 1..Len(b) : b[i].partition \in Partitions
  BY DEF Records, Progress
<1>5. ASSUME NEW i \in 1..Len(b) PROVE Real(b[i]) /\ Follows(new, None, b, i)
  <2>1. Real(b[i]) /\ Follows(off, r, b, i)
    BY Zenon DEF Ordered
  <2>2. SUFFICES ASSUME NEW o \in Nat, Live(b[i].partition, o), new[b[i].partition] <= o, o < Reach(b[i])
                 PROVE  InHand(None, b, i - 1, b[i].partition, o)
    BY Zenon, <2>1, <2>2 DEF Follows
  <2>3. off[b[i].partition] <= o
    BY <1>1, <1>4, <2>2
  <2>4. InHand(r, b, i - 1, b[i].partition, o)
    BY Zenon, <2>1, <2>2, <2>3 DEF Follows
  <2> QED
    BY Zenon, <1>3, <1>4, <2>2, <2>4
<1>6. ReadUpTo(new, None, b, at)
  <2> SUFFICES ASSUME NEW p \in Partitions, NEW o \in Nat, Live(p, o), new[p] <= o, o < at[p]
               PROVE  InHand(None, b, Len(b), p, o)
    BY Zenon DEF ReadUpTo
  <2>1. off[p] <= o
    BY <1>1
  <2>2. InHand(r, b, Len(b), p, o)
    BY Zenon, <2>1 DEF Ordered, ReadUpTo
  <2> QED
    BY Zenon, <1>3, <2>2
<1> QED
  BY Zenon, <1>5, <1>6 DEF Ordered

\* The first of the buffered items, a record, is taken in hand.
LEMMA TakeHead ==
    ASSUME LogOK, NEW off \in Offsets, NEW at \in Offsets, NEW b \in Seq(Records \cup Progress), b # << >>,
           Ordered(off, None, b, at), Head(b) \in Records
    PROVE  Ordered(off, Head(b), Tail(b), at)
<1> DEFINE r == Head(b)
           t == Tail(b)
<1>1. /\ r = b[1] /\ t \in Seq(Records \cup Progress) /\ Len(b) \in Nat /\ Len(b) >= 1 /\ Len(t) = Len(b) - 1
      /\ \A i \in 1..Len(t) : i + 1 \in 1..Len(b) /\ t[i] = b[i + 1]
      /\ \A i \in 1..Len(b) : i > 1 => i - 1 \in 1..Len(t) /\ b[i] = t[i - 1]
  BY Zenon, HeadTail
<1> HIDE DEF r, t
<1>2. Real(b[1]) /\ Follows(off, None, b, 1)
  BY <1>1 DEF Ordered
<1>3. ASSUME NEW p, NEW o, NEW n \in 0..(Len(b) - 1), InHand(None, b, n + 1, p, o), Record(p, o) \in Records
      PROVE  InHand(r, t, n, p, o)
  <2>1. PICK j \in 1..(n + 1) : b[j] = Record(p, o)
    BY Zenon, <1>3, ItemKinds DEF InHand
  <2>2. CASE j = 1
    BY Zenon, <1>1, <2>1, <2>2 DEF InHand
  <2>3. CASE j # 1
    <3>1. j \in 1..Len(b) /\ j > 1 /\ j - 1 \in 1..n
      BY <1>1, <2>3
    <3> QED
      BY Zenon, <1>1, <2>1, <3>1 DEF InHand
  <2> QED
    BY Zenon, <2>2, <2>3
<1>4. \A p \in Partitions : \A o \in Nat : Live(p, o) => Record(p, o) \in Records
  BY Zenon, RecordFacts DEF Live
<1>5. Real(r) /\ First(off, r)
  <2>1. r.offset \in Nat /\ Reach(r) = r.offset /\ Real(r) /\ r.partition \in Partitions
    BY Zenon, <1>1, <1>2, RealFacts DEF r
  <2> SUFFICES ASSUME NEW o \in Nat, Live(r.partition, o), off[r.partition] <= o, ~(r.offset <= o)
               PROVE  FALSE
    BY Zenon, <2>1 DEF First
  <2>2. o < Reach(b[1])
    BY <1>1, <2>1
  <2>3. InHand(None, b, 1 - 1, r.partition, o)
    BY Zenon, <1>1, <1>2, <2>2 DEF Follows
  <2>4. Record(r.partition, o) # None
    BY Zenon, <1>4, <2>1, ItemKinds
  <2> QED
    BY <2>3, <2>4 DEF InHand
<1>6. \A i \in 1..Len(b) : b[i].partition \in Partitions
  BY DEF Records, Progress
<1>7. ASSUME NEW i \in 1..Len(t) PROVE Real(t[i]) /\ Follows(off, r, t, i)
  <2>1. i + 1 \in 1..Len(b) /\ t[i] = b[i + 1] /\ (i + 1) - 1 = i /\ i - 1 \in 0..(Len(b) - 1) /\ i = (i - 1) + 1
    BY <1>1
  <2>2. Real(b[i + 1]) /\ Follows(off, None, b, i + 1)
    BY Zenon, <2>1 DEF Ordered
  <2> SUFFICES ASSUME NEW o \in Nat, Live(t[i].partition, o), off[t[i].partition] <= o, o < Reach(t[i])
               PROVE  InHand(r, t, i - 1, t[i].partition, o)
    BY Zenon, <2>1, <2>2 DEF Follows
  <2>3. InHand(None, b, i, t[i].partition, o)
    BY SMTT(30), <2>1, <2>2 DEF Follows
  <2>4. Record(t[i].partition, o) \in Records
    BY SMTT(30), <1>4, <1>6, <2>1
  <2>5. InHand(None, b, (i - 1) + 1, t[i].partition, o)
    BY Zenon, <2>1, <2>3
  <2> QED
    BY Zenon, <1>3, <2>1, <2>4, <2>5
<1>8. ReadUpTo(off, r, t, at)
  <2> SUFFICES ASSUME NEW p \in Partitions, NEW o \in Nat, Live(p, o), off[p] <= o, o < at[p]
               PROVE  InHand(r, t, Len(t), p, o)
    BY Zenon DEF ReadUpTo
  <2>1. InHand(None, b, Len(b), p, o)
    BY Zenon DEF Ordered, ReadUpTo
  <2>2. Len(t) \in 0..(Len(b) - 1) /\ Len(b) = Len(t) + 1
    BY <1>1
  <2> QED
    BY Zenon, <1>3, <1>4, <2>1, <2>2
<1> QED
  BY Zenon, <1>5, <1>7, <1>8 DEF Ordered, r, t

\* The first of the buffered items, a progress, is dropped and the cursor moves
\* at least as far.
LEMMA DropProgress ==
    ASSUME LogOK, NEW off \in Offsets, NEW new \in Offsets, NEW at \in Offsets,
           NEW b \in Seq(Records \cup Progress), b # << >>,
           Ordered(off, None, b, at), Head(b) \in Progress, \A p \in Partitions : off[p] <= new[p]
    PROVE  Ordered(new, None, Tail(b), at)
<1> DEFINE t == Tail(b)
<1>1. /\ Head(b) = b[1] /\ t \in Seq(Records \cup Progress) /\ Len(b) \in Nat /\ Len(b) >= 1 /\ Len(t) = Len(b) - 1
      /\ \A i \in 1..Len(t) : i + 1 \in 1..Len(b) /\ t[i] = b[i + 1]
      /\ \A i \in 1..Len(b) : i > 1 => i - 1 \in 1..Len(t) /\ b[i] = t[i - 1]
  BY Zenon, HeadTail
<1> HIDE DEF t
<1>2. \A p \in Partitions : off[p] \in Nat /\ new[p] \in Nat
  BY Zenon DEF Offsets
<1>3. ASSUME NEW p, NEW o, NEW n \in 0..(Len(b) - 1), InHand(None, b, n + 1, p, o), Record(p, o) \in Records
      PROVE  InHand(None, t, n, p, o)
  <2>1. PICK j \in 1..(n + 1) : b[j] = Record(p, o)
    BY Zenon, <1>3, ItemKinds DEF InHand
  <2>2. j # 1
    BY Zenon, <1>1, <1>3, <2>1, ItemKinds
  <2>3. j \in 1..Len(b) /\ j > 1 /\ j - 1 \in 1..n
    BY <1>1, <2>2
  <2> QED
    BY Zenon, <1>1, <2>1, <2>3 DEF InHand
<1>4. \A p \in Partitions : \A o \in Nat : Live(p, o) => Record(p, o) \in Records
  BY Zenon, RecordFacts DEF Live
<1>6. \A i \in 1..Len(b) : b[i].partition \in Partitions
  BY DEF Records, Progress
<1>7. ASSUME NEW i \in 1..Len(t) PROVE Real(t[i]) /\ Follows(new, None, t, i)
  <2>1. i + 1 \in 1..Len(b) /\ t[i] = b[i + 1] /\ (i + 1) - 1 = i /\ i - 1 \in 0..(Len(b) - 1) /\ i = (i - 1) + 1
    BY <1>1
  <2>2. Real(b[i + 1]) /\ Follows(off, None, b, i + 1)
    BY Zenon, <2>1 DEF Ordered
  <2> SUFFICES ASSUME NEW o \in Nat, Live(t[i].partition, o), new[t[i].partition] <= o, o < Reach(t[i])
               PROVE  InHand(None, t, i - 1, t[i].partition, o)
    BY Zenon, <2>1, <2>2 DEF Follows
  <2>6. off[t[i].partition] <= o
    BY <1>2, <1>6, <2>1
  <2>3. InHand(None, b, i, t[i].partition, o)
    BY Zenon, <2>1, <2>2, <2>6 DEF Follows
  <2>4. Record(t[i].partition, o) \in Records
    BY Zenon, <1>4, <1>6, <2>1
  <2>5. InHand(None, b, (i - 1) + 1, t[i].partition, o)
    BY Zenon, <2>1, <2>3
  <2> QED
    BY Zenon, <1>3, <2>1, <2>4, <2>5
<1>8. ReadUpTo(new, None, t, at)
  <2> SUFFICES ASSUME NEW p \in Partitions, NEW o \in Nat, Live(p, o), new[p] <= o, o < at[p]
               PROVE  InHand(None, t, Len(t), p, o)
    BY Zenon DEF ReadUpTo
  <2>3. off[p] <= o
    BY <1>2
  <2>1. InHand(None, b, Len(b), p, o)
    BY Zenon, <2>3 DEF Ordered, ReadUpTo
  <2>2. Len(t) \in 0..(Len(b) - 1) /\ Len(b) = Len(t) + 1
    BY <1>1
  <2> QED
    BY Zenon, <1>3, <1>4, <2>1, <2>2
<1> QED
  BY Zenon, <1>7, <1>8 DEF Ordered, t

\* The pending record goes back to the front of the buffered items.
LEMMA PutBack ==
    ASSUME LogOK, NEW off \in Offsets, NEW at \in Offsets, NEW r \in Records,
           NEW b \in Seq(Records \cup Progress), Ordered(off, r, b, at)
    PROVE  <<r>> \o b \in Seq(Records \cup Progress) /\ Ordered(off, None, <<r>> \o b, at)
<1> DEFINE t == <<r>> \o b
<1>1. /\ t \in Seq(Records \cup Progress) /\ Len(b) \in Nat /\ Len(t) = Len(b) + 1 /\ t[1] = r
      /\ \A i \in 1..Len(t) : i # 1 => i - 1 \in 1..Len(b) /\ t[i] = b[i - 1]
      /\ \A i \in 1..Len(b) : i + 1 \in 1..Len(t) /\ t[i + 1] = b[i]
  <2>1. <<r>> \in Seq(Records \cup Progress) /\ Len(<<r>>) = 1 /\ <<r>>[1] = r /\ Len(b) \in Nat
    BY SeqFacts
  <2>2. t \in Seq(Records \cup Progress) /\ Len(t) = 1 + Len(b)
        /\ \A i \in 1..(1 + Len(b)) : t[i] = IF i <= 1 THEN <<r>>[i] ELSE b[i - 1]
    BY <2>1
  <2> HIDE DEF t
  <2>3. \A i \in 1..Len(t) : i # 1 => i - 1 \in 1..Len(b) /\ t[i] = b[i - 1]
    BY <2>1, <2>2
  <2>4. \A i \in 1..Len(b) : i + 1 \in 1..Len(t) /\ (i + 1) - 1 = i /\ i + 1 # 1
    BY <2>1, <2>2
  <2>5. \A i \in 1..Len(b) : t[i + 1] = b[i]
    BY Zenon, <2>3, <2>4
  <2>6. t[1] = r
    BY <2>1, <2>2
  <2> QED
    BY <2>1, <2>2, <2>3, <2>4, <2>5, <2>6
<1> HIDE DEF t
<1>2. r # None /\ Real(r) /\ First(off, r)
  BY Zenon, ItemKinds DEF Ordered
<1>3. ASSUME NEW p, NEW o, NEW n \in 0..Len(b), InHand(r, b, n, p, o)
      PROVE  InHand(None, t, n + 1, p, o)
  <2>1. CASE r = Record(p, o)
    <3>1. 1 \in 1..(n + 1)
      OBVIOUS
    <3> QED
      BY Zenon, <1>1, <2>1, <3>1 DEF InHand
  <2>2. ASSUME NEW j \in 1..n, b[j] = Record(p, o) PROVE InHand(None, t, n + 1, p, o)
    <3>1. j \in 1..Len(b) /\ j + 1 \in 1..(n + 1)
      BY <1>1
    <3>2. t[j + 1] = Record(p, o)
      BY Zenon, <1>1, <2>2, <3>1
    <3> QED
      BY Zenon, <3>1, <3>2 DEF InHand
  <2> QED
    BY Zenon, <1>3, <2>1, <2>2 DEF InHand
<1>4. ASSUME NEW i \in 1..Len(t) PROVE Real(t[i]) /\ Follows(off, None, t, i)
  <2>1. CASE i = 1
    <3>1. r.partition \in Partitions /\ Reach(r) = r.offset /\ r.offset \in Nat
      BY Zenon, <1>2, RealFacts
    <3>2. \A o \in Nat : ~(Live(r.partition, o) /\ off[r.partition] <= o /\ o < Reach(r))
      BY <1>2, <3>1 DEF First
    <3> QED
      BY Zenon, <1>1, <1>2, <2>1, <3>2 DEF Follows
  <2>2. CASE i # 1
    <3>1. i - 1 \in 1..Len(b) /\ t[i] = b[i - 1] /\ (i - 1) - 1 \in 0..Len(b) /\ ((i - 1) - 1) + 1 = i - 1
      BY <1>1, <2>2
    <3>2. Real(b[i - 1]) /\ Follows(off, r, b, i - 1)
      BY Zenon, <3>1 DEF Ordered
    <3> SUFFICES ASSUME NEW o \in Nat, Live(t[i].partition, o), off[t[i].partition] <= o, o < Reach(t[i])
                 PROVE  InHand(None, t, i - 1, t[i].partition, o)
      BY Zenon, <3>1, <3>2 DEF Follows
    <3>3. InHand(r, b, (i - 1) - 1, t[i].partition, o)
      BY Zenon, <3>1, <3>2 DEF Follows
    <3>4. InHand(None, t, ((i - 1) - 1) + 1, t[i].partition, o)
      BY Zenon, <1>3, <3>1, <3>3
    <3> QED
      BY Zenon, <3>1, <3>4
  <2> QED
    BY Zenon, <2>1, <2>2
<1>5. ReadUpTo(off, None, t, at)
  <2> SUFFICES ASSUME NEW p \in Partitions, NEW o \in Nat, Live(p, o), off[p] <= o, o < at[p]
               PROVE  InHand(None, t, Len(t), p, o)
    BY Zenon DEF ReadUpTo
  <2>1. InHand(r, b, Len(b), p, o)
    BY Zenon DEF Ordered, ReadUpTo
  <2> QED
    BY <1>1, <1>3, <2>1
<1> QED
  BY Zenon, <1>1, <1>4, <1>5 DEF Ordered, t

\* The reader yields an item, which is put behind the buffered ones.
LEMMA TakeYielded ==
    ASSUME WellOrdered, LogOK, NEW off \in Offsets, NEW at \in Offsets, NEW b \in Seq(Records \cup Progress),
           Ordered(off, None, b, at), NEW item \in Yields(at)
    PROVE  /\ item \in Records \cup Progress
           /\ After(at, item) \in Offsets
           /\ \A p \in Partitions : at[p] <= Len(log[p]) => After(at, item)[p] <= Len(log[p])
           /\ Append(b, item) \in Seq(Records \cup Progress)
           /\ Ordered(off, None, Append(b, item), After(at, item))
<1>1. PICK p \in Partitions :
              /\ at[p] \in Nat /\ low[p] <= at[p]
              /\ \/ \E o \in Readable(p) : /\ item = Record(p, o) /\ at[p] <= o
                                           /\ \A a \in Readable(p) : at[p] <= a => o <= a
                 \/ \E n \in Nat : /\ item = [partition |-> p, next_offset |-> n]
                                   /\ at[p] <= n /\ n <= Len(log[p])
                                   /\ \A a \in Readable(p) : ~(at[p] <= a)
  BY Zenon, YieldFacts
<1> DEFINE t == Append(b, item)
           to == After(at, item)
           Moves(m) == /\ m \in Nat /\ at[p] <= m /\ m <= Len(log[p]) /\ to = [at EXCEPT ![p] = m]
                       /\ item \in Records \cup Progress /\ item.partition = p /\ Real(item)
                       /\ Reach(item) <= m /\ Reach(item) \in Nat
                       /\ \A o \in Nat : Live(p, o) /\ at[p] <= o /\ o < m => item = Record(p, o)
                       /\ \A o \in Nat : Live(p, o) /\ at[p] <= o => ~(o < Reach(item))
<1>2. \A o \in Nat : Live(p, o) /\ at[p] <= o => o \in Readable(p)
  BY <1>1, LogFacts DEF Live, Readable
<1>3. \E m : Moves(m)
  <2>1. ASSUME NEW o \in Readable(p), item = Record(p, o), at[p] <= o,
               \A a \in Readable(p) : at[p] <= a => o <= a
        PROVE  Moves(o + 1)
    <3>1. o \in Committed(p) /\ o \in Nat /\ o < Len(log[p]) /\ Len(log[p]) \in Nat
      BY Zenon, LogFacts
    <3>2. /\ item \in Records /\ item.partition = p /\ item.offset = o /\ item.change = ChangeAt(p, o)
      BY Zenon, <2>1, <3>1, RecordFacts
    <3>3. IsRecord(item)
      BY Zenon, <3>2, ItemKinds
    <3>4. to = [at EXCEPT ![p] = o + 1]
      BY Zenon, <3>2, <3>3 DEF After
    <3>5. Real(item) /\ Reach(item) = o
      BY Zenon, <3>1, <3>2, <3>3 DEF Real, Reach
    <3>6. o + 1 \in Nat /\ at[p] <= o + 1 /\ o + 1 <= Len(log[p]) /\ o <= o + 1
      BY <1>1, <2>1, <3>1
    <3>7. ASSUME NEW a \in Nat, Live(p, a), at[p] <= a PROVE ~(a < o) /\ (a < o + 1 => a = o)
      <4>1. o <= a
        BY Zenon, <1>2, <2>1, <3>7
      <4> QED
        BY <3>1, <4>1
    <3>8. /\ \A a \in Nat : Live(p, a) /\ at[p] <= a /\ a < o + 1 => item = Record(p, a)
          /\ \A a \in Nat : Live(p, a) /\ at[p] <= a => ~(a < Reach(item))
      BY Zenon, <2>1, <3>5, <3>7
    <3>9. Reach(item) <= o + 1 /\ Reach(item) \in Nat
      BY <3>1, <3>5
    <3> QED
      BY Zenon, <3>2, <3>4, <3>5, <3>6, <3>8, <3>9
  <2>2. ASSUME NEW n \in Nat, item = [partition |-> p, next_offset |-> n], at[p] <= n, n <= Len(log[p]),
               \A a \in Readable(p) : ~(at[p] <= a)
        PROVE  Moves(n)
    <3>2. item \in Progress /\ item.partition = p /\ item.next_offset = n
      BY Zenon, <2>2 DEF Progress
    <3>3. ~IsRecord(item)
      BY Zenon, <3>2, ItemKinds
    <3>4. to = [at EXCEPT ![p] = n]
      BY Zenon, <3>2, <3>3 DEF After
    <3>5. Real(item) /\ Reach(item) = n
      BY Zenon, <2>2, <3>2, <3>3 DEF Real, Reach
    <3>7. \A a \in Nat : ~(Live(p, a) /\ at[p] <= a)
      BY Zenon, <1>2, <2>2
    <3> QED
      BY <2>2, <3>2, <3>4, <3>5, <3>7
  <2> QED
    BY Zenon, <1>1, <2>1, <2>2
<1> HIDE DEF Moves
<1>4. PICK m : Moves(m)
  BY Zenon, <1>3
<1> USE DEF Moves
<1>5. /\ item \in Records \cup Progress /\ to \in Offsets /\ to[p] = m
      /\ \A s \in Partitions : s # p => to[s] = at[s]
  BY Zenon, <1>4 DEF Offsets
<1>6. /\ t \in Seq(Records \cup Progress) /\ Len(b) \in Nat /\ Len(t) = Len(b) + 1
      /\ \A i \in 1..Len(b) : t[i] = b[i] /\ i \in 1..Len(t)
      /\ t[Len(b) + 1] = item
      /\ \A i \in 1..Len(t) : i \in 1..Len(b) \/ i = Len(b) + 1
  BY Zenon, <1>5, AppendOne
<1>7. \A s \in Partitions : \A o, n : n \in 0..Len(b) /\ InHand(None, b, n, s, o) => InHand(None, t, n, s, o)
  <2>1. \A n \in 0..Len(b) : \A j \in 1..n : t[j] = b[j]
    BY <1>6
  <2> QED
    BY Zenon, <2>1 DEF InHand
<1> HIDE DEF t, to
<1>8. ASSUME NEW s \in Partitions, NEW o \in Nat, Live(s, o), off[s] <= o, o < at[s]
      PROVE  InHand(None, t, Len(b), s, o)
  <2>1. InHand(None, b, Len(b), s, o)
    BY Zenon, <1>8 DEF Ordered, ReadUpTo
  <2> QED
    BY <1>6, <1>7, <2>1
<1>9. \A s \in Partitions : at[s] \in Nat
  BY Zenon DEF Offsets
<1>10. ASSUME NEW i \in 1..Len(t) PROVE Real(t[i]) /\ Follows(off, None, t, i)
  <2>1. CASE i \in 1..Len(b)
    <3>1. Real(b[i]) /\ Follows(off, None, b, i) /\ t[i] = b[i] /\ i - 1 \in 0..Len(b)
      BY <1>6, <2>1 DEF Ordered
    <3>2. b[i].partition \in Partitions
      BY <2>1 DEF Records, Progress
    <3> QED
      BY Zenon, <1>7, <3>1, <3>2 DEF Follows
  <2>2. CASE i = Len(b) + 1
    <3>1. t[i] = item /\ i - 1 = Len(b)
      BY <1>6, <2>2
    <3> SUFFICES ASSUME NEW o \in Nat, Live(p, o), off[p] <= o, o < Reach(item)
                 PROVE  InHand(None, t, Len(b), p, o)
      BY Zenon, <1>4, <3>1 DEF Follows
    <3>2. o < at[p]
      BY <1>4, <1>9
    <3> QED
      BY Zenon, <1>8, <3>2
  <2> QED
    BY Zenon, <1>6, <2>1, <2>2
<1>11. ReadUpTo(off, None, t, to)
  <2> SUFFICES ASSUME NEW s \in Partitions, NEW o \in Nat, Live(s, o), off[s] <= o, o < to[s]
               PROVE  InHand(None, t, Len(t), s, o)
    BY Zenon DEF ReadUpTo
  <2>1. CASE o < at[s]
    <3>1. PICK j \in 1..Len(b) : t[j] = Record(s, o)
      <4>1. Record(s, o) # None
        BY Zenon, RecordFacts, ItemKinds DEF Live
      <4> QED
        BY Zenon, <1>8, <2>1, <4>1 DEF InHand
    <3> QED
      BY Zenon, <1>6, <3>1 DEF InHand
  <2>2. CASE ~(o < at[s])
    <3>1. s = p
      BY Zenon, <1>5, <2>2
    <3>2. item = Record(s, o)
      BY <1>4, <1>5, <1>9, <2>2, <3>1
    <3>3. Len(b) + 1 \in 1..Len(t)
      BY <1>6
    <3> QED
      BY Zenon, <1>6, <3>2, <3>3 DEF InHand
  <2> QED
    BY Zenon, <2>1, <2>2
<1>12. \A s \in Partitions : at[s] <= Len(log[s]) => to[s] <= Len(log[s])
  BY Zenon, <1>4, <1>5
<1> QED
  BY Zenon, <1>5, <1>6, <1>10, <1>11, <1>12 DEF Ordered, t, to

-----------------------------------------------------------------------------
(* What the subscription has passed, remembers and returns *)

\* The change a state holds for an entity is one of that entity.
States == {s \in [Entities -> Changes \cup {None}] : \A k \in Entities : s[k] # None => s[k].key = k}
Frames == [change : Changes \cup {None}, offsets : Offsets]
Views == [Entities -> Nat]

\* Settled, for a view v and denials d of the consumer.
SettledBy(v, d, c) == \/ v[c.key] >= c.version
                      \/ \E e \in d : e.key = c.key /\ e.version >= c.version
\* The state holds the change or a newer one of its entity.
Covers(state, c) == state[c.key] # None /\ state[c.key].version >= c.version
\* One of the first n frames carries the change or a newer one of its entity.
Carries(frames, n, c) ==
    \E i \in 1..n : /\ frames[i].change # None /\ frames[i].change.key = c.key
                    /\ frames[i].change.version >= c.version

\* The offsets are those of the log.
Inside(offsets) == \A p \in Partitions : offsets[p] <= Len(log[p])
\* The state covers every change before the cursor.
Passed(offsets, state, v, d) ==
    \A p \in Partitions : \A o \in Nat :
        Live(p, o) /\ o < offsets[p]
            => SettledBy(v, d, ChangeAt(p, o)) \/ Covers(state, ChangeAt(p, o))
\* What the state holds has reached the consumer or is on its way.
Held(state, frames, v, d) ==
    \A k \in Entities : state[k] # None =>
        SettledBy(v, d, state[k]) \/ Carries(frames, Len(frames), state[k])
\* What is before the offsets of a frame has reached the consumer when the
\* frames up to it have.
FrameCovers(frames, i, v, d) ==
    \A p \in Partitions : \A o \in Nat :
        Live(p, o) /\ o < frames[i].offsets[p]
            => SettledBy(v, d, ChangeAt(p, o)) \/ Carries(frames, i, ChangeAt(p, o))
\* A frame carries a committed change that its offsets cover.
FrameIsReal(f) ==
    /\ Inside(f.offsets)
    /\ f.change # None =>
          \E p \in Partitions : \E o \in Committed(p) : o < f.offsets[p] /\ ChangeAt(p, o) = f.change
Returned(frames, v, d) ==
    \A i \in 1..Len(frames) : FrameCovers(frames, i, v, d) /\ FrameIsReal(frames[i])

\* Changes are of an entity and have a version.
LEMMA ChangeFacts ==
    \A c \in Changes : c.key \in Entities /\ c.version \in Nat /\ c # None
  BY MaxVersionAssumption, NoneAssumption DEF Changes

\* A newer change of the entity stands for an older one.
LEMMA Newer ==
    ASSUME NEW v \in Views, NEW d \in SUBSET Changes, NEW b \in Changes, NEW c \in Changes,
           b.key = c.key, b.version >= c.version
    PROVE  /\ SettledBy(v, d, b) => SettledBy(v, d, c)
           /\ \A n \in Nat : \A frames \in Seq(Frames) :
                 n <= Len(frames) /\ Carries(frames, n, b) => Carries(frames, n, c)
<1>1. b.version \in Nat /\ c.version \in Nat /\ c.key \in Entities /\ v[c.key] \in Nat
  BY Zenon, ChangeFacts DEF Views
<1>2. \A e \in d : e.version \in Nat
  BY Zenon, ChangeFacts
<1>3. SettledBy(v, d, b) => SettledBy(v, d, c)
  BY <1>1, <1>2 DEF SettledBy
<1>4. ASSUME NEW n \in Nat, NEW frames \in Seq(Frames), n <= Len(frames), Carries(frames, n, b)
      PROVE  Carries(frames, n, c)
  <2>1. PICK i \in 1..n : /\ frames[i].change # None /\ frames[i].change.key = b.key
                          /\ frames[i].change.version >= b.version
    BY Zenon, <1>4 DEF Carries
  <2>2. i \in 1..Len(frames)
    BY <1>4, SeqFacts
  <2>3. frames[i] \in Frames
    BY Zenon, <2>2, SeqFacts
  <2>4. frames[i].change \in Changes
    BY Zenon, <2>1, <2>3 DEF Frames
  <2>5. frames[i].change.version >= c.version
    BY <1>1, <2>1, <2>4, ChangeFacts
  <2> QED
    BY Zenon, <2>1, <2>5 DEF Carries
<1> QED
  BY Zenon, <1>3, <1>4

\* What is settled stays settled.
LEMMA StaysSettled ==
    ASSUME NEW v \in Views, NEW w \in Views, NEW d, NEW e, d \subseteq e, \A k \in Entities : v[k] <= w[k],
           NEW c \in Changes, SettledBy(v, d, c)
    PROVE  SettledBy(w, e, c)
<1>1. c.key \in Entities /\ c.version \in Nat
  BY Zenon, ChangeFacts
<1>2. v[c.key] \in Nat /\ w[c.key] \in Nat /\ v[c.key] <= w[c.key]
  BY Zenon, <1>1 DEF Views
<1> QED
  BY <1>1, <1>2 DEF SettledBy

\* A record is remembered that is news.
LEMMA Remembered ==
    ASSUME NEW st \in States, NEW c \in Changes, st[c.key] = None \/ st[c.key].version < c.version
    PROVE  /\ [st EXCEPT ![c.key] = c] \in States
           /\ Covers([st EXCEPT ![c.key] = c], c)
           /\ \A b \in Changes : Covers(st, b) => Covers([st EXCEPT ![c.key] = c], b)
<1> DEFINE new == [st EXCEPT ![c.key] = c]
<1>1. c.key \in Entities /\ c.version \in Nat /\ c # None
  BY Zenon, ChangeFacts
<1>2. new \in States /\ new[c.key] = c /\ \A k \in Entities : k # c.key => new[k] = st[k]
  BY Zenon, <1>1 DEF States
<1> HIDE DEF new
<1>3. Covers(new, c)
  BY <1>1, <1>2 DEF Covers
<1>4. ASSUME NEW b \in Changes, Covers(st, b) PROVE Covers(new, b)
  <2>1. b.key \in Entities /\ b.version \in Nat /\ st[b.key] # None /\ st[b.key] \in Changes
    BY Zenon, <1>4, ChangeFacts DEF Covers, States
  <2>2. st[b.key].version \in Nat
    BY Zenon, <2>1, ChangeFacts
  <2>3. CASE b.key = c.key
    BY <1>1, <1>2, <1>4, <2>1, <2>2, <2>3 DEF Covers
  <2>4. CASE b.key # c.key
    BY Zenon, <1>2, <1>4, <2>1, <2>4 DEF Covers
  <2> QED
    BY Zenon, <2>3, <2>4
<1> QED
  BY Zenon, <1>2, <1>3, <1>4 DEF new

\* The cursor passes a record that the new state covers.
LEMMA PassRecord ==
    ASSUME LogOK, NEW off \in Offsets, NEW st \in States, NEW new \in States, NEW v \in Views,
           NEW d \in SUBSET Changes, NEW r \in Records, Real(r), First(off, r), Passed(off, st, v, d),
           \A b \in Changes : Covers(st, b) => Covers(new, b), Covers(new, r.change),
           ~(r.offset < off[r.partition]), Inside(off)
    PROVE  /\ [off EXCEPT ![r.partition] = r.offset + 1] \in Offsets
           /\ Passed([off EXCEPT ![r.partition] = r.offset + 1], new, v, d)
           /\ Inside([off EXCEPT ![r.partition] = r.offset + 1])
           /\ \A p \in Partitions : off[p] <= [off EXCEPT ![r.partition] = r.offset + 1][p]
           /\ r.offset < [off EXCEPT ![r.partition] = r.offset + 1][r.partition]
<1> DEFINE to == [off EXCEPT ![r.partition] = r.offset + 1]
<1>1. /\ r.partition \in Partitions /\ r.offset \in Committed(r.partition) /\ r.offset \in Nat
      /\ r.change = ChangeAt(r.partition, r.offset)
  BY Zenon, RealFacts
<1>2. \A p \in Partitions : off[p] \in Nat
  BY Zenon DEF Offsets
<1>3. to \in Offsets /\ to[r.partition] = r.offset + 1 /\ \A p \in Partitions : p # r.partition => to[p] = off[p]
  BY <1>1 DEF Offsets
<1> HIDE DEF to
<1>4. \A p \in Partitions : off[p] <= to[p]
  BY <1>1, <1>2, <1>3
<1>5. r.offset < to[r.partition]
  BY <1>1, <1>3
<1>6. Inside(to)
  <2>1. r.offset < Len(log[r.partition]) /\ Len(log[r.partition]) \in Nat
    BY Zenon, <1>1, LogFacts
  <2>2. r.offset + 1 <= Len(log[r.partition])
    BY <1>1, <2>1
  <2> QED
    BY Zenon, <1>3, <2>2 DEF Inside
<1>7. Passed(to, new, v, d)
  <2> SUFFICES ASSUME NEW p \in Partitions, NEW o \in Nat, Live(p, o), o < to[p]
               PROVE  SettledBy(v, d, ChangeAt(p, o)) \/ Covers(new, ChangeAt(p, o))
    BY Zenon DEF Passed
  <2>1. ChangeAt(p, o) \in Changes
    BY Zenon, LogFacts DEF Live
  <2>2. CASE o < off[p]
    <3>1. SettledBy(v, d, ChangeAt(p, o)) \/ Covers(st, ChangeAt(p, o))
      BY Zenon, <2>2 DEF Passed
    <3> QED
      BY Zenon, <2>1, <3>1
  <2>3. CASE ~(o < off[p])
    <3>1. p = r.partition /\ off[p] <= o /\ o < r.offset + 1
      BY <1>2, <1>3, <2>3
    <3>2. r.offset <= o
      BY Zenon, <3>1 DEF First
    <3>3. o = r.offset
      BY <1>1, <3>1, <3>2
    <3> QED
      BY Zenon, <1>1, <3>1, <3>3
  <2> QED
    BY Zenon, <2>2, <2>3
<1> QED
  BY Zenon, <1>3, <1>4, <1>5, <1>6, <1>7 DEF to

\* The cursor after a progress.
Past(off, g) == [off EXCEPT ![g.partition] = IF @ < g.next_offset THEN g.next_offset ELSE @]

LEMMA PassProgress ==
    ASSUME LogOK, NEW off \in Offsets, NEW st \in States, NEW v, NEW d, NEW at \in Offsets,
           NEW b \in Seq(Records \cup Progress), b # << >>, Ordered(off, None, b, at), Head(b) \in Progress,
           Passed(off, st, v, d), Inside(off)
    PROVE  /\ Past(off, Head(b)) \in Offsets /\ Passed(Past(off, Head(b)), st, v, d)
           /\ Inside(Past(off, Head(b)))
           /\ \A p \in Partitions : off[p] <= Past(off, Head(b))[p]
<1> DEFINE g == Head(b)
           new == Past(off, Head(b))
<1>1. /\ g = b[1] /\ 1 \in 1..Len(b)
  BY HeadTail
<1> HIDE DEF g
<1>2. Real(b[1]) /\ Follows(off, None, b, 1)
  BY Zenon, <1>1 DEF Ordered
<1>3. g.partition \in Partitions /\ g.next_offset \in Nat /\ Reach(g) = g.next_offset /\ g.next_offset <= Len(log[g.partition])
  BY Zenon, <1>1, <1>2, RealFacts DEF g
<1>4. \A p \in Partitions : off[p] \in Nat
  BY Zenon DEF Offsets
<1>5. /\ new \in Offsets /\ \A p \in Partitions : p # g.partition => new[p] = off[p]
      /\ new[g.partition] = IF off[g.partition] < g.next_offset THEN g.next_offset ELSE off[g.partition]
  BY Zenon, <1>3, <1>4 DEF Offsets, g, Past
<1> HIDE DEF new
<1>6. \A p \in Partitions : off[p] <= new[p]
  BY <1>3, <1>4, <1>5
<1>7. Inside(new)
  BY Zenon, <1>3, <1>5 DEF Inside
<1>8. ASSUME NEW p \in Partitions, NEW o \in Nat, Live(p, o), o < new[p], ~(o < off[p])
      PROVE  FALSE
  <2>1. p = g.partition /\ o < g.next_offset /\ off[p] <= o
    BY <1>3, <1>4, <1>5, <1>8
  <2>2. InHand(None, b, 1 - 1, p, o)
    BY Zenon, <1>1, <1>2, <1>3, <1>8, <2>1 DEF Follows
  <2>3. Record(p, o) # None
    BY Zenon, <1>8, RecordFacts, ItemKinds DEF Live
  <2> QED
    BY <2>2, <2>3 DEF InHand
<1>9. Passed(new, st, v, d)
  BY Zenon, <1>8 DEF Passed
<1> QED
  BY Zenon, <1>5, <1>6, <1>7, <1>9 DEF new

\* A change that is not authorized is remembered.
LEMMA HeldDenied ==
    ASSUME NEW st \in States, NEW fr, NEW v \in Views, NEW d \in SUBSET Changes, NEW c \in Changes,
           Held(st, fr, v, d)
    PROVE  Held([st EXCEPT ![c.key] = c], fr, v, d \cup {c})
<1> DEFINE new == [st EXCEPT ![c.key] = c]
<1>1. c.key \in Entities /\ c.version \in Nat
  BY Zenon, ChangeFacts
<1>2. new[c.key] = c /\ \A k \in Entities : k # c.key => new[k] = st[k]
  BY Zenon, <1>1 DEF States
<1> HIDE DEF new
<1>3. ASSUME NEW k \in Entities, new[k] # None
      PROVE  SettledBy(v, d \cup {c}, new[k]) \/ Carries(fr, Len(fr), new[k])
  <2>1. CASE k = c.key
    <3>1. c.version >= c.version
      BY <1>1
    <3> QED
      BY Zenon, <1>2, <2>1, <3>1 DEF SettledBy
  <2>2. CASE k # c.key
    <3>1. SettledBy(v, d, st[k]) \/ Carries(fr, Len(fr), st[k])
      BY Zenon, <1>2, <1>3, <2>2 DEF Held
    <3> QED
      BY Zenon, <1>2, <2>2, <3>1 DEF SettledBy
  <2> QED
    BY Zenon, <2>1, <2>2
<1> QED
  BY Zenon, <1>3 DEF Held, new

\* A frame is added to those returned.
LEMMA HeldMore ==
    ASSUME NEW st \in States, NEW fr \in Seq(Frames), NEW v, NEW d, NEW f \in Frames, Held(st, fr, v, d)
    PROVE  /\ Held(st, Append(fr, f), v, d)
           /\ \A c \in Changes : f.change = c => Held([st EXCEPT ![c.key] = c], Append(fr, f), v, d)
<1> DEFINE more == Append(fr, f)
<1>1. /\ Len(fr) \in Nat /\ Len(more) = Len(fr) + 1 /\ \A i \in 1..Len(fr) : more[i] = fr[i] /\ i \in 1..Len(more)
      /\ more[Len(fr) + 1] = f
  BY Zenon, AppendOne
<1> HIDE DEF more
<1>2. \A c : Carries(fr, Len(fr), c) => Carries(more, Len(more), c)
  BY Zenon, <1>1 DEF Carries
<1>3. Held(st, more, v, d)
  BY Zenon, <1>2 DEF Held
<1>4. ASSUME NEW c \in Changes, f.change = c PROVE Held([st EXCEPT ![c.key] = c], more, v, d)
  <2> DEFINE new == [st EXCEPT ![c.key] = c]
  <2>1. c.key \in Entities /\ c.version \in Nat /\ c # None
    BY Zenon, ChangeFacts
  <2>2. new[c.key] = c /\ \A k \in Entities : k # c.key => new[k] = st[k]
    BY Zenon, <2>1 DEF States
  <2> HIDE DEF new
  <2>3. Carries(more, Len(more), c)
    <3>1. Len(fr) + 1 \in 1..Len(more) /\ c.version >= c.version
      BY <1>1, <2>1
    <3> QED
      BY Zenon, <1>1, <1>4, <2>1, <3>1 DEF Carries
  <2> QED
    BY Zenon, <1>3, <2>2, <2>3 DEF Held, new
<1> QED
  BY Zenon, <1>3, <1>4 DEF more

\* A frame is added whose offsets are those of the cursor.
LEMMA ReturnMore ==
    ASSUME LogOK, NEW off \in Offsets, NEW st \in States, NEW fr \in Seq(Frames), NEW v \in Views,
           NEW d \in SUBSET Changes, NEW f \in Frames, f.offsets = off, FrameIsReal(f),
           Returned(fr, v, d), Passed(off, st, v, d), Held(st, Append(fr, f), v, d)
    PROVE  Append(fr, f) \in Seq(Frames) /\ Returned(Append(fr, f), v, d)
<1> DEFINE more == Append(fr, f)
<1>1. /\ more \in Seq(Frames)
      /\ Len(fr) \in Nat /\ Len(more) = Len(fr) + 1 /\ \A i \in 1..Len(fr) : more[i] = fr[i] /\ i \in 1..Len(more)
      /\ more[Len(fr) + 1] = f /\ \A i \in 1..Len(more) : i \in 1..Len(fr) \/ i = Len(fr) + 1
  BY Zenon, AppendOne
<1> HIDE DEF more
<1>2. ASSUME NEW i \in 1..Len(fr) PROVE FrameCovers(more, i, v, d) /\ FrameIsReal(more[i])
  <2>1. FrameCovers(fr, i, v, d) /\ FrameIsReal(fr[i]) /\ more[i] = fr[i]
    BY Zenon, <1>1 DEF Returned
  <2>2. \A j \in 1..i : more[j] = fr[j]
    BY <1>1
  <2>3. \A c : Carries(fr, i, c) => Carries(more, i, c)
    BY Zenon, <2>2 DEF Carries
  <2> QED
    BY Zenon, <2>1, <2>3 DEF FrameCovers
<1>3. FrameCovers(more, Len(more), v, d)
  <2>0. more[Len(more)].offsets = off
    BY Zenon, <1>1
  <2> SUFFICES ASSUME NEW p \in Partitions, NEW o \in Nat, Live(p, o), o < off[p]
               PROVE  SettledBy(v, d, ChangeAt(p, o)) \/ Carries(more, Len(more), ChangeAt(p, o))
    BY Zenon, <2>0 DEF FrameCovers
  <2>1. ChangeAt(p, o) \in Changes
    BY Zenon, LogFacts DEF Live
  <2>2. SettledBy(v, d, ChangeAt(p, o)) \/ Covers(st, ChangeAt(p, o))
    BY Zenon DEF Passed
  <2>3. CASE Covers(st, ChangeAt(p, o))
    <3> DEFINE c == ChangeAt(p, o)
               b == st[c.key]
    <3>1. c \in Changes /\ c.key \in Entities /\ b # None /\ b.version >= c.version
      BY Zenon, <2>1, <2>3, ChangeFacts DEF Covers
    <3>2. b \in Changes
      BY Zenon, <3>1 DEF States
    <3>3. SettledBy(v, d, b) \/ Carries(more, Len(more), b)
      BY Zenon, <3>1 DEF Held, more
    <3> HIDE DEF c
    <3>4. b.key = c.key
      BY Zenon, <3>1 DEF States
    <3> QED
      <4>1. Len(more) \in Nat /\ Len(more) <= Len(more)
        BY <1>1
      <4>2. /\ SettledBy(v, d, b) => SettledBy(v, d, c)
            /\ Carries(more, Len(more), b) => Carries(more, Len(more), c)
        BY Zenon, <1>1, <3>1, <3>2, <3>4, <4>1, Newer
      <4> QED
        BY Zenon, <3>3, <4>2 DEF c
  <2> QED
    BY Zenon, <2>2, <2>3
<1> QED
  BY Zenon, <1>1, <1>2, <1>3 DEF Returned, more
-----------------------------------------------------------------------------
(* The inductive invariant *)

Rows == UNION {[K -> Payloads] : K \in SUBSET Entities}
Calls == {"next", "nextAuth", "collect", "batchAuth", "commit"}
Batching == {"collect", "batchAuth", "commit"}
Subs == [pc : {"closed", "idle"} \cup Calls, offsets : Offsets, state : States,
         pending : Records \cup {None}, buffered : Seq(Records \cup Progress), items : Nat, max : Nat,
         checked : SUBSET (Partitions \X Nat), granted : SUBSET (Partitions \X Nat), rows : Rows,
         frames : Seq(Frames), failed : BOOLEAN]

\* A batch holds one record of an entity.
Distinct(buffered, n) ==
    \A i, j \in 1..n : i < j /\ IsRecord(buffered[i]) /\ IsRecord(buffered[j])
        => buffered[i].change.key # buffered[j].change.key
\* Of the batch's records that the cursor has not passed, those checked are
\* news, and the state covers the others.
At(r) == <<r.partition, r.offset>>
Checked(t) ==
    \A i \in 1..t.items : IsRecord(t.buffered[i]) /\ ~Behind(t, t.buffered[i]) =>
        /\ At(t.buffered[i]) \in t.checked => News(t, t.buffered[i].change)
        /\ At(t.buffered[i]) \notin t.checked => Covers(t.state, t.buffered[i].change)
\* The rows of the event query are the contents of the granted records.
Queried(t) ==
    /\ t.granted \subseteq t.checked
    /\ \A i \in 1..t.items : IsRecord(t.buffered[i]) /\ At(t.buffered[i]) \in t.granted =>
          t.rows[t.buffered[i].change.key] = t.buffered[i].change.data

\* Where a call of the subscription t is, and what it holds there.
Places(t, in) ==
    /\ t.pc # "commit" => t.frames = << >>
    /\ t.pc \notin Batching => t.items = 0
    /\ t.pc \in Calls \/ t.failed => in = << >>
    /\ t.pc \in Calls => ~t.failed
    /\ t.pc \in Calls \ {"nextAuth"} => t.pending = None
    /\ t.pc = "nextAuth" => t.pending # None /\ ~Behind(t, t.pending) /\ News(t, t.pending.change)
    /\ t.pc \in Batching => t.items <= Len(t.buffered) /\ Distinct(t.buffered, t.items)
    /\ t.pc \in {"batchAuth", "commit"} => Checked(t)
    /\ t.pc = "commit" => Queried(t)

\* The frames that wait for the end of the batch, or for the consumer.
Out(t, in) == IF t.pc = "commit" THEN t.frames ELSE in
Cursor(t, at, out, v, d) ==
    /\ Passed(t.offsets, t.state, v, d) /\ Held(t.state, out, v, d)
    /\ Ordered(t.offsets, t.pending, t.buffered, at) /\ Inside(t.offsets)
OK(t, at, in, v, d) ==
    /\ Places(t, in)
    /\ t.pc # "closed" /\ ~t.failed => Cursor(t, at, Out(t, in), v, d)
    /\ Returned(Out(t, in), v, d) /\ Inside(at)
Typed(t, at, in, v, d) ==
    t \in Subs /\ at \in Offsets /\ in \in Seq(Frames) /\ v \in Views /\ d \in SUBSET Changes
\* What the consumer has saved.
Saved(offsets, v, d) ==
    /\ offsets \in Offsets /\ Inside(offsets)
    /\ \A p \in Partitions : \A o \in Nat : Live(p, o) /\ o < offsets[p] => SettledBy(v, d, ChangeAt(p, o))

IInv ==
    /\ LogOK /\ Typed(sub, pos, inbox, view, denied)
    /\ OK(sub, pos, inbox, view, denied) /\ Saved(checkpoint, view, denied)

\* A step of the subscription or of the consumer leaves the log alone.
LEMMA SameLog ==
    ASSUME LogOK, UNCHANGED logVars, Typed(sub', pos', inbox', view', denied'),
           OK(sub', pos', inbox', view', denied'), Saved(checkpoint', view', denied')
    PROVE  IInv'
<1>0. log' = log /\ low' = low /\ aborted' = aborted /\ compacted' = compacted
  BY Zenon DEF logVars
<1>1. \A p : Committed(p)' = Committed(p) /\ \A o : ChangeAt(p, o)' = ChangeAt(p, o)
  BY Zenon, <1>0 DEF Committed, ChangeAt
<1>2. \A p, o : Live(p, o)' <=> Live(p, o)
  BY Zenon, <1>0, <1>1 DEF Live
<1>3. \A p, o : Record(p, o)' = Record(p, o)
  BY Zenon, <1>1 DEF Record
<1>4. LogOK'
  BY Zenon, <1>0 DEF LogOK
<1>5. Places(sub, inbox)'
  BY Zenon DEF OK, Places, Distinct, Checked, Queried, Behind, News, IsRecord, At, Covers
<1>6. Returned(Out(sub, inbox), view, denied)'
  <2> DEFINE f == Out(sub', inbox')
  <2>1. Returned(f, view', denied')
    BY Zenon DEF OK
  <2>2. \A i \in 1..Len(f) : FrameCovers(f, i, view', denied') /\ FrameIsReal(f[i])
    BY Zenon, <2>1 DEF Returned
  <2>3. Out(sub, inbox)' = f
    BY Zenon DEF Out
  <2> HIDE DEF f
  <2>4. ASSUME NEW i \in 1..Len(f) PROVE FrameCovers(Out(sub, inbox), i, view, denied)'
    BY ZenonT(60), <1>1, <1>2, <2>2, <2>3, <2>4 DEF FrameCovers, SettledBy, Carries
  <2>5. ASSUME NEW i \in 1..Len(f) PROVE FrameIsReal(Out(sub, inbox)[i])'
    BY Zenon, <1>0, <1>1, <2>2, <2>3, <2>5 DEF FrameIsReal, Inside
  <2> QED
    BY Zenon, <2>3, <2>4, <2>5 DEF Returned
<1>7. Inside(pos)' /\ Inside(checkpoint)'
  BY Zenon, <1>0 DEF OK, Inside, Saved
<1>8. Saved(checkpoint, view, denied)'
  BY Zenon, <1>1, <1>2, <1>7 DEF Saved, SettledBy, Offsets
<1>9. ASSUME sub'.pc # "closed", ~sub'.failed
      PROVE  Cursor(sub, pos, Out(sub, inbox), view, denied)'
  <2>1. Cursor(sub', pos', Out(sub', inbox'), view', denied')
    BY Zenon, <1>9 DEF OK
  <2>2. Passed(sub.offsets, sub.state, view, denied)'
    BY Zenon, <1>1, <1>2, <2>1 DEF Cursor, Passed, SettledBy, Covers
  <2>3. Held(sub.state, Out(sub, inbox), view, denied)'
    BY Zenon, <2>1 DEF Cursor, Held, SettledBy, Carries, Out
  <2>4. Inside(sub.offsets)'
    BY Zenon, <1>0, <2>1 DEF Cursor, Inside
  <2>5. \A item : (Real(item))' <=> Real(item)
    BY Zenon, <1>0, <1>1 DEF Real, IsRecord
  <2>6. \A x, b, n, p, o : (InHand(x, b, n, p, o))' <=> InHand(x, b, n, p, o)
    BY Zenon, <1>3 DEF InHand
  <2>7. Ordered(sub'.offsets, sub'.pending, sub'.buffered, pos')
    BY Zenon, <2>1 DEF Cursor
  <2>8. Ordered(sub.offsets, sub.pending, sub.buffered, pos)'
    BY Zenon, <1>1, <1>2, <2>5, <2>6, <2>7 DEF Ordered, First, Follows, ReadUpTo, Reach, IsRecord
  <2> QED
    BY Zenon, <2>2, <2>3, <2>4, <2>8 DEF Cursor
<1>10. OK(sub, pos, inbox, view, denied)'
  BY Zenon, <1>5, <1>6, <1>7, <1>9 DEF OK
<1>11. Typed(sub, pos, inbox, view, denied)'
  BY Zenon DEF Typed, Subs, Offsets, Frames, Views, States, Changes
<1> QED
  BY Zenon, <1>4, <1>8, <1>10, <1>11 DEF IInv

\* The log grows, loses a record to compaction or its first offsets.
LEMMA LogStep ==
    ASSUME IInv, Changes # {}, LogNext, UNCHANGED subVars
    PROVE  IInv'
<1>0. LogOK' /\ Grows /\ LogOK
  BY Zenon, LogGrows DEF IInv
<1>1. /\ sub' = sub /\ pos' = pos /\ inbox' = inbox /\ view' = view /\ checkpoint' = checkpoint
      /\ denied' = denied
  BY Zenon DEF subVars
<1>2. \A p \in Partitions :
           /\ Len(log[p]) \in Nat /\ Len(log'[p]) \in Nat /\ Len(log[p]) <= Len(log'[p])
           /\ \A o \in Nat : Live(p, o)' /\ o < Len(log[p]) => Live(p, o)
           /\ \A o \in Committed(p) : o \in Committed(p)' /\ ChangeAt(p, o)' = ChangeAt(p, o)
           /\ \A o \in Nat : o < Len(log[p]) => ChangeAt(p, o)' = ChangeAt(p, o)
  BY Zenon, <1>0, GrowFacts
<1>3. ASSUME NEW off \in Offsets, Inside(off) PROVE
         /\ \A p \in Partitions : off[p] <= Len(log'[p])
         /\ \A p \in Partitions : \A o \in Nat : Live(p, o)' /\ o < off[p]
               => Live(p, o) /\ ChangeAt(p, o)' = ChangeAt(p, o)
  <2>1. \A p \in Partitions : off[p] \in Nat /\ off[p] <= Len(log[p])
    BY Zenon, <1>3 DEF Offsets, Inside
  <2>2. \A p \in Partitions : off[p] <= Len(log'[p])
    BY <1>2, <2>1
  <2>3. \A p \in Partitions : \A o \in Nat : o < off[p] => o < Len(log[p])
    BY <1>2, <2>1
  <2> QED
    BY Zenon, <1>2, <2>2, <2>3
<1>4. Typed(sub, pos, inbox, view, denied) /\ OK(sub, pos, inbox, view, denied)
      /\ Saved(checkpoint, view, denied)
  BY Zenon DEF IInv
<1>5. Saved(checkpoint, view, denied)'
  <2>1. checkpoint \in Offsets /\ Inside(checkpoint)
    BY Zenon, <1>4 DEF Saved
  <2>2. Inside(checkpoint)'
    BY Zenon, <1>1, <1>3, <2>1 DEF Inside
  <2>3. \A p \in Partitions : \A o \in Nat : Live(p, o) /\ o < checkpoint[p] => SettledBy(view, denied, ChangeAt(p, o))
    BY Zenon, <1>4 DEF Saved
  <2>4. \A p \in Partitions : \A o \in Nat : Live(p, o)' /\ o < checkpoint[p] => SettledBy(view, denied, ChangeAt(p, o)')
    BY Zenon, <1>3, <2>1, <2>3
  <2> QED
    BY Zenon, <1>1, <2>1, <2>2, <2>4 DEF Saved, SettledBy, Offsets
<1>6. Places(sub, inbox)'
  <2>1. Places(sub, inbox)
    BY Zenon, <1>4 DEF OK
  <2> QED
    BY ZenonT(60), <1>1, <2>1 DEF Places, Distinct, Checked, Queried, Behind, News, IsRecord, At, Covers
<1>7. Returned(Out(sub, inbox), view, denied)'
  <2>4. Out(sub, inbox) \in Seq(Frames)
    BY Zenon, <1>4 DEF Out, Typed, Subs
  <2>3. PICK f \in Seq(Frames) : f = Out(sub, inbox)
    BY Zenon, <2>4
  <2>6. f = Out(sub, inbox)'
    BY Zenon, <1>1, <2>3 DEF Out
  <2>1. Returned(f, view, denied)
    BY Zenon, <1>4, <2>3 DEF OK
  <2>2. \A i \in 1..Len(f) : FrameCovers(f, i, view, denied) /\ FrameIsReal(f[i]) /\ f[i] \in Frames
    BY Zenon, <2>1, SeqFacts DEF Returned
  <2>5. ASSUME NEW i \in 1..Len(f) PROVE FrameCovers(f, i, view, denied)' /\ FrameIsReal(f[i])'
    <3>1. f[i].offsets \in Offsets /\ Inside(f[i].offsets) /\ FrameCovers(f, i, view, denied) /\ FrameIsReal(f[i])
      BY Zenon, <2>2 DEF Frames, FrameIsReal
    <3>2. \A p \in Partitions : \A o \in Nat : Live(p, o)' /\ o < f[i].offsets[p]
             => SettledBy(view, denied, ChangeAt(p, o)') \/ Carries(f, i, ChangeAt(p, o)')
      BY Zenon, <1>3, <3>1 DEF FrameCovers
    <3>3. FrameCovers(f, i, view, denied)'
      BY Zenon, <1>1, <3>2 DEF FrameCovers, SettledBy, Carries
    <3>4. Inside(f[i].offsets)'
      BY Zenon, <1>3, <3>1 DEF Inside
    <3>5. f[i].change # None => \E p \in Partitions : \E o \in Committed(p)' : o < f[i].offsets[p] /\ ChangeAt(p, o)' = f[i].change
      BY Zenon, <1>2, <3>1 DEF FrameIsReal
    <3>6. FrameIsReal(f[i])'
      BY Zenon, <3>4, <3>5 DEF FrameIsReal
    <3> QED
      BY Zenon, <3>3, <3>6
  <2> QED
    BY Zenon, <2>5, <2>6 DEF Returned
<1>8. pos \in Offsets /\ Inside(pos) /\ Inside(pos)'
  BY Zenon, <1>1, <1>3, <1>4 DEF Typed, OK, Inside
<1>9. ASSUME sub.pc # "closed", ~sub.failed
      PROVE  Cursor(sub, pos, Out(sub, inbox), view, denied)'
  <2>1. Cursor(sub, pos, Out(sub, inbox), view, denied)
    BY Zenon, <1>4, <1>9 DEF OK
  <2>2. PICK off \in Offsets, b \in Seq(Records \cup Progress), r \in Records \cup {None}, at \in Offsets :
           off = sub.offsets /\ b = sub.buffered /\ r = sub.pending /\ at = pos /\ Inside(off) /\ Inside(at)
    BY Zenon, <1>4, <1>8, <2>1 DEF Typed, Subs, Cursor
  <2>3. Inside(sub.offsets)'
    BY Zenon, <1>1, <1>3, <2>2 DEF Inside
  <2>4. Passed(sub.offsets, sub.state, view, denied)'
    <3>1. \A p \in Partitions : \A o \in Nat : Live(p, o)' /\ o < off[p]
             => SettledBy(view, denied, ChangeAt(p, o)') \/ Covers(sub.state, ChangeAt(p, o)')
      BY Zenon, <1>3, <2>1, <2>2 DEF Cursor, Passed
    <3> QED
      BY Zenon, <1>1, <2>2, <3>1 DEF Passed, SettledBy, Covers
  <2>5. Held(sub.state, Out(sub, inbox), view, denied)'
    BY Zenon, <1>1, <2>1 DEF Cursor, Held, SettledBy, Carries, Out
  <2>6. Ordered(off, r, b, at)
    BY Zenon, <2>1, <2>2 DEF Cursor
  <2>7. ASSUME NEW item \in Records \cup Progress, Real(item)
        PROVE  /\ Real(item)' /\ Reach(item) \in Nat /\ Reach(item) <= Len(log[item.partition])
               /\ item.partition \in Partitions
    <3>1. CASE item \in Records
      <4>1. /\ item.partition \in Partitions /\ item.offset \in Committed(item.partition) /\ item.offset \in Nat
            /\ item.change = ChangeAt(item.partition, item.offset) /\ Reach(item) = item.offset /\ IsRecord(item)
        BY Zenon, <1>0, <2>7, <3>1, RealFacts, ItemKinds
      <4>2. item.offset < Len(log[item.partition]) /\ Len(log[item.partition]) \in Nat
        BY Zenon, <1>0, <4>1, LogFacts
      <4>3. /\ item.offset \in Committed(item.partition)'
            /\ ChangeAt(item.partition, item.offset)' = ChangeAt(item.partition, item.offset)
        BY Zenon, <1>2, <4>1
      <4>4. Real(item)'
        BY Zenon, <4>1, <4>3 DEF Real, IsRecord
      <4> QED
        BY <4>1, <4>2, <4>4
    <3>2. CASE item \in Progress
      <4>1. /\ item.partition \in Partitions /\ item.next_offset \in Nat /\ Reach(item) = item.next_offset /\ ~IsRecord(item)
            /\ item.next_offset <= Len(log[item.partition])
        BY Zenon, <1>0, <2>7, <3>2, RealFacts, ItemKinds
      <4>2. Len(log[item.partition]) \in Nat /\ Len(log'[item.partition]) \in Nat /\ Len(log[item.partition]) <= Len(log'[item.partition])
        BY Zenon, <1>2, <4>1
      <4>3. item.next_offset <= Len(log'[item.partition])
        BY <4>1, <4>2
      <4> QED
        BY Zenon, <4>1, <4>3 DEF Real, IsRecord
    <3> QED
      BY Zenon, <3>1, <3>2
  <2>8. ASSUME NEW p \in Partitions, NEW o \in Nat, o < Len(log[p]), NEW n, InHand(r, b, n, p, o)
        PROVE  InHand(r, b, n, p, o)'
    <3>1. ChangeAt(p, o)' = ChangeAt(p, o)
      BY Zenon, <1>2, <2>8
    <3>2. Record(p, o)' = Record(p, o)
      BY Zenon, <3>1 DEF Record
    <3> QED
      BY Zenon, <2>8, <3>2 DEF InHand
  <2>9. ASSUME NEW i \in 1..Len(b)
        PROVE  Real(b[i])' /\ Follows(off, r, b, i)'
    <3>1. b[i] \in Records \cup Progress /\ Real(b[i]) /\ Follows(off, r, b, i)
      BY Zenon, <2>6, SeqFacts DEF Ordered
    <3>2. PICK p : p = b[i].partition
      BY Zenon
    <3>3. /\ Reach(b[i]) \in Nat /\ Reach(b[i]) <= Len(log[p]) /\ p \in Partitions /\ Real(b[i])'
      BY Zenon, <2>7, <3>1, <3>2
    <3>4. ASSUME NEW o \in Nat, Live(p, o)', off[p] <= o, o < Reach(b[i])
          PROVE  InHand(r, b, i - 1, p, o)'
      <4>1. o < Len(log[p])
        <5>1. Len(log[p]) \in Nat
          BY Zenon, <1>2, <3>3
        <5> QED
          BY <3>3, <3>4, <5>1
      <4>2. Live(p, o)
        BY Zenon, <1>2, <3>3, <3>4, <4>1
      <4>3. InHand(r, b, i - 1, p, o)
        BY Zenon, <3>1, <3>2, <3>4, <4>2 DEF Follows
      <4> QED
        BY Zenon, <2>8, <3>3, <4>1, <4>3
    <3>5. Follows(off, r, b, i)'
      BY Zenon, <3>2, <3>4 DEF Follows, Reach, IsRecord
    <3> QED
      BY Zenon, <3>3, <3>5
  <2>10. ASSUME r # None PROVE Real(r)' /\ First(off, r)'
    <3>1. r \in Records /\ Real(r) /\ First(off, r)
      BY Zenon, <2>6, <2>10 DEF Ordered
    <3>2. PICK p : p = r.partition
      BY Zenon
    <3>3. Reach(r) \in Nat /\ Reach(r) <= Len(log[p]) /\ p \in Partitions /\ Real(r)' /\ Reach(r) = r.offset
      BY Zenon, <1>0, <2>7, <3>1, <3>2, RealFacts
    <3>4. ASSUME NEW o \in Nat, Live(p, o)', off[p] <= o PROVE r.offset <= o
      <4>1. CASE o < Len(log[p])
        <5>1. Live(p, o)
          BY Zenon, <1>2, <3>3, <3>4, <4>1
        <5> QED
          BY Zenon, <3>1, <3>2, <3>4, <5>1 DEF First
      <4>2. CASE ~(o < Len(log[p]))
        <5>1. Len(log[p]) \in Nat
          BY Zenon, <1>2, <3>3
        <5> QED
          BY <3>3, <4>2, <5>1
      <4> QED
        BY Zenon, <4>1, <4>2
    <3>5. First(off, r)'
      BY Zenon, <3>2, <3>4 DEF First
    <3> QED
      BY Zenon, <3>3, <3>5
  <2>11. ReadUpTo(off, r, b, at)'
    <3>1. ASSUME NEW p \in Partitions, NEW o \in Nat, Live(p, o)', off[p] <= o, o < at[p]
          PROVE  InHand(r, b, Len(b), p, o)'
      <4>1. Live(p, o)
        BY Zenon, <1>3, <2>2, <3>1
      <4>2. InHand(r, b, Len(b), p, o)
        BY Zenon, <2>6, <3>1, <4>1 DEF Ordered, ReadUpTo
      <4>3. o < Len(log[p])
        <5>1. at[p] \in Nat /\ at[p] <= Len(log[p]) /\ Len(log[p]) \in Nat
          BY Zenon, <1>2, <2>2 DEF Offsets, Inside
        <5> QED
          BY <3>1, <5>1
      <4> QED
        BY Zenon, <2>8, <4>2, <4>3
    <3> QED
      BY Zenon, <3>1 DEF ReadUpTo
  <2>12. Ordered(off, r, b, at)'
    BY Zenon, <2>9, <2>10, <2>11 DEF Ordered
  <2>13. Ordered(sub.offsets, sub.pending, sub.buffered, pos)'
    <3>1. off = sub.offsets' /\ r = sub.pending' /\ b = sub.buffered' /\ at = pos'
      BY Zenon, <1>1, <2>2
    <3> QED
      BY SMT, <2>12, <3>1 DEF Ordered, First, Follows, ReadUpTo, InHand, Real, IsRecord, Reach
  <2> QED
    BY Zenon, <2>3, <2>4, <2>5, <2>13 DEF Cursor
<1>10. OK(sub, pos, inbox, view, denied)'
  BY Zenon, <1>1, <1>6, <1>7, <1>8, <1>9 DEF OK
<1>11. Typed(sub, pos, inbox, view, denied)'
  BY Zenon, <1>1, <1>4 DEF Typed, Subs, Offsets, Frames, Views, States, Changes
<1> QED
  BY Zenon, <1>0, <1>5, <1>10, <1>11 DEF IInv

-----------------------------------------------------------------------------
(* Opening, closing and interrupting a subscription *)

\* The fields of a subscription have their types.
LEMMA SubFields ==
    ASSUME NEW t \in Subs
    PROVE  /\ t.pc \in {"closed", "idle"} \cup Calls /\ t.offsets \in Offsets /\ t.state \in States
           /\ t.pending \in Records \cup {None} /\ t.buffered \in Seq(Records \cup Progress)
           /\ t.items \in Nat /\ t.max \in Nat /\ t.checked \in SUBSET (Partitions \X Nat)
           /\ t.granted \in SUBSET (Partitions \X Nat) /\ t.rows \in Rows /\ t.frames \in Seq(Frames)
           /\ t.failed \in BOOLEAN
  BY Zenon DEF Subs

\* Empty values.
LEMMA EmptyFacts ==
    /\ << >> \in Rows /\ << >> \in Seq(Frames) /\ << >> \in Seq(Records \cup Progress)
    /\ ZeroOffsets \in Offsets /\ [k \in Entities |-> None] \in States
    /\ \A v, d : Returned(<< >>, v, d)
<1>1. << >> \in [{} -> Payloads] /\ {} \in SUBSET Entities
  OBVIOUS
<1>2. << >> \in Rows
  BY Zenon, <1>1 DEF Rows
<1>3. ZeroOffsets \in Offsets /\ [k \in Entities |-> None] \in States
  BY Zenon DEF ZeroOffsets, Offsets, States
<1>4. \A v, d : Returned(<< >>, v, d)
  BY DEF Returned
<1> QED
  BY <1>2, <1>3, <1>4

\* A call that returns or is dropped.
LEMMA IdleFacts ==
    ASSUME NEW t \in Subs
    PROVE  /\ Idle(t) \in Subs /\ Idle(t).pc = "idle" /\ Idle(t).offsets = t.offsets /\ Idle(t).state = t.state
           /\ Idle(t).pending = t.pending /\ Idle(t).buffered = t.buffered /\ Idle(t).frames = << >>
           /\ Idle(t).failed = t.failed /\ Idle(t).items = 0
           /\ Failed(t) \in Subs /\ Failed(t).pc = "idle" /\ Failed(t).frames = << >> /\ Failed(t).failed = TRUE
           /\ Failed(t).items = 0
<1>1. << >> \in Rows /\ << >> \in Seq(Frames)
  BY Zenon, EmptyFacts
<1>2. Idle(t) \in Subs
  BY Zenon, <1>1 DEF Idle, Subs
<1>3. /\ Idle(t).pc = "idle" /\ Idle(t).offsets = t.offsets /\ Idle(t).state = t.state
      /\ Idle(t).pending = t.pending /\ Idle(t).buffered = t.buffered /\ Idle(t).frames = << >>
      /\ Idle(t).failed = t.failed /\ Idle(t).items = 0
  BY Zenon DEF Idle, Subs
<1>4. /\ Failed(t) \in Subs /\ Failed(t).pc = "idle" /\ Failed(t).frames = << >> /\ Failed(t).failed = TRUE
      /\ Failed(t).items = 0
  BY Zenon, <1>2, <1>3 DEF Failed, Subs
<1> QED
  BY Zenon, <1>2, <1>3, <1>4

\* A subscription that failed has nothing to keep.
LEMMA FailedOK ==
    ASSUME NEW t, NEW at, NEW v, NEW d, t.pc = "idle", t.failed = TRUE, t.frames = << >>, t.items = 0, Inside(at)
    PROVE  OK(t, at, << >>, v, d)
  BY Zenon, EmptyFacts DEF OK, Places, Calls, Batching, Out

\* Neither has one that is closed.
LEMMA ClosedOK ==
    /\ Closed \in Subs /\ Closed.pc = "closed" /\ Closed.frames = << >> /\ Closed.failed = FALSE /\ Closed.items = 0
    /\ \A at, v, d : Inside(at) => OK(Closed, at, << >>, v, d)
<1>1. Closed \in Subs
  BY Zenon, EmptyFacts DEF Closed, Subs
<1>2. Closed.pc = "closed" /\ Closed.frames = << >> /\ Closed.failed = FALSE /\ Closed.items = 0
  BY Zenon DEF Closed
<1> HIDE DEF Closed
<1>3. \A at, v, d : Inside(at) => OK(Closed, at, << >>, v, d)
  BY Zenon, <1>2, EmptyFacts DEF OK, Places, Calls, Batching, Out
<1> QED
  BY Zenon, <1>1, <1>2, <1>3

\* A subscription between two calls.
LEMMA IdleOK ==
    ASSUME NEW t, NEW at, NEW in, NEW v, NEW d, t.pc = "idle", t.failed = FALSE, t.frames = << >>, t.items = 0,
           Passed(t.offsets, t.state, v, d), Held(t.state, in, v, d), Inside(t.offsets),
           Ordered(t.offsets, t.pending, t.buffered, at), Returned(in, v, d), Inside(at)
    PROVE  OK(t, at, in, v, d)
  BY Zenon DEF OK, Places, Calls, Batching, Out, Cursor

\* The steps of opening, closing and interrupting.
LEMMA SubscribeStep == ASSUME IInv, Subscribe PROVE IInv'
<1> DEFINE t == [Closed EXCEPT !.pc = "idle", !.offsets = checkpoint]
<1>1. /\ LogOK /\ Typed(sub, pos, inbox, view, denied) /\ Saved(checkpoint, view, denied)
      /\ OK(sub, pos, inbox, view, denied)
  BY Zenon DEF IInv
<1>2. /\ sub' = t /\ pos' = checkpoint /\ sub.pc = "closed"
      /\ UNCHANGED <<logVars, inbox, view, checkpoint, denied>>
  BY Zenon DEF Subscribe
<1>3. /\ t \in Subs /\ t.pc = "idle" /\ t.offsets = checkpoint /\ t.state = [k \in Entities |-> None]
      /\ t.pending = None /\ t.buffered = << >> /\ t.frames = << >> /\ t.failed = FALSE /\ t.items = 0
  <2>1. checkpoint \in Offsets /\ Closed \in Subs
    BY Zenon, <1>1, ClosedOK DEF Saved
  <2>2. t \in Subs
    BY Zenon, <2>1 DEF Subs
  <2> QED
    BY Zenon, <2>2 DEF Closed
<1> HIDE DEF t
<1>4. Typed(t, checkpoint, inbox, view, denied) /\ Inside(checkpoint)
  BY Zenon, <1>1, <1>3 DEF Typed, Saved
<1>5. Returned(inbox, view, denied)
  BY Zenon, <1>1, <1>2 DEF OK, Out
<1>6. Held(t.state, inbox, view, denied)
  BY Zenon, <1>3 DEF Held
<1>7. Passed(t.offsets, t.state, view, denied)
  BY Zenon, <1>1, <1>3 DEF Passed, Saved
<1>8. Ordered(t.offsets, t.pending, t.buffered, checkpoint)
  <2>1. \A p \in Partitions : checkpoint[p] \in Nat
    BY Zenon, <1>1 DEF Saved, Offsets
  <2>2. \A p \in Partitions : \A o \in Nat : ~(checkpoint[p] <= o /\ o < checkpoint[p])
    BY <2>1
  <2>3. Len(<< >>) = 0
    BY Zenon
  <2>4. 1..0 = {}
    OBVIOUS
  <2> QED
    BY Zenon, <1>3, <2>2, <2>3, <2>4 DEF Ordered, ReadUpTo
<1>9. OK(t, checkpoint, inbox, view, denied)
  BY Zenon, <1>3, <1>4, <1>5, <1>6, <1>7, <1>8, IdleOK
<1> QED
  BY Zenon, <1>1, <1>2, <1>4, <1>9, SameLog

LEMMA CrashStep == ASSUME IInv, Crash PROVE IInv'
<1>1. /\ LogOK /\ Typed(sub, pos, inbox, view, denied) /\ Saved(checkpoint, view, denied)
      /\ OK(sub, pos, inbox, view, denied)
  BY Zenon DEF IInv
<1>2. sub' = Closed /\ inbox' = << >> /\ UNCHANGED <<logVars, pos, view, checkpoint, denied>>
  BY Zenon DEF Crash
<1>3. Typed(Closed, pos, << >>, view, denied) /\ Inside(pos)
  BY Zenon, <1>1, EmptyFacts, ClosedOK DEF Typed, OK
<1>4. OK(Closed, pos, << >>, view, denied)
  BY Zenon, <1>3, ClosedOK
<1> QED
  BY Zenon, <1>1, <1>2, <1>3, <1>4, SameLog

LEMMA RedeliverStep == ASSUME IInv, Redeliver PROVE IInv'
<1>1. /\ LogOK /\ Typed(sub, pos, inbox, view, denied) /\ Saved(checkpoint, view, denied)
      /\ OK(sub, pos, inbox, view, denied)
  BY Zenon DEF IInv
<1>2. UNCHANGED <<logVars, sub, inbox, view, checkpoint, denied>>
  BY Zenon DEF Redeliver
<1>11. PICK q \in Partitions : \E n \in 0..pos[q] : n < pos[q] /\ pos' = [pos EXCEPT ![q] = n]
  BY Zenon DEF Redeliver
<1>3. PICK n \in 0..pos[q] : n < pos[q] /\ pos' = [pos EXCEPT ![q] = n]
  BY Zenon, <1>11
<1>4. pos \in Offsets /\ \A p \in Partitions : pos[p] \in Nat
  BY Zenon, <1>1 DEF Typed, Offsets
<1>5. n \in Nat
  BY <1>3, <1>4
<1>6. pos' \in Offsets /\ \A p \in Partitions : pos'[p] \in Nat /\ pos'[p] <= pos[p]
  BY <1>3, <1>4, <1>5 DEF Offsets
<1>7. Inside(pos')
  <2>1. \A p \in Partitions : pos[p] <= Len(log[p]) /\ Len(log[p]) \in Nat
    BY Zenon, <1>1, LogFacts DEF OK, Inside
  <2> QED
    BY <1>4, <1>6, <2>1 DEF Inside
<1>8. ASSUME sub.pc # "closed", ~sub.failed PROVE Cursor(sub, pos', Out(sub, inbox), view, denied)
  <2>1. Cursor(sub, pos, Out(sub, inbox), view, denied)
    BY Zenon, <1>1, <1>8 DEF OK
  <2>2. \A p \in Partitions : \A o \in Nat : o < pos'[p] => o < pos[p]
    BY <1>4, <1>6
  <2>3. ReadUpTo(sub.offsets, sub.pending, sub.buffered, pos')
    BY Zenon, <2>1, <2>2 DEF Cursor, Ordered, ReadUpTo
  <2>4. Ordered(sub.offsets, sub.pending, sub.buffered, pos')
    BY Zenon, <2>1, <2>3 DEF Cursor, Ordered
  <2> QED
    BY Zenon, <2>1, <2>4 DEF Cursor
<1>9. OK(sub, pos', inbox, view, denied)
  BY Zenon, <1>1, <1>7, <1>8 DEF OK
<1>10. Typed(sub, pos', inbox, view, denied)
  BY Zenon, <1>1, <1>6 DEF Typed
<1> QED
  BY Zenon, <1>1, <1>2, <1>9, <1>10, SameLog

LEMMA CancelStep == ASSUME IInv, Cancel \/ Error PROVE IInv'
<1>1. /\ LogOK /\ Typed(sub, pos, inbox, view, denied) /\ Saved(checkpoint, view, denied)
      /\ OK(sub, pos, inbox, view, denied)
  BY Zenon DEF IInv
<1>2. /\ sub.pc \in Calls \ {"commit"} /\ (sub' = Idle(sub) \/ sub' = Failed(sub))
      /\ UNCHANGED <<logVars, pos, inbox, view, checkpoint, denied>>
  BY Zenon DEF Cancel, Waiting, Error, Calls
<1>3. sub \in Subs
  BY Zenon, <1>1 DEF Typed
<1>4. inbox = << >> /\ ~sub.failed /\ Out(sub, inbox) = inbox /\ sub.pc # "closed" /\ Inside(pos)
  <2>1. Places(sub, inbox) /\ Inside(pos)
    BY Zenon, <1>1 DEF OK
  <2>2. sub.pc \in Calls /\ sub.pc # "commit" /\ sub.pc # "closed"
    BY Zenon, <1>2 DEF Calls
  <2>3. inbox = << >> /\ ~sub.failed
    BY Zenon, <2>1, <2>2 DEF Places
  <2> QED
    BY Zenon, <2>1, <2>2, <2>3 DEF Out
<1>5. Cursor(sub, pos, inbox, view, denied) /\ Returned(inbox, view, denied)
  BY Zenon, <1>1, <1>4 DEF OK
<1>6. sub.failed = FALSE
  BY Zenon, <1>3, <1>4, SubFields
<1>7. OK(Idle(sub), pos, inbox, view, denied) /\ Idle(sub) \in Subs
  <2> DEFINE t == Idle(sub)
  <2>1. /\ t \in Subs /\ t.pc = "idle" /\ t.offsets = sub.offsets /\ t.state = sub.state
        /\ t.pending = sub.pending /\ t.buffered = sub.buffered /\ t.frames = << >> /\ t.failed = FALSE /\ t.items = 0
    BY Zenon, <1>3, <1>6, IdleFacts
  <2> HIDE DEF t
  <2>2. /\ Passed(t.offsets, t.state, view, denied) /\ Held(t.state, inbox, view, denied) /\ Inside(t.offsets)
        /\ Ordered(t.offsets, t.pending, t.buffered, pos)
    BY Zenon, <1>5, <2>1 DEF Cursor
  <2>3. OK(t, pos, inbox, view, denied)
    BY Zenon, <1>4, <1>5, <2>1, <2>2, IdleOK
  <2> QED
    BY Zenon, <2>1, <2>3 DEF t
<1>8. OK(Failed(sub), pos, inbox, view, denied) /\ Failed(sub) \in Subs
  BY Zenon, <1>3, <1>4, IdleFacts, FailedOK
<1>9. Typed(sub', pos', inbox', view', denied') /\ OK(sub', pos', inbox', view', denied')
  <2>1. CASE sub' = Idle(sub)
    BY Zenon, <1>1, <1>2, <1>7, <2>1 DEF Typed
  <2>2. CASE sub' = Failed(sub)
    BY Zenon, <1>1, <1>2, <1>8, <2>2 DEF Typed
  <2> QED
    BY Zenon, <1>2, <2>1, <2>2
<1> QED
  BY Zenon, <1>1, <1>2, <1>9, SameLog

-----------------------------------------------------------------------------
(* next *)

\* What next does with a record in hand.
LEMMA ExamineCases ==
    ASSUME NEW s, NEW r
    PROVE  \/ Behind(s, r) /\ Examine(s, r) = [s EXCEPT !.pending = None]
           \/ Examine(s, r) = Failed([s EXCEPT !.pending = r])
           \/ ~Behind(s, r) /\ Superseded(s, r) /\ Examine(s, r) = [Advance(s, r) EXCEPT !.pending = None]
           \/ /\ ~Behind(s, r) /\ ~Superseded(s, r) /\ ~Conflicting(s, r)
              /\ Examine(s, r) = [s EXCEPT !.pending = r, !.pc = "nextAuth"]
<1> DEFINE a == Conflicting(s, r) \/ AtLimit(s, r)
           b == Superseded(s, r)
           x == Failed([s EXCEPT !.pending = r])
           y == [Advance(s, r) EXCEPT !.pending = None]
           z == [s EXCEPT !.pending = r, !.pc = "nextAuth"]
<1>1. ~(a /\ b)
  BY Zenon DEF Superseded, AtLimit, Conflicting
<1>2. ~Behind(s, r) => Examine(s, r) = CASE a -> x [] b -> y [] OTHER -> z
  BY Zenon DEF Examine
<1>3. Behind(s, r) => Examine(s, r) = [s EXCEPT !.pending = None]
  BY Zenon DEF Examine
<1>6. ~a => ~Conflicting(s, r)
  BY Zenon
<1> HIDE DEF a, b, x, y, z
<1>4. /\ a => (CASE a -> x [] b -> y [] OTHER -> z) = x
      /\ b => (CASE a -> x [] b -> y [] OTHER -> z) = y
      /\ ~a /\ ~b => (CASE a -> x [] b -> y [] OTHER -> z) = z
  BY Zenon, <1>1
<1> QED
  BY Zenon, <1>2, <1>3, <1>4, <1>6 DEF b, x, y, z

\* A record that is neither in conflict nor superseded is news.
LEMMA NewsFacts ==
    ASSUME NEW s \in Subs, NEW r \in Records, ~Conflicting(s, r)
    PROVE  /\ ~Superseded(s, r) => News(s, r.change)
           /\ Superseded(s, r) => Covers(s.state, r.change)
<1>1. r.change \in Changes /\ r.change.key \in Entities /\ r.change.version \in Nat
  BY Zenon, ChangeFacts DEF Records
<1>2. s.state[r.change.key] # None => s.state[r.change.key].version \in Nat
  BY <1>1, SubFields, ChangeFacts DEF States
<1> QED
  BY <1>1, <1>2 DEF Superseded, News, Covers, Known

\* A call of next that waits for the stream, or for a decision.
LEMMA NextOK ==
    ASSUME NEW t, NEW at, NEW v, NEW d, t.pc = "next", t.failed = FALSE, t.frames = << >>, t.items = 0, t.pending = None,
           Passed(t.offsets, t.state, v, d), Held(t.state, << >>, v, d), Inside(t.offsets),
           Ordered(t.offsets, t.pending, t.buffered, at), Inside(at)
    PROVE  OK(t, at, << >>, v, d)
  BY Zenon, EmptyFacts DEF OK, Places, Calls, Batching, Out, Cursor

LEMMA NextAuthOK ==
    ASSUME NEW t, NEW at, NEW v, NEW d, t.pc = "nextAuth", t.failed = FALSE, t.frames = << >>, t.items = 0, t.pending # None,
           ~Behind(t, t.pending), News(t, t.pending.change),
           Passed(t.offsets, t.state, v, d), Held(t.state, << >>, v, d), Inside(t.offsets),
           Ordered(t.offsets, t.pending, t.buffered, at), Inside(at)
    PROVE  OK(t, at, << >>, v, d)
  BY Zenon, EmptyFacts DEF OK, Places, Calls, Batching, Out, Cursor

\* next examines the record r, with what is behind it in hand.
LEMMA ExamineOK ==
    ASSUME LogOK, NEW s \in Subs, NEW r \in Records, NEW at \in Offsets, NEW v \in Views, NEW d \in SUBSET Changes,
           s.pc = "next", s.failed = FALSE, s.frames = << >>, s.items = 0,
           Passed(s.offsets, s.state, v, d), Held(s.state, << >>, v, d), Inside(s.offsets),
           Ordered(s.offsets, r, s.buffered, at), Inside(at)
    PROVE  Examine(s, r) \in Subs /\ OK(Examine(s, r), at, << >>, v, d)
<1>1. s.offsets \in Offsets /\ s.state \in States /\ s.buffered \in Seq(Records \cup Progress)
  BY Zenon, SubFields
<1>2. r # None /\ Real(r) /\ First(s.offsets, r) /\ r.partition \in Partitions /\ r.offset \in Nat
  BY Zenon, ItemKinds, RealFacts DEF Ordered
<1>3. \A p \in Partitions : s.offsets[p] \in Nat /\ s.offsets[p] <= s.offsets[p]
  BY Zenon, <1>1, OffsetFacts
<1>4. CASE Behind(s, r) /\ Examine(s, r) = [s EXCEPT !.pending = None]
  <2> DEFINE t == [s EXCEPT !.pending = None]
  <2>1. t \in Subs /\ t.pc = "next" /\ t.failed = FALSE /\ t.frames = << >> /\ t.items = 0 /\ t.pending = None
        /\ t.offsets = s.offsets /\ t.state = s.state /\ t.buffered = s.buffered
    BY Zenon DEF Subs
  <2> HIDE DEF t
  <2>2. r.offset < s.offsets[r.partition]
    BY Zenon, <1>4 DEF Behind
  <2>3. Ordered(s.offsets, None, s.buffered, at)
    BY Zenon, <1>1, <1>3, <2>2, DropPending
  <2>4. OK(t, at, << >>, v, d)
    BY Zenon, <2>1, <2>3, NextOK
  <2> QED
    BY Zenon, <1>4, <2>1, <2>4 DEF t
<1>5. CASE Examine(s, r) = Failed([s EXCEPT !.pending = r])
  <2> DEFINE t == [s EXCEPT !.pending = r]
  <2>1. t \in Subs
    BY Zenon DEF Subs
  <2> HIDE DEF t
  <2> QED
    <3>1. /\ Failed(t) \in Subs /\ Failed(t).pc = "idle" /\ Failed(t).frames = << >> /\ Failed(t).failed = TRUE /\ Failed(t).items = 0
      BY Zenon, <2>1, IdleFacts
    <3>2. OK(Failed(t), at, << >>, v, d)
      BY Zenon, <3>1, FailedOK
    <3> QED
      BY Zenon, <1>5, <3>1, <3>2 DEF t
<1>6. CASE ~Behind(s, r) /\ Superseded(s, r) /\ Examine(s, r) = [Advance(s, r) EXCEPT !.pending = None]
  <2> DEFINE off == [s.offsets EXCEPT ![r.partition] = r.offset + 1]
             t == [Advance(s, r) EXCEPT !.pending = None]
  <2>1. Covers(s.state, r.change)
    BY Zenon, <1>6, NewsFacts DEF Superseded
  <2>2. /\ off \in Offsets /\ Passed(off, s.state, v, d) /\ Inside(off)
        /\ \A p \in Partitions : s.offsets[p] <= off[p]
        /\ r.offset < off[r.partition]
    BY Zenon, <1>1, <1>2, <1>6, <2>1, PassRecord DEF Behind
  <2> HIDE DEF off
  <2>3. Advance(s, r) = [s EXCEPT !.offsets = off]
    BY Zenon DEF Advance, off, Subs
  <2>4. t \in Subs /\ t.pc = "next" /\ t.failed = FALSE /\ t.frames = << >> /\ t.items = 0 /\ t.pending = None
        /\ t.offsets = off /\ t.state = s.state /\ t.buffered = s.buffered
    BY ZenonT(60), <2>2, <2>3 DEF Subs
  <2> HIDE DEF t
  <2>5. Ordered(off, None, s.buffered, at)
    BY Zenon, <1>1, <2>2, DropPending
  <2>6. OK(t, at, << >>, v, d)
    BY Zenon, <2>2, <2>4, <2>5, NextOK
  <2> QED
    BY Zenon, <1>6, <2>4, <2>6 DEF t
<1>7. CASE /\ ~Behind(s, r) /\ ~Superseded(s, r) /\ ~Conflicting(s, r)
           /\ Examine(s, r) = [s EXCEPT !.pending = r, !.pc = "nextAuth"]
  <2> DEFINE t == [s EXCEPT !.pending = r, !.pc = "nextAuth"]
  <2>1. t \in Subs /\ t.pc = "nextAuth" /\ t.failed = FALSE /\ t.frames = << >> /\ t.items = 0 /\ t.pending = r
        /\ t.offsets = s.offsets /\ t.state = s.state /\ t.buffered = s.buffered
    BY Zenon DEF Subs, Calls
  <2> HIDE DEF t
  <2>2. News(s, r.change)
    BY Zenon, <1>7, NewsFacts
  <2>3. ~Behind(t, t.pending) /\ News(t, t.pending.change)
    BY Zenon, <1>7, <2>1, <2>2 DEF Behind, News
  <2>4. OK(t, at, << >>, v, d)
    BY Zenon, <1>2, <2>1, <2>3, NextAuthOK
  <2> QED
    BY Zenon, <1>7, <2>1, <2>4 DEF t
<1> QED
  BY Zenon, <1>4, <1>5, <1>6, <1>7, ExamineCases

\* next takes the first of the items b.
LEMMA AcceptOK ==
    ASSUME LogOK, NEW s \in Subs, NEW b \in Seq(Records \cup Progress), b # << >>, NEW at \in Offsets,
           NEW v \in Views, NEW d \in SUBSET Changes,
           s.pc = "next", s.failed = FALSE, s.frames = << >>, s.items = 0, s.pending = None, s.buffered = Tail(b),
           Passed(s.offsets, s.state, v, d), Held(s.state, << >>, v, d), Inside(s.offsets),
           Ordered(s.offsets, None, b, at), Inside(at)
    PROVE  Accept(s, Head(b)) \in Subs /\ OK(Accept(s, Head(b)), at, << >>, v, d)
<1>1. s.offsets \in Offsets /\ s.state \in States /\ Head(b) \in Records \cup Progress
  BY SubFields, HeadTail
<1>2. CASE Head(b) \in Records
  <2>1. Accept(s, Head(b)) = Examine(s, Head(b))
    BY Zenon, <1>2, ItemKinds DEF Accept
  <2>2. Ordered(s.offsets, Head(b), s.buffered, at)
    <3>1. Ordered(s.offsets, Head(b), Tail(b), at)
      BY Zenon, <1>1, <1>2, TakeHead
    <3> QED
      BY Zenon, <3>1
  <2> QED
    BY Zenon, <1>2, <2>1, <2>2, ExamineOK
<1>3. CASE Head(b) \in Progress
  <2> DEFINE off == Past(s.offsets, Head(b))
             t == Progressed(s, Head(b))
  <2>1. Accept(s, Head(b)) = t
    BY Zenon, <1>3, ItemKinds DEF Accept
  <2>2. /\ off \in Offsets /\ Passed(off, s.state, v, d) /\ Inside(off)
        /\ \A p \in Partitions : s.offsets[p] <= off[p]
    BY Zenon, <1>1, <1>3, PassProgress
  <2>3. t = [s EXCEPT !.offsets = off]
    BY Zenon DEF Progressed, Past, Subs
  <2> HIDE DEF off
  <2>4. t \in Subs /\ t.pc = "next" /\ t.failed = FALSE /\ t.frames = << >> /\ t.items = 0 /\ t.pending = None
        /\ t.offsets = off /\ t.state = s.state /\ t.buffered = Tail(b)
    BY Zenon, <2>2, <2>3 DEF Subs
  <2> HIDE DEF t
  <2>5. Ordered(off, None, Tail(b), at)
    BY Zenon, <1>1, <1>3, <2>2, DropProgress
  <2>6. OK(t, at, << >>, v, d)
    BY Zenon, <2>2, <2>4, <2>5, NextOK
  <2> QED
    BY Zenon, <2>1, <2>4, <2>6
<1> QED
  BY Zenon, <1>1, <1>2, <1>3

\* What the invariant says of a call, and of a subscription ready for one.
LEMMA InCall ==
    ASSUME IInv, sub.pc \in Calls \/ Ready
    PROVE  /\ LogOK /\ sub \in Subs /\ pos \in Offsets /\ view \in Views /\ denied \in SUBSET Changes
           /\ Typed(sub, pos, inbox, view, denied)
           /\ Saved(checkpoint, view, denied) /\ Inside(pos)
           /\ inbox = << >> /\ sub.failed = FALSE /\ Places(sub, inbox)
           /\ Passed(sub.offsets, sub.state, view, denied) /\ Inside(sub.offsets)
           /\ Ordered(sub.offsets, sub.pending, sub.buffered, pos)
           /\ sub.pc \notin Batching => sub.items = 0
           /\ sub.pc # "commit" => sub.frames = << >> /\ Held(sub.state, << >>, view, denied)
           /\ sub.pc = "commit" => Held(sub.state, sub.frames, view, denied) /\ Returned(sub.frames, view, denied)
<1>1. /\ LogOK /\ sub \in Subs /\ pos \in Offsets /\ view \in Views /\ denied \in SUBSET Changes
      /\ Typed(sub, pos, inbox, view, denied)
      /\ Saved(checkpoint, view, denied) /\ OK(sub, pos, inbox, view, denied)
  BY Zenon DEF IInv, Typed
<1>2. Places(sub, inbox) /\ Inside(pos) /\ Returned(Out(sub, inbox), view, denied)
  BY Zenon, <1>1 DEF OK
<1>3. inbox = << >> /\ ~sub.failed /\ sub.pc # "closed"
  BY Zenon, <1>2 DEF Places, Ready, Calls
<1>4. sub.failed = FALSE
  BY Zenon, <1>1, <1>3, SubFields
<1>5. Cursor(sub, pos, Out(sub, inbox), view, denied)
  BY Zenon, <1>1, <1>3 DEF OK
<1>6. /\ Passed(sub.offsets, sub.state, view, denied) /\ Inside(sub.offsets)
      /\ Ordered(sub.offsets, sub.pending, sub.buffered, pos) /\ Held(sub.state, Out(sub, inbox), view, denied)
  BY Zenon, <1>5 DEF Cursor
<1>7. sub.pc # "commit" => sub.frames = << >> /\ Held(sub.state, << >>, view, denied)
  BY Zenon, <1>2, <1>3, <1>6 DEF Out, Places
<1>8. sub.pc = "commit" => Held(sub.state, sub.frames, view, denied) /\ Returned(sub.frames, view, denied)
  BY Zenon, <1>2, <1>6 DEF Out
<1>9. sub.pc \notin Batching => sub.items = 0
  BY Zenon, <1>2 DEF Places
<1> QED
  BY Zenon, <1>1, <1>2, <1>3, <1>4, <1>6, <1>7, <1>8, <1>9

LEMMA CallNextStep == ASSUME IInv, CallNext PROVE IInv'
<1>1. /\ LogOK /\ sub \in Subs /\ pos \in Offsets /\ view \in Views /\ denied \in SUBSET Changes
      /\ Saved(checkpoint, view, denied) /\ Inside(pos) /\ inbox = << >> /\ sub.failed = FALSE
      /\ Passed(sub.offsets, sub.state, view, denied) /\ Inside(sub.offsets)
      /\ Ordered(sub.offsets, sub.pending, sub.buffered, pos)
      /\ sub.pc = "idle" /\ sub.frames = << >> /\ sub.items = 0 /\ Held(sub.state, << >>, view, denied)
  <2>1. Ready /\ sub.pc = "idle"
    BY Zenon DEF CallNext, Ready
  <2> QED
    BY Zenon, <2>1, InCall DEF Batching
<1> DEFINE s == [sub EXCEPT !.pc = "next"]
<1>2. /\ sub' = IF s.pending = None THEN s ELSE Examine(s, s.pending)
      /\ UNCHANGED <<logVars, pos, inbox, view, checkpoint, denied>>
  BY Zenon DEF CallNext
<1>3. /\ s \in Subs /\ s.pc = "next" /\ s.failed = FALSE /\ s.frames = << >> /\ s.items = 0 /\ s.pending = sub.pending
      /\ s.offsets = sub.offsets /\ s.state = sub.state /\ s.buffered = sub.buffered
  BY Zenon, <1>1 DEF Subs, Calls
<1> HIDE DEF s
<1>4. CASE s.pending = None
  <2>1. OK(s, pos, << >>, view, denied)
    BY Zenon, <1>1, <1>3, <1>4, NextOK
  <2> QED
    BY Zenon, <1>1, <1>2, <1>3, <1>4, <2>1, EmptyFacts, SameLog DEF Typed
<1>5. CASE s.pending # None
  <2>1. s.pending \in Records
    BY Zenon, <1>3, <1>5, SubFields
  <2>2. Examine(s, s.pending) \in Subs /\ OK(Examine(s, s.pending), pos, << >>, view, denied)
    BY Zenon, <1>1, <1>3, <2>1, ExamineOK
  <2> QED
    BY Zenon, <1>1, <1>2, <1>5, <2>2, EmptyFacts, SameLog DEF Typed
<1> QED
  BY Zenon, <1>4, <1>5

LEMMA NextBufferedStep == ASSUME IInv, NextBuffered PROVE IInv'
<1>1. /\ LogOK /\ sub \in Subs /\ pos \in Offsets /\ view \in Views /\ denied \in SUBSET Changes
      /\ Saved(checkpoint, view, denied) /\ Inside(pos) /\ inbox = << >> /\ sub.failed = FALSE
      /\ Passed(sub.offsets, sub.state, view, denied) /\ Inside(sub.offsets)
      /\ Ordered(sub.offsets, None, sub.buffered, pos) /\ sub.pending = None
      /\ sub.pc = "next" /\ sub.frames = << >> /\ sub.items = 0 /\ Held(sub.state, << >>, view, denied)
  <2>1. sub.pc = "next" /\ sub.pc \in Calls /\ sub.pc \in Calls \ {"nextAuth"}
    BY Zenon DEF NextBuffered, Calls
  <2>2. sub.pending = None
    BY Zenon, <2>1, InCall DEF Places
  <2> QED
    BY Zenon, <2>1, <2>2, InCall DEF Batching
<1> DEFINE s == [sub EXCEPT !.buffered = Tail(@)]
           b == sub.buffered
<1>2. /\ sub' = Accept(s, Head(b)) /\ b # << >>
      /\ UNCHANGED <<logVars, pos, inbox, view, checkpoint, denied>>
  BY Zenon DEF NextBuffered
<1>3. b \in Seq(Records \cup Progress) /\ Tail(b) \in Seq(Records \cup Progress)
  BY Zenon, <1>1, <1>2, SubFields, HeadTail
<1>4. /\ s \in Subs /\ s.pc = "next" /\ s.failed = FALSE /\ s.frames = << >> /\ s.items = 0 /\ s.pending = None
      /\ s.offsets = sub.offsets /\ s.state = sub.state /\ s.buffered = Tail(b)
  BY Zenon, <1>1, <1>3 DEF Subs
<1> HIDE DEF s, b
<1>5. Accept(s, Head(b)) \in Subs /\ OK(Accept(s, Head(b)), pos, << >>, view, denied)
  <2>1. /\ Passed(s.offsets, s.state, view, denied) /\ Held(s.state, << >>, view, denied) /\ Inside(s.offsets)
        /\ Ordered(s.offsets, None, b, pos)
    BY Zenon, <1>1, <1>4 DEF b
  <2> QED
    BY Zenon, <1>1, <1>2, <1>3, <1>4, <2>1, AcceptOK
<1> QED
  BY Zenon, <1>1, <1>2, <1>5, EmptyFacts, SameLog DEF Typed

LEMMA NextStreamStep == ASSUME WellOrdered, IInv, NextStream PROVE IInv'
<1>1. /\ LogOK /\ sub \in Subs /\ pos \in Offsets /\ view \in Views /\ denied \in SUBSET Changes
      /\ Saved(checkpoint, view, denied) /\ Inside(pos) /\ inbox = << >> /\ sub.failed = FALSE
      /\ Passed(sub.offsets, sub.state, view, denied) /\ Inside(sub.offsets)
      /\ Ordered(sub.offsets, None, << >>, pos) /\ sub.pending = None /\ sub.buffered = << >>
      /\ sub.pc = "next" /\ sub.frames = << >> /\ sub.items = 0 /\ Held(sub.state, << >>, view, denied)
  <2>1. sub.pc = "next" /\ sub.pc \in Calls /\ sub.pc \in Calls \ {"nextAuth"} /\ sub.buffered = << >>
    BY Zenon DEF NextStream, Calls
  <2>2. sub.pending = None
    BY Zenon, <2>1, InCall DEF Places
  <2> QED
    BY Zenon, <2>1, <2>2, InCall DEF Batching
<1>2. PICK item \in Yields(pos) : sub' = Accept(sub, item) /\ pos' = After(pos, item)
  BY Zenon DEF NextStream
<1>3. UNCHANGED <<logVars, inbox, view, checkpoint, denied>>
  BY Zenon DEF NextStream
<1> DEFINE b == Append(<< >>, item)
<1>4. /\ item \in Records \cup Progress /\ pos' \in Offsets /\ b \in Seq(Records \cup Progress)
      /\ \A p \in Partitions : pos[p] <= Len(log[p]) => pos'[p] <= Len(log[p])
      /\ Ordered(sub.offsets, None, b, pos')
  <2>1. sub.offsets \in Offsets /\ << >> \in Seq(Records \cup Progress)
    BY Zenon, <1>1, SubFields
  <2> QED
    BY Zenon, <1>1, <1>2, <2>1, TakeYielded
<1>5. Inside(pos')
  BY Zenon, <1>1, <1>4 DEF Inside
<1>6. b # << >> /\ Head(b) = item /\ Tail(b) = << >>
  BY <1>4
<1> HIDE DEF b
<1>7. Accept(sub, Head(b)) \in Subs /\ OK(Accept(sub, Head(b)), pos', << >>, view, denied)
  BY Zenon, <1>1, <1>4, <1>5, <1>6, AcceptOK
<1> QED
  BY Zenon, <1>1, <1>2, <1>3, <1>4, <1>6, <1>7, EmptyFacts, SameLog DEF Typed

\* The pending record is authorized, and returned; or it is not.
LEMMA NextDecidedStep == ASSUME IInv, NEW allowed \in BOOLEAN, NextDecided(allowed) PROVE IInv'
<1>0. sub.pc = "nextAuth" /\ UNCHANGED <<logVars, pos, view, checkpoint>>
  BY Zenon DEF NextDecided
<1>1. /\ LogOK /\ sub \in Subs /\ pos \in Offsets /\ view \in Views /\ denied \in SUBSET Changes
      /\ Saved(checkpoint, view, denied) /\ Inside(pos) /\ inbox = << >> /\ sub.failed = FALSE
      /\ Passed(sub.offsets, sub.state, view, denied) /\ Inside(sub.offsets) /\ Places(sub, inbox)
      /\ Ordered(sub.offsets, sub.pending, sub.buffered, pos)
      /\ sub.frames = << >> /\ sub.items = 0 /\ Held(sub.state, << >>, view, denied)
  <2>1. sub.pc = "nextAuth" /\ sub.pc \in Calls /\ sub.pc # "commit"
    BY Zenon, <1>0 DEF Calls
  <2> QED
    BY Zenon, <2>1, InCall DEF Batching
<1> DEFINE r == sub.pending
           c == r.change
           off == [sub.offsets EXCEPT ![r.partition] = r.offset + 1]
           st == [sub.state EXCEPT ![c.key] = c]
           s == Remember(Advance([sub EXCEPT !.pending = None], r), r)
<1>2. r \in Records /\ r # None /\ ~Behind(sub, r) /\ News(sub, c) /\ c \in Changes
  <2>1. r # None /\ ~Behind(sub, r) /\ News(sub, c)
    BY Zenon, <1>0, <1>1 DEF Places
  <2>2. r \in Records
    BY Zenon, <1>1, <2>1, SubFields
  <2> QED
    BY Zenon, <2>1, <2>2 DEF Records
<1>3. /\ sub.offsets \in Offsets /\ sub.state \in States /\ sub.buffered \in Seq(Records \cup Progress)
  BY Zenon, <1>1, SubFields
<1>4. Real(r) /\ First(sub.offsets, r)
  BY Zenon, <1>1, <1>2 DEF Ordered
<1>5. /\ st \in States /\ Covers(st, c) /\ \A b \in Changes : Covers(sub.state, b) => Covers(st, b)
  BY Zenon, <1>2, <1>3, Remembered DEF News
<1> HIDE DEF st
<1>6. /\ off \in Offsets /\ Passed(off, st, view, denied) /\ Inside(off)
      /\ \A p \in Partitions : sub.offsets[p] <= off[p]
      /\ r.offset < off[r.partition]
  BY ZenonT(60), <1>1, <1>2, <1>3, <1>4, <1>5, PassRecord DEF Behind
<1>7. s = [sub EXCEPT !.pending = None, !.offsets = off, !.state = st]
  BY Zenon, <1>1, <1>2 DEF Remember, Advance, st, off, Subs
<1> HIDE DEF off
<1>8. /\ s \in Subs /\ s.pc = sub.pc /\ s.failed = FALSE /\ s.frames = << >> /\ s.items = 0 /\ s.pending = None
      /\ s.offsets = off /\ s.state = st /\ s.buffered = sub.buffered
  BY ZenonT(60), <1>1, <1>5, <1>6, <1>7 DEF Subs
<1>9. Ordered(off, None, sub.buffered, pos)
  BY Zenon, <1>1, <1>2, <1>3, <1>6, DropPending
<1>10. CASE allowed
  <2> DEFINE f == Frame(c, off)
  <2>1. sub' = Idle(s) /\ inbox' = <<f>> /\ denied' = denied
    BY Zenon, <1>8, <1>10 DEF NextDecided
  <2>2. f \in Frames /\ f.change = c /\ f.offsets = off
    BY Zenon, <1>2, <1>6 DEF Frame, Frames
  <2>3. FrameIsReal(f)
    <3>1. r.partition \in Partitions /\ r.offset \in Committed(r.partition) /\ c = ChangeAt(r.partition, r.offset)
      BY Zenon, <1>1, <1>2, <1>4, RealFacts
    <3> QED
      BY Zenon, <1>6, <2>2, <3>1 DEF FrameIsReal
  <2> HIDE DEF f, s
  <2>4. << >> \in Seq(Frames) /\ <<f>> = Append(<< >>, f)
    OBVIOUS
  <2>5. Held(st, Append(<< >>, f), view, denied)
    <3>1. Held([sub.state EXCEPT ![c.key] = c], Append(<< >>, f), view, denied)
      BY Zenon, <1>1, <1>2, <1>3, <2>2, <2>4, HeldMore
    <3> QED
      BY Zenon, <3>1 DEF st
  <2>6. Append(<< >>, f) \in Seq(Frames) /\ Returned(Append(<< >>, f), view, denied)
    BY Zenon, <1>1, <1>5, <1>6, <2>2, <2>3, <2>4, <2>5, EmptyFacts, ReturnMore
  <2>7. /\ Idle(s) \in Subs /\ Idle(s).pc = "idle" /\ Idle(s).offsets = off /\ Idle(s).state = st
        /\ Idle(s).pending = None /\ Idle(s).buffered = sub.buffered /\ Idle(s).frames = << >>
        /\ Idle(s).failed = FALSE /\ Idle(s).items = 0
    BY Zenon, <1>8, IdleFacts
  <2>8. OK(Idle(s), pos, inbox', view, denied)
    BY Zenon, <1>1, <1>6, <1>9, <2>1, <2>4, <2>5, <2>6, <2>7, IdleOK
  <2> QED
    BY ZenonT(30), <1>0, <1>1, <2>1, <2>4, <2>6, <2>7, <2>8, SameLog DEF Typed
<1>11. CASE ~allowed
  <2> DEFINE t == [s EXCEPT !.pc = "next"]
  <2>1. sub' = t /\ inbox' = inbox /\ denied' = denied \cup {c}
    BY Zenon, <1>11 DEF NextDecided
  <2> HIDE DEF s
  <2>2. /\ t \in Subs /\ t.pc = "next" /\ t.failed = FALSE /\ t.frames = << >> /\ t.items = 0 /\ t.pending = None
        /\ t.offsets = off /\ t.state = st /\ t.buffered = sub.buffered
    BY Zenon, <1>8 DEF Subs, Calls
  <2> HIDE DEF t
  <2>3. Held(st, << >>, view, denied \cup {c})
    BY Zenon, <1>1, <1>2, <1>3, HeldDenied DEF st
  <2>4. Passed(off, st, view, denied \cup {c})
    BY Zenon, <1>6 DEF Passed, SettledBy
  <2>5. OK(t, pos, << >>, view, denied \cup {c})
    BY Zenon, <1>1, <1>6, <1>9, <2>2, <2>3, <2>4, NextOK
  <2>6. Saved(checkpoint, view, denied \cup {c})
    BY Zenon, <1>1 DEF Saved, SettledBy
  <2>7. denied \cup {c} \in SUBSET Changes
    BY Zenon, <1>1, <1>2
  <2> QED
    BY Zenon, <1>0, <1>1, <2>1, <2>2, <2>5, <2>6, <2>7, EmptyFacts, SameLog DEF Typed
<1> QED
  BY Zenon, <1>10, <1>11
=============================================================================
