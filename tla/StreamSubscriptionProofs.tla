---------------------- MODULE StreamSubscriptionProofs ----------------------
(***************************************************************************)
(* The steps of next_batch() and of the reader keep the invariant of       *)
(* StreamSubscriptionSteps, and what follows for every subscription.       *)
(***************************************************************************)
EXTENDS StreamSubscriptionSteps

-----------------------------------------------------------------------------
(* next_batch: filling the batch *)

\* The records of the batch.
LEMMA BatchRecords ==
    ASSUME NEW s \in Subs, s.items <= Len(s.buffered)
    PROVE  /\ \A x : x \in RecordsIn(Batch(s)) <=>
                 \E i \in 1..s.items : IsRecord(s.buffered[i]) /\ x = s.buffered[i]
           /\ \A i \in 1..s.items : i \in 1..Len(s.buffered) /\ s.buffered[i] \in Records \cup Progress
           /\ RecordsIn(Batch(s)) \subseteq Records
<1> DEFINE b == s.buffered
           q == Batch(s)
<1>1. b \in Seq(Records \cup Progress) /\ s.items \in Nat /\ Len(b) \in Nat
  BY Zenon, SubFields, SeqFacts
<1>2. Len(q) = s.items /\ \A i \in 1..s.items : q[i] = b[i]
  <2>1. 1 - 1 \in Nat /\ 1 + s.items - 1 = s.items
    BY <1>1
  <2> QED
    BY <1>1 DEF Batch
<1>3. \A i \in 1..s.items : i \in 1..Len(b) /\ b[i] \in Records \cup Progress
  BY <1>1, SeqFacts
<1> HIDE DEF b, q
<1>4. ASSUME NEW x PROVE x \in RecordsIn(q) <=> \E i \in 1..s.items : IsRecord(b[i]) /\ x = b[i]
  BY Zenon, <1>2 DEF RecordsIn
<1>5. RecordsIn(q) \subseteq Records
  BY Zenon, <1>3, <1>4, ItemKinds
<1> QED
  BY Zenon, <1>3, <1>4, <1>5 DEF b, q

\* A call of next_batch that fills its batch, or waits for decisions.
LEMMA CollectOK ==
    ASSUME NEW t, NEW at, NEW v, NEW d, t.pc = "collect", t.failed = FALSE, t.frames = << >>, t.pending = None,
           t.items <= Len(t.buffered), Distinct(t.buffered, t.items),
           Passed(t.offsets, t.state, v, d), Held(t.state, << >>, v, d), Inside(t.offsets),
           Ordered(t.offsets, None, t.buffered, at), Inside(at)
    PROVE  OK(t, at, << >>, v, d)
  BY Zenon, EmptyFacts DEF OK, Places, Calls, Batching, Out, Cursor

LEMMA BatchAuthOK ==
    ASSUME NEW t, NEW at, NEW v, NEW d, t.pc = "batchAuth", t.failed = FALSE, t.frames = << >>, t.pending = None,
           t.items <= Len(t.buffered), Distinct(t.buffered, t.items), Checked(t),
           Passed(t.offsets, t.state, v, d), Held(t.state, << >>, v, d), Inside(t.offsets),
           Ordered(t.offsets, None, t.buffered, at), Inside(at)
    PROVE  OK(t, at, << >>, v, d)
  BY Zenon, EmptyFacts DEF OK, Places, Calls, Batching, Out, Cursor

\* A subscription that fills its batch.
Collecting(s, at, v, d) ==
    /\ s.pc = "collect" /\ s.failed = FALSE /\ s.frames = << >> /\ s.pending = None
    /\ s.items <= Len(s.buffered) /\ Distinct(s.buffered, s.items)
    /\ Passed(s.offsets, s.state, v, d) /\ Held(s.state, << >>, v, d) /\ Inside(s.offsets)
    /\ Ordered(s.offsets, None, s.buffered, at) /\ Inside(at)

\* The batch ends: its records are compared with the state.
LEMMA CheckOK ==
    ASSUME LogOK, NEW s \in Subs, NEW at \in Offsets, NEW v \in Views, NEW d \in SUBSET Changes,
           Collecting(s, at, v, d)
    PROVE  Check(s) \in Subs /\ OK(Check(s), at, << >>, v, d)
<1> DEFINE fresh == {r \in RecordsIn(Batch(s)) : ~Behind(s, r)}
           news == {f \in fresh : ~Superseded(s, f)}
           checked == {<<r.partition, r.offset>> : r \in news}
           t == [s EXCEPT !.pc = "batchAuth", !.checked = checked]
<1>1. CASE \E r \in fresh : Conflicting(s, r)
  <2>1. Check(s) = Failed(s)
    BY Zenon, <1>1 DEF Check
  <2>2. /\ Failed(s) \in Subs /\ Failed(s).pc = "idle" /\ Failed(s).frames = << >> /\ Failed(s).failed = TRUE
        /\ Failed(s).items = 0 /\ Inside(at)
    BY Zenon, IdleFacts DEF Collecting
  <2>3. OK(Failed(s), at, << >>, v, d)
    BY Zenon, <2>2, FailedOK
  <2> QED
    BY Zenon, <2>1, <2>2, <2>3
<1>2. CASE ~\E r \in fresh : Conflicting(s, r)
  <2>1. Check(s) = t
    BY Zenon, <1>2 DEF Check
  <2>2. /\ \A x : x \in RecordsIn(Batch(s)) <=>
                 \E i \in 1..s.items : IsRecord(s.buffered[i]) /\ x = s.buffered[i]
        /\ \A i \in 1..s.items : i \in 1..Len(s.buffered) /\ s.buffered[i] \in Records \cup Progress
        /\ RecordsIn(Batch(s)) \subseteq Records
    BY Zenon, BatchRecords DEF Collecting
  <2>3. news \subseteq Records
    BY Zenon, <2>2
  <2>4. checked \in SUBSET (Partitions \X Nat)
    <3>1. \A r \in Records : <<r.partition, r.offset>> \in Partitions \X Nat
      BY Zenon DEF Records
    <3> HIDE DEF news
    <3> QED
      BY Zenon, <2>3, <3>1
  <2>8. ASSUME NEW i \in 1..s.items, IsRecord(s.buffered[i]), ~Behind(s, s.buffered[i])
        PROVE  /\ s.buffered[i] \in fresh /\ s.buffered[i] \in Records /\ ~Conflicting(s, s.buffered[i])
               /\ s.buffered[i] = Record(s.buffered[i].partition, s.buffered[i].offset)
    <3>1. s.buffered[i] \in RecordsIn(Batch(s))
      BY Zenon, <2>2, <2>8
    <3>2. s.buffered[i] \in fresh /\ s.buffered[i] \in Records
      BY Zenon, <2>2, <2>8, <3>1
    <3>3. Real(s.buffered[i])
      BY Zenon, <2>2 DEF Collecting, Ordered
    <3> QED
      BY Zenon, <1>2, <3>2, <3>3, RealFacts
  <2>9. \A f \in fresh : \E i \in 1..s.items : f = s.buffered[i] /\ IsRecord(s.buffered[i]) /\ ~Behind(s, s.buffered[i])
    BY Zenon, <2>2
  <2>10. ASSUME NEW i \in 1..s.items, IsRecord(s.buffered[i]), ~Behind(s, s.buffered[i])
         PROVE  /\ At(s.buffered[i]) \in checked => News(s, s.buffered[i].change)
                /\ At(s.buffered[i]) \notin checked => Covers(s.state, s.buffered[i].change)
    <3> DEFINE r == s.buffered[i]
    <3>1. r \in fresh /\ r \in Records /\ ~Conflicting(s, r) /\ r = Record(r.partition, r.offset)
      BY Zenon, <2>8, <2>10
    <3>2. ASSUME At(r) \in checked PROVE News(s, r.change)
      <4>1. PICK f \in news : At(r) = <<f.partition, f.offset>>
        BY Zenon, <3>2
      <4>2. f \in fresh /\ ~Superseded(s, f) /\ f.partition = r.partition /\ f.offset = r.offset
        BY Zenon, <4>1 DEF At
      <4>3. f = Record(f.partition, f.offset)
        BY Zenon, <2>8, <2>9, <4>2
      <4>4. f = r
        BY Zenon, <3>1, <4>2, <4>3
      <4> QED
        BY Zenon, <3>1, <4>2, <4>4, NewsFacts
    <3>3. ASSUME At(r) \notin checked PROVE Covers(s.state, r.change)
      <4>1. r \notin news
        <5>1. At(r) = <<r.partition, r.offset>>
          BY Zenon DEF At
        <5> HIDE DEF r, news
        <5> QED
          BY Zenon, <3>3, <5>1
      <4>2. Superseded(s, r)
        BY Zenon, <3>1, <4>1
      <4> QED
        BY Zenon, <3>1, <4>2, NewsFacts
    <3> QED
      BY Zenon, <3>2, <3>3
  <2> HIDE DEF fresh, news, checked
  <2>5. /\ t \in Subs /\ t.pc = "batchAuth" /\ t.failed = FALSE /\ t.frames = << >> /\ t.pending = None
        /\ t.items = s.items /\ t.buffered = s.buffered /\ t.checked = checked /\ t.offsets = s.offsets
        /\ t.state = s.state
    BY Zenon, <2>4 DEF Subs, Calls, Collecting
  <2> HIDE DEF t
  <2>6. Checked(t)
    BY Zenon, <2>5, <2>10 DEF Checked, Behind, News
  <2>7. OK(t, at, << >>, v, d)
    BY Zenon, <2>5, <2>6, BatchAuthOK DEF Collecting
  <2> QED
    BY Zenon, <2>1, <2>5, <2>7
<1> QED
  BY Zenon, <1>1, <1>2

\* The next item, which is in hand, is added to the batch or ends it.
LEMMA CollectedOK ==
    ASSUME LogOK, NEW s \in Subs, NEW at \in Offsets, NEW v \in Views, NEW d \in SUBSET Changes,
           Collecting(s, at, v, d), s.items < Len(s.buffered)
    PROVE  Collected(s) \in Subs /\ OK(Collected(s), at, << >>, v, d)
<1> DEFINE item == s.buffered[s.items + 1]
           t == [s EXCEPT !.items = @ + 1]
<1>1. CASE Repeats(s, item)
  <2>1. Collected(s) = Check(s)
    BY Zenon, <1>1 DEF Collected
  <2> QED
    BY Zenon, <2>1, CheckOK
<1>2. CASE ~Repeats(s, item)
  <2>1. Collected(s) = t
    BY Zenon, <1>2 DEF Collected
  <2>2. /\ t \in Subs /\ t.pc = "collect" /\ t.failed = FALSE /\ t.frames = << >> /\ t.pending = None
        /\ t.items = s.items + 1 /\ t.buffered = s.buffered /\ t.offsets = s.offsets /\ t.state = s.state
    <3>1. s.items + 1 \in Nat
      BY SubFields
    <3>2. /\ t \in Subs /\ t.pc = s.pc /\ t.failed = s.failed /\ t.frames = s.frames /\ t.pending = s.pending
          /\ t.items = s.items + 1 /\ t.buffered = s.buffered /\ t.offsets = s.offsets /\ t.state = s.state
      BY Zenon, <3>1 DEF Subs
    <3> QED
      BY Zenon, <3>2 DEF Collecting
  <2> HIDE DEF t
  <2>3. s.items \in Nat /\ Len(s.buffered) \in Nat /\ t.items <= Len(s.buffered) /\ s.items <= Len(s.buffered)
    <3>1. s.items \in Nat /\ Len(s.buffered) \in Nat
      BY Zenon, SubFields, SeqFacts
    <3> QED
      BY <2>2, <3>1
  <2>4. Distinct(s.buffered, s.items + 1)
    <3>1. \A x : x \in RecordsIn(Batch(s)) <=>
                 \E i \in 1..s.items : IsRecord(s.buffered[i]) /\ x = s.buffered[i]
      BY Zenon, <2>3, BatchRecords
    <3>2. ASSUME NEW i \in 1..s.items, IsRecord(s.buffered[i]), IsRecord(item)
          PROVE  s.buffered[i].change.key # item.change.key
      BY Zenon, <1>2, <3>1, <3>2 DEF Repeats
    <3>3. SUFFICES ASSUME NEW i \in 1..(s.items + 1), NEW j \in 1..(s.items + 1), i < j,
                          IsRecord(s.buffered[i]), IsRecord(s.buffered[j])
                   PROVE  s.buffered[i].change.key # s.buffered[j].change.key
      BY Zenon, <3>3 DEF Distinct
    <3>4. i \in 1..s.items
      BY <2>3, <3>3
    <3>5. CASE j = s.items + 1
      BY Zenon, <3>2, <3>3, <3>4, <3>5
    <3>6. CASE j # s.items + 1
      <4>1. j \in 1..s.items
        BY <2>3, <3>6
      <4> QED
        BY Zenon, <3>3, <3>4, <4>1 DEF Distinct, Collecting
    <3> QED
      BY Zenon, <3>5, <3>6
  <2>5. OK(t, at, << >>, v, d)
    BY Zenon, <2>2, <2>3, <2>4, CollectOK DEF Collecting
  <2> QED
    BY Zenon, <2>1, <2>2, <2>5
<1> QED
  BY Zenon, <1>1, <1>2

LEMMA CallBatchStep == ASSUME IInv, NEW max \in BatchSizes, CallBatch(max) PROVE IInv'
<1>1. /\ LogOK /\ sub \in Subs /\ pos \in Offsets /\ view \in Views /\ denied \in SUBSET Changes
      /\ Saved(checkpoint, view, denied) /\ Inside(pos) /\ inbox = << >> /\ sub.failed = FALSE
      /\ Passed(sub.offsets, sub.state, view, denied) /\ Inside(sub.offsets)
      /\ Ordered(sub.offsets, sub.pending, sub.buffered, pos)
      /\ sub.pc = "idle" /\ sub.frames = << >> /\ sub.items = 0 /\ Held(sub.state, << >>, view, denied)
  <2>1. Ready /\ sub.pc = "idle"
    BY Zenon DEF CallBatch, Ready
  <2> QED
    BY Zenon, <2>1, InCall DEF Batching
<1> DEFINE b == IF sub.pending = None THEN sub.buffered ELSE <<sub.pending>> \o sub.buffered
           t == [sub EXCEPT !.pc = "collect", !.max = max, !.pending = None, !.buffered = b]
<1>2. /\ sub' = t /\ UNCHANGED <<logVars, pos, inbox, view, checkpoint, denied>>
  BY Zenon DEF CallBatch
<1>3. sub.buffered \in Seq(Records \cup Progress) /\ sub.pending \in Records \cup {None} /\ sub.offsets \in Offsets
  BY Zenon, <1>1, SubFields
<1>4. b \in Seq(Records \cup Progress) /\ Ordered(sub.offsets, None, b, pos)
  <2>1. CASE sub.pending = None
    BY Zenon, <1>1, <1>3, <2>1
  <2>2. CASE sub.pending # None
    <3>1. sub.pending \in Records
      BY Zenon, <1>3, <2>2
    <3>2. <<sub.pending>> \o sub.buffered \in Seq(Records \cup Progress)
          /\ Ordered(sub.offsets, None, <<sub.pending>> \o sub.buffered, pos)
      BY Zenon, <1>1, <1>3, <3>1, PutBack
    <3> QED
      BY Zenon, <2>2, <3>2
  <2> QED
    BY Zenon, <2>1, <2>2
<1> HIDE DEF b
<1>5. max \in Nat
  BY Zenon, BatchAssumption
<1>6. /\ t \in Subs /\ t.pc = "collect" /\ t.failed = FALSE /\ t.frames = << >> /\ t.pending = None
      /\ t.items = 0 /\ t.buffered = b /\ t.offsets = sub.offsets /\ t.state = sub.state
  BY Zenon, <1>1, <1>4, <1>5 DEF Subs, Calls
<1> HIDE DEF t
<1>7. 0 <= Len(b) /\ Distinct(b, 0)
  BY <1>4, SeqFacts DEF Distinct
<1>8. OK(t, pos, << >>, view, denied)
  BY Zenon, <1>1, <1>4, <1>6, <1>7, CollectOK
<1> QED
  BY Zenon, <1>1, <1>2, <1>6, <1>8, EmptyFacts, SameLog DEF Typed

\* A batch that is being filled.
LEMMA InCollect ==
    ASSUME IInv, sub.pc = "collect"
    PROVE  /\ LogOK /\ sub \in Subs /\ pos \in Offsets /\ view \in Views /\ denied \in SUBSET Changes
           /\ Saved(checkpoint, view, denied) /\ inbox = << >> /\ Inside(pos)
           /\ Collecting(sub, pos, view, denied)
<1>1. sub.pc \in Calls /\ sub.pc \in Calls \ {"nextAuth"} /\ sub.pc \in Batching /\ sub.pc # "commit"
  BY Zenon DEF Calls, Batching
<1>2. Places(sub, inbox)
  BY Zenon, <1>1, InCall
<1>3. sub.pending = None /\ sub.items <= Len(sub.buffered) /\ Distinct(sub.buffered, sub.items)
  BY Zenon, <1>1, <1>2 DEF Places
<1> QED
  BY Zenon, <1>1, <1>3, InCall DEF Collecting

LEMMA CollectStep ==
    ASSUME WellOrdered, IInv, CollectBuffered \/ CollectStream \/ CollectEnds
    PROVE  IInv'
<1>1. sub.pc = "collect" /\ UNCHANGED <<logVars, inbox, view, checkpoint, denied>>
  BY Zenon DEF CollectBuffered, CollectStream, CollectEnds
<1>2. /\ LogOK /\ sub \in Subs /\ pos \in Offsets /\ view \in Views /\ denied \in SUBSET Changes
      /\ Saved(checkpoint, view, denied) /\ inbox = << >> /\ Inside(pos)
      /\ Collecting(sub, pos, view, denied)
  BY Zenon, <1>1, InCollect
<1>3. ASSUME NEW t \in Subs, NEW at \in Offsets, sub' = t, pos' = at, OK(t, at, << >>, view, denied)
      PROVE  IInv'
  BY Zenon, <1>1, <1>2, <1>3, EmptyFacts, SameLog DEF Typed
<1>4. CASE CollectBuffered
  <2>1. Collected(sub) \in Subs /\ OK(Collected(sub), pos, << >>, view, denied)
    BY Zenon, <1>2, <1>4, CollectedOK DEF CollectBuffered
  <2> QED
    BY Zenon, <1>2, <1>3, <1>4, <2>1 DEF CollectBuffered
<1>5. CASE CollectEnds
  <2>1. Check(sub) \in Subs /\ OK(Check(sub), pos, << >>, view, denied)
    BY Zenon, <1>2, CheckOK
  <2> QED
    BY Zenon, <1>2, <1>3, <1>5, <2>1 DEF CollectEnds
<1>6. CASE CollectStream
  <2>1. PICK item \in Yields(pos) : /\ sub' = Collected([sub EXCEPT !.buffered = Append(@, item)])
                                    /\ pos' = After(pos, item)
    BY Zenon, <1>6 DEF CollectStream
  <2> DEFINE b == sub.buffered
             more == Append(b, item)
             s == [sub EXCEPT !.buffered = more]
  <2>2. b \in Seq(Records \cup Progress) /\ sub.offsets \in Offsets /\ sub.items \in Nat
    BY Zenon, <1>2, SubFields
  <2>3. /\ item \in Records \cup Progress /\ pos' \in Offsets /\ more \in Seq(Records \cup Progress)
        /\ \A p \in Partitions : pos[p] <= Len(log[p]) => pos'[p] <= Len(log[p])
        /\ Ordered(sub.offsets, None, more, pos')
    BY Zenon, <1>2, <2>1, <2>2, TakeYielded DEF Collecting
  <2>4. /\ Len(b) \in Nat /\ Len(more) = Len(b) + 1 /\ \A i \in 1..Len(b) : more[i] = b[i]
    BY <2>2, <2>3, AppendOne
  <2> HIDE DEF more
  <2>5. /\ s \in Subs /\ s.pc = "collect" /\ s.failed = FALSE /\ s.frames = << >> /\ s.pending = None
        /\ s.items = sub.items /\ s.buffered = more /\ s.offsets = sub.offsets /\ s.state = sub.state
    BY Zenon, <1>2, <2>3 DEF Subs, Collecting
  <2>6. sub' = Collected(s)
    BY Zenon, <2>1 DEF more
  <2> HIDE DEF s
  <2>7. s.items = Len(b) /\ s.items < Len(more) /\ s.items <= Len(more)
    BY SMTT(30), <1>6, <2>2, <2>4, <2>5 DEF CollectStream
  <2>8. Distinct(more, s.items)
    <3>1. Distinct(b, s.items) /\ \A i \in 1..s.items : more[i] = b[i]
      BY Zenon, <1>2, <2>4, <2>5, <2>7 DEF Collecting
    <3> QED
      BY <3>1 DEF Distinct
  <2>9. Inside(pos')
    BY Zenon, <1>2, <2>3 DEF Inside
  <2>10. Collecting(s, pos', view, denied)
    BY SMTT(30), <1>2, <2>3, <2>5, <2>7, <2>8, <2>9 DEF Collecting
  <2>11. Collected(s) \in Subs /\ OK(Collected(s), pos', << >>, view, denied)
    BY <1>2, <2>3, <2>5, <2>7, <2>10, CollectedOK
  <2> QED
    BY Zenon, <1>3, <2>3, <2>6, <2>11
<1> QED
  BY Zenon, <1>4, <1>5, <1>6

-----------------------------------------------------------------------------
(* next_batch: committing the batch *)

\* A batch whose decisions are awaited, or that is being committed.
LEMMA InBatch ==
    ASSUME IInv, sub.pc \in {"batchAuth", "commit"}
    PROVE  /\ LogOK /\ sub \in Subs /\ pos \in Offsets /\ view \in Views /\ denied \in SUBSET Changes
           /\ Saved(checkpoint, view, denied) /\ inbox = << >> /\ Inside(pos)
           /\ sub.failed = FALSE /\ sub.pending = None /\ sub.items <= Len(sub.buffered)
           /\ Distinct(sub.buffered, sub.items) /\ Checked(sub) /\ (sub.pc = "commit" => Queried(sub))
           /\ Passed(sub.offsets, sub.state, view, denied) /\ Inside(sub.offsets)
           /\ Ordered(sub.offsets, None, sub.buffered, pos)
           /\ (sub.pc = "batchAuth" => sub.frames = << >>)
           /\ Held(sub.state, sub.frames, view, denied) /\ Returned(sub.frames, view, denied)
<1>1. sub.pc \in Calls /\ sub.pc \in Calls \ {"nextAuth"} /\ sub.pc \in Batching /\ (sub.pc = "batchAuth" => sub.pc # "commit")
  BY Zenon DEF Calls, Batching
<1>2. Places(sub, inbox)
  BY Zenon, <1>1, InCall
<1>3. /\ sub.pending = None /\ sub.items <= Len(sub.buffered) /\ Distinct(sub.buffered, sub.items)
      /\ Checked(sub) /\ (sub.pc = "commit" => Queried(sub))
  BY Zenon, <1>1, <1>2 DEF Places
<1>4. Ordered(sub.offsets, None, sub.buffered, pos)
  BY Zenon, <1>1, <1>3, InCall
<1>5. Held(sub.state, sub.frames, view, denied) /\ Returned(sub.frames, view, denied)
  <2>1. CASE sub.pc = "commit"
    BY Zenon, <1>1, <2>1, InCall
  <2>2. CASE sub.pc # "commit"
    <3>1. sub.frames = << >> /\ Held(sub.state, << >>, view, denied)
      BY Zenon, <1>1, <2>2, InCall
    <3> QED
      BY Zenon, <3>1, EmptyFacts
  <2> QED
    BY Zenon, <2>1, <2>2
<1> QED
  BY Zenon, <1>1, <1>3, <1>4, <1>5, InCall

\* The frames of a batch that is being committed are not yet returned.
LEMMA CommitOK ==
    ASSUME NEW t, NEW at, NEW v, NEW d, t.pc = "commit", t.failed = FALSE, t.pending = None,
           t.items <= Len(t.buffered), Distinct(t.buffered, t.items), Checked(t), Queried(t),
           Passed(t.offsets, t.state, v, d), Held(t.state, t.frames, v, d), Returned(t.frames, v, d),
           Inside(t.offsets), Ordered(t.offsets, None, t.buffered, at), Inside(at)
    PROVE  OK(t, at, << >>, v, d)
  BY Zenon DEF OK, Places, Calls, Batching, Out, Cursor

LEMMA BatchDecidedStep == ASSUME IInv, NEW granted \in SUBSET sub.checked, BatchDecided(granted) PROVE IInv'
<1> DEFINE b == sub.buffered
           mine == {x \in RecordsIn(Batch(sub)) : <<x.partition, x.offset>> \in granted}
           visible == {r.change : r \in mine}
           Row(k) == (CHOOSE c \in visible : c.key = k).data
           rows == [k \in {c.key : c \in visible} |-> Row(k)]
           t == [sub EXCEPT !.pc = "commit", !.granted = granted, !.rows = rows]
<1>1. /\ sub.pc = "batchAuth" /\ sub' = t
      /\ UNCHANGED <<logVars, pos, inbox, view, checkpoint, denied>>
  BY Zenon DEF BatchDecided
<1>2. /\ LogOK /\ sub \in Subs /\ pos \in Offsets /\ view \in Views /\ denied \in SUBSET Changes
      /\ Saved(checkpoint, view, denied) /\ inbox = << >> /\ Inside(pos)
      /\ sub.failed = FALSE /\ sub.pending = None /\ sub.items <= Len(sub.buffered)
      /\ Distinct(sub.buffered, sub.items) /\ Checked(sub)
      /\ Passed(sub.offsets, sub.state, view, denied) /\ Inside(sub.offsets)
      /\ Ordered(sub.offsets, None, sub.buffered, pos)
      /\ Held(sub.state, sub.frames, view, denied) /\ Returned(sub.frames, view, denied)
  BY Zenon, <1>1, InBatch
<1>3. /\ \A x : x \in RecordsIn(Batch(sub)) <=> \E i \in 1..sub.items : IsRecord(b[i]) /\ x = b[i]
      /\ RecordsIn(Batch(sub)) \subseteq Records
  BY Zenon, <1>2, BatchRecords
<1>4. /\ \A c \in visible : c \in Changes
      /\ \A c \in visible : \E i \in 1..sub.items : IsRecord(b[i]) /\ c = b[i].change
      /\ \A i \in 1..sub.items : IsRecord(b[i]) /\ At(b[i]) \in granted => b[i].change \in visible
  <2>1. \A r \in Records : r.change \in Changes
    BY Zenon DEF Records
  <2>2. \A i \in 1..sub.items : IsRecord(b[i]) /\ At(b[i]) \in granted => b[i] \in mine
    BY Zenon, <1>3 DEF At
  <2>3. \A r \in mine : r \in Records /\ \E i \in 1..sub.items : IsRecord(b[i]) /\ r = b[i]
    BY Zenon, <1>3
  <2> HIDE DEF mine, b
  <2> QED
    BY Zenon, <2>1, <2>2, <2>3
<1>5. ASSUME NEW i \in 1..sub.items, IsRecord(b[i]), At(b[i]) \in granted
      PROVE  Row(b[i].change.key) = b[i].change.data /\ b[i].change.key \in {c.key : c \in visible}
  <2> DEFINE k == b[i].change.key
  <2>1. b[i].change \in visible /\ \E c \in visible : c.key = k
    BY Zenon, <1>4, <1>5
  <2>2. ASSUME NEW c \in visible, c.key = k PROVE c = b[i].change
    <3>1. PICK j \in 1..sub.items : IsRecord(b[j]) /\ c = b[j].change
      BY Zenon, <1>4
    <3>2. i \in Int /\ j \in Int
      BY <1>2, SubFields
    <3>3. ~(i < j) /\ ~(j < i)
      BY Zenon, <1>2, <1>5, <2>2, <3>1 DEF Distinct
    <3>4. i = j
      BY <3>2, <3>3
    <3> QED
      BY Zenon, <3>1, <3>4
  <2> HIDE DEF visible, b
  <2>3. (CHOOSE c \in visible : c.key = k) = b[i].change
    BY Zenon, <2>1, <2>2
  <2> QED
    BY Zenon, <2>1, <2>3
<1>6. rows \in Rows
  <2>1. \A k \in {c.key : c \in visible} : Row(k) \in Payloads /\ k \in Entities
    <3> SUFFICES ASSUME NEW k \in {c.key : c \in visible} PROVE Row(k) \in Payloads /\ k \in Entities
      BY Zenon
    <3> HIDE DEF visible
    <3>1. \E c \in visible : c.key = k
      BY Zenon
    <3>2. (CHOOSE c \in visible : c.key = k) \in visible /\ (CHOOSE c \in visible : c.key = k).key = k
      BY Zenon, <3>1
    <3>3. (CHOOSE c \in visible : c.key = k) \in Changes
      BY Zenon, <1>4, <3>2
    <3> QED
      BY Zenon, <3>2, <3>3 DEF Changes
  <2> HIDE DEF visible, Row
  <2>2. rows \in [{c.key : c \in visible} -> Payloads] /\ {c.key : c \in visible} \in SUBSET Entities
    BY Zenon, <2>1
  <2> QED
    BY Zenon, <2>2 DEF Rows
<1>7. granted \in SUBSET (Partitions \X Nat)
  BY Zenon, <1>2, SubFields
<1>12. \A i \in 1..sub.items : IsRecord(b[i]) /\ At(b[i]) \in granted => rows[b[i].change.key] = b[i].change.data
  <2> HIDE DEF visible, Row, b
  <2> QED
    BY Zenon, <1>5
<1> HIDE DEF rows, b
<1>8. /\ t \in Subs /\ t.pc = "commit" /\ t.failed = FALSE /\ t.frames = sub.frames /\ t.pending = None
      /\ t.items = sub.items /\ t.buffered = b /\ t.offsets = sub.offsets /\ t.state = sub.state
      /\ t.checked = sub.checked /\ t.granted = granted /\ t.rows = rows
  BY Zenon, <1>2, <1>6, <1>7 DEF Subs, Calls, b
<1> HIDE DEF t
<1>9. Checked(t)
  BY Zenon, <1>2, <1>8 DEF Checked, Behind, News, b
<1>10. Queried(t)
  BY Zenon, <1>8, <1>12 DEF Queried
<1>11. OK(t, pos, << >>, view, denied)
  BY Zenon, <1>2, <1>8, <1>9, <1>10, CommitOK DEF b
<1> QED
  BY Zenon, <1>1, <1>2, <1>8, <1>11, EmptyFacts, SameLog DEF Typed

\* The first item of the batch leaves it.  The state changes for its entity
\* alone, of which the batch holds nothing more.
LEMMA Popped ==
    ASSUME NEW s \in Subs, NEW t \in Subs, s.items > 0, s.items <= Len(s.buffered),
           Distinct(s.buffered, s.items), Checked(s), Queried(s),
           t.buffered = Tail(s.buffered), t.items = s.items - 1,
           t.checked = s.checked, t.granted = s.granted, t.rows = s.rows,
           \A p \in Partitions : s.offsets[p] <= t.offsets[p],
           \/ t.state = s.state
           \/ IsRecord(s.buffered[1]) /\ \A k \in Entities : k # s.buffered[1].change.key => t.state[k] = s.state[k]
    PROVE  /\ s.buffered # << >> /\ t.items <= Len(t.buffered)
           /\ Distinct(t.buffered, t.items) /\ Checked(t) /\ Queried(t)
<1> DEFINE b == s.buffered
           n == s.items
           q == t.buffered
           m == t.items
<1>1. b \in Seq(Records \cup Progress) /\ n \in Nat /\ s.offsets \in Offsets /\ t.offsets \in Offsets /\ Len(b) \in Nat
  BY Zenon, SubFields, SeqFacts
<1>2. b # << >>
  BY <1>1
<1>3. /\ Len(q) = Len(b) - 1
      /\ \A i \in 1..Len(q) : i + 1 \in 1..Len(b) /\ q[i] = b[i + 1]
  BY <1>1, <1>2, HeadTail
<1>4. m \in Nat /\ m <= Len(q) /\ m + 1 = n
  BY SMTT(30), <1>1, <1>3
<1>5. \A i \in 1..m : i \in 1..Len(q) /\ i + 1 \in 1..n /\ i \in Nat
  BY SMTT(30), <1>1, <1>3, <1>4
<1>6. \A i \in 1..m : q[i] = b[i + 1] /\ b[i + 1] \in Records \cup Progress
  BY Zenon, <1>1, <1>3, <1>5, SeqFacts
<1> HIDE DEF b, n, q, m
<1>7. Distinct(q, m)
  <2> SUFFICES ASSUME NEW i \in 1..m, NEW j \in 1..m, i < j, IsRecord(q[i]), IsRecord(q[j])
               PROVE  q[i].change.key # q[j].change.key
    BY Zenon DEF Distinct
  <2>1. i + 1 \in 1..n /\ j + 1 \in 1..n /\ q[i] = b[i + 1] /\ q[j] = b[j + 1]
    BY Zenon, <1>5, <1>6
  <2>2. i + 1 < j + 1
    BY <1>5
  <2> QED
    BY <2>1, <2>2 DEF Distinct, b, n
<1>8. ASSUME NEW i \in 1..m, IsRecord(q[i])
      PROVE  /\ q[i] \in Records /\ q[i].change.key \in Entities
             /\ t.state[q[i].change.key] = s.state[q[i].change.key]
             /\ Behind(s, q[i]) => Behind(t, q[i])
  <2>1. q[i] = b[i + 1] /\ i + 1 \in 1..n /\ q[i] \in Records
    BY Zenon, <1>5, <1>6, <1>8, ItemKinds
  <2>2. q[i].change.key \in Entities /\ q[i].partition \in Partitions /\ q[i].offset \in Nat
    BY Zenon, <2>1, ChangeFacts DEF Records
  <2>3. 1 \in 1..n /\ 1 < i + 1
    BY SMTT(30), <1>1, <1>4, <1>5
  <2>4. IsRecord(b[1]) => q[i].change.key # b[1].change.key
    BY <1>8, <2>1, <2>3 DEF Distinct, b, n
  <2>5. t.state[q[i].change.key] = s.state[q[i].change.key]
    BY Zenon, <2>2, <2>4 DEF b
  <2>6. s.offsets[q[i].partition] \in Nat /\ t.offsets[q[i].partition] \in Nat
    BY Zenon, <1>1, <2>2 DEF Offsets
  <2>7. Behind(s, q[i]) => Behind(t, q[i])
    BY SMTT(30), <2>2, <2>6 DEF Behind
  <2> QED
    BY Zenon, <2>1, <2>2, <2>5, <2>7
<1>9. Checked(t)
  <2> SUFFICES ASSUME NEW i \in 1..m, IsRecord(q[i]), ~Behind(t, q[i])
               PROVE  /\ At(q[i]) \in t.checked => News(t, q[i].change)
                      /\ At(q[i]) \notin t.checked => Covers(t.state, q[i].change)
    BY Zenon DEF Checked, m, q
  <2>1. ~Behind(s, q[i]) /\ t.state[q[i].change.key] = s.state[q[i].change.key]
    BY Zenon, <1>8
  <2>2. q[i] = b[i + 1] /\ i + 1 \in 1..n
    BY Zenon, <1>5, <1>6
  <2>3. /\ At(q[i]) \in s.checked => News(s, q[i].change)
        /\ At(q[i]) \notin s.checked => Covers(s.state, q[i].change)
    BY Zenon, <2>1, <2>2 DEF Checked, b, n
  <2> QED
    BY Zenon, <2>1, <2>3 DEF News, Covers
<1>10. Queried(t)
  <2>1. t.granted \subseteq t.checked
    BY Zenon DEF Queried
  <2>2. ASSUME NEW i \in 1..m, IsRecord(q[i]), At(q[i]) \in t.granted
        PROVE  t.rows[q[i].change.key] = q[i].change.data
    <3>1. q[i] = b[i + 1] /\ i + 1 \in 1..n
      BY Zenon, <1>5, <1>6
    <3> QED
      BY Zenon, <2>2, <3>1 DEF Queried, b, n
  <2> QED
    BY Zenon, <2>1, <2>2 DEF Queried, q, m
<1> QED
  BY Zenon, <1>2, <1>4, <1>7, <1>9, <1>10 DEF b, q, m

\* Denials only settle more.
LEMMA MoreDenied ==
    ASSUME NEW v, NEW d, NEW c, NEW off, NEW st, NEW fr
    PROVE  /\ \A b : SettledBy(v, d, b) => SettledBy(v, d \cup {c}, b)
           /\ Passed(off, st, v, d) => Passed(off, st, v, d \cup {c})
           /\ Saved(off, v, d) => Saved(off, v, d \cup {c})
           /\ Returned(fr, v, d) => Returned(fr, v, d \cup {c})
<1>1. \A b : SettledBy(v, d, b) => SettledBy(v, d \cup {c}, b)
  BY Zenon DEF SettledBy
<1>2. Passed(off, st, v, d) => Passed(off, st, v, d \cup {c})
  BY Zenon, <1>1 DEF Passed
<1>3. Saved(off, v, d) => Saved(off, v, d \cup {c})
  BY Zenon, <1>1 DEF Saved
<1>4. \A i : FrameCovers(fr, i, v, d) => FrameCovers(fr, i, v, d \cup {c})
  BY Zenon, <1>1 DEF FrameCovers
<1>5. Returned(fr, v, d) => Returned(fr, v, d \cup {c})
  BY Zenon, <1>4 DEF Returned
<1> QED
  BY Zenon, <1>1, <1>2, <1>3, <1>5

\* One turn of the commit loop.
LEMMA CommitItemStep == ASSUME IInv, CommitItem PROVE IInv'
<1> DEFINE b == sub.buffered
           item == Head(sub.buffered)
           s == [sub EXCEPT !.buffered = Tail(@), !.items = @ - 1]
           at == <<item.partition, item.offset>>
           taken == Advance(s, item)
           frame == Frame([item.change EXCEPT !.data = sub.rows[item.change.key]], taken.offsets)
<1>1. /\ sub.pc = "commit" /\ sub.items > 0
      /\ UNCHANGED <<logVars, pos, inbox, view, checkpoint>>
  BY Zenon DEF CommitItem
<1>2. /\ LogOK /\ sub \in Subs /\ pos \in Offsets /\ view \in Views /\ denied \in SUBSET Changes
      /\ Saved(checkpoint, view, denied) /\ inbox = << >> /\ Inside(pos)
      /\ sub.failed = FALSE /\ sub.pending = None /\ sub.items <= Len(sub.buffered)
      /\ Distinct(sub.buffered, sub.items) /\ Checked(sub) /\ Queried(sub)
      /\ Passed(sub.offsets, sub.state, view, denied) /\ Inside(sub.offsets)
      /\ Ordered(sub.offsets, None, sub.buffered, pos)
      /\ Held(sub.state, sub.frames, view, denied) /\ Returned(sub.frames, view, denied)
  BY Zenon, <1>1, InBatch
<1>3. /\ b \in Seq(Records \cup Progress) /\ b # << >> /\ item = b[1] /\ item \in Records \cup Progress
      /\ Tail(b) \in Seq(Records \cup Progress) /\ sub.items \in Nat /\ sub.offsets \in Offsets
      /\ sub.state \in States /\ sub.frames \in Seq(Frames)
  <2>1. b \in Seq(Records \cup Progress) /\ sub.items \in Nat /\ sub.offsets \in Offsets
        /\ sub.state \in States /\ sub.frames \in Seq(Frames)
    BY ZenonT(30), <1>2, SubFields
  <2>2. b # << >>
    BY SMTT(30), <1>1, <1>2, <2>1
  <2> QED
    BY SMTT(30), <2>1, <2>2, HeadTail
<1>4. /\ s \in Subs /\ s.pc = "commit" /\ s.failed = FALSE /\ s.pending = None
      /\ s.items = sub.items - 1 /\ s.buffered = Tail(b) /\ s.offsets = sub.offsets /\ s.state = sub.state
      /\ s.checked = sub.checked /\ s.granted = sub.granted /\ s.rows = sub.rows /\ s.frames = sub.frames
  <2>1. sub.items - 1 \in Nat
    BY <1>1, <1>3
  <2> QED
    BY Zenon, <1>1, <1>2, <1>3, <2>1 DEF Subs, b
<1>5. item \in Progress <=> ~IsRecord(item)
  BY Zenon, <1>3, ItemKinds
<1> HIDE DEF s, b, item
<1>7. CASE ~IsRecord(item)
  <2> DEFINE off == Past(sub.offsets, item)
             t == Progressed(s, item)
  <2>1. sub' = t /\ denied' = denied
    BY Zenon, <1>7 DEF CommitItem, s, item
  <2>2. /\ off \in Offsets /\ Passed(off, sub.state, view, denied) /\ Inside(off)
        /\ \A p \in Partitions : sub.offsets[p] <= off[p]
    BY Zenon, <1>2, <1>3, <1>5, <1>7, PassProgress DEF item, b
  <2>3. t = [s EXCEPT !.offsets = off]
    BY Zenon, <1>4 DEF Progressed, Past, Subs
  <2> HIDE DEF off, t
  <2>4. /\ t \in Subs /\ t.pc = "commit" /\ t.failed = FALSE /\ t.pending = None
        /\ t.items = sub.items - 1 /\ t.buffered = Tail(b) /\ t.offsets = off /\ t.state = sub.state
        /\ t.checked = sub.checked /\ t.granted = sub.granted /\ t.rows = sub.rows /\ t.frames = sub.frames
    BY Zenon, <1>4, <2>2, <2>3 DEF Subs
  <2>5. Ordered(off, None, Tail(b), pos)
    BY Zenon, <1>2, <1>3, <1>5, <1>7, <2>2, DropProgress DEF item, b
  <2>6. t.items <= Len(t.buffered) /\ Distinct(t.buffered, t.items) /\ Checked(t) /\ Queried(t)
    BY ZenonT(30), <1>1, <1>2, <2>2, <2>4, Popped DEF b
  <2>7. OK(t, pos, << >>, view, denied)
    BY ZenonT(30), <1>2, <2>2, <2>4, <2>5, <2>6, CommitOK
  <2> QED
    BY SMTT(30), <1>1, <1>2, <2>1, <2>4, <2>7, EmptyFacts, SameLog DEF Typed
<1>8. ASSUME IsRecord(item)
      PROVE  item \in Records /\ Ordered(sub.offsets, item, Tail(b), pos) /\ item # None
             /\ Real(item) /\ First(sub.offsets, item) /\ item.change \in Changes
             /\ item.change.key \in Entities
             /\ item.partition \in Partitions /\ item.offset \in Nat /\ sub.offsets[item.partition] \in Nat
  <2>1. item \in Records
    BY ZenonT(30), <1>3, <1>8, ItemKinds
  <2>2. Ordered(sub.offsets, item, Tail(b), pos)
    BY ZenonT(30), <1>2, <1>3, <2>1, TakeHead DEF item, b
  <2>3. item # None /\ item.change \in Changes /\ item.partition \in Partitions /\ item.offset \in Nat
    BY Zenon, <2>1, ItemKinds DEF Records
  <2>4. sub.offsets[item.partition] \in Nat
    BY Zenon, <1>3, <2>3 DEF Offsets
  <2> QED
    BY ZenonT(30), <2>1, <2>2, <2>3, <2>4, ChangeFacts DEF Ordered
<1>9. CASE IsRecord(item) /\ Behind(sub, item)
  <2>1. sub' = s /\ denied' = denied
    BY Zenon, <1>9 DEF CommitItem, s, item
  <2>2. \A p \in Partitions : sub.offsets[p] <= sub.offsets[p]
    BY <1>3 DEF Offsets
  <2>3. Ordered(sub.offsets, None, Tail(b), pos)
    BY ZenonT(30), <1>2, <1>3, <1>8, <1>9, <2>2, DropPending DEF Behind
  <2>4. s.items <= Len(s.buffered) /\ Distinct(s.buffered, s.items) /\ Checked(s) /\ Queried(s)
    BY Zenon, <1>1, <1>2, <1>4, <2>2, Popped DEF b
  <2>5. OK(s, pos, << >>, view, denied)
    BY Zenon, <1>2, <1>4, <2>3, <2>4, CommitOK
  <2> QED
    BY ZenonT(30), <1>1, <1>2, <1>4, <2>1, <2>5, EmptyFacts, SameLog DEF Typed
<1>10. ASSUME IsRecord(item), ~Behind(sub, item)
       PROVE  /\ ~(item.offset < sub.offsets[item.partition])
              /\ at \in sub.checked => News(sub, item.change)
              /\ at \notin sub.checked => Covers(sub.state, item.change)
              /\ at \in sub.granted => at \in sub.checked /\ sub.rows[item.change.key] = item.change.data
              /\ taken = [s EXCEPT !.offsets = [sub.offsets EXCEPT ![item.partition] = item.offset + 1]]
  <2>1. 1 \in 1..sub.items /\ item = b[1] /\ at = At(b[1])
    BY <1>1, <1>3 DEF At
  <2>2. /\ at \in sub.checked => News(sub, item.change)
        /\ at \notin sub.checked => Covers(sub.state, item.change)
    BY Zenon, <1>2, <1>10, <2>1 DEF Checked, b
  <2>3. at \in sub.granted => at \in sub.checked /\ sub.rows[item.change.key] = item.change.data
    BY Zenon, <1>2, <1>10, <2>1 DEF Queried, b
  <2>4. taken = [s EXCEPT !.offsets = [sub.offsets EXCEPT ![item.partition] = item.offset + 1]]
    BY Zenon, <1>4 DEF Advance, Subs
  <2> QED
    BY Zenon, <1>10, <2>2, <2>3, <2>4 DEF Behind
<1>11. CASE IsRecord(item) /\ ~Behind(sub, item)
  <2> DEFINE off == [sub.offsets EXCEPT ![item.partition] = item.offset + 1]
             st == [sub.state EXCEPT ![item.change.key] = item.change]
  <2>1. off \in Offsets /\ \A p \in Partitions : sub.offsets[p] <= off[p]
    BY SMTT(30), <1>3, <1>8, <1>10, <1>11 DEF Offsets
  <2>2. /\ taken \in Subs /\ taken.pc = "commit" /\ taken.failed = FALSE /\ taken.pending = None
        /\ taken.items = sub.items - 1 /\ taken.buffered = Tail(b) /\ taken.offsets = off
        /\ taken.state = sub.state /\ taken.checked = sub.checked /\ taken.granted = sub.granted
        /\ taken.rows = sub.rows /\ taken.frames = sub.frames
    <3> HIDE DEF off, taken
    <3>1. taken = [s EXCEPT !.offsets = off]
      BY Zenon, <1>10, <1>11 DEF off
    <3> QED
      BY Zenon, <1>4, <2>1, <3>1 DEF Subs
  <2>3. CASE at \notin sub.checked
    <3>1. sub' = taken /\ denied' = denied
      BY Zenon, <1>11, <2>3 DEF CommitItem, s, item
    <3>2. Passed(off, sub.state, view, denied) /\ Inside(off) /\ item.offset < off[item.partition]
      BY ZenonT(60), <1>2, <1>3, <1>8, <1>10, <1>11, <2>3, PassRecord
    <3>3. Ordered(off, None, Tail(b), pos)
      BY ZenonT(30), <1>2, <1>3, <1>8, <1>11, <2>1, <3>2, DropPending
    <3> HIDE DEF taken, off
    <3>4. /\ taken.items <= Len(taken.buffered) /\ Distinct(taken.buffered, taken.items)
          /\ Checked(taken) /\ Queried(taken)
      BY Zenon, <1>1, <1>2, <2>1, <2>2, Popped DEF b
    <3>5. OK(taken, pos, << >>, view, denied)
      BY ZenonT(30), <1>2, <2>2, <3>2, <3>3, <3>4, CommitOK
    <3> QED
      BY ZenonT(30), <1>1, <1>2, <2>2, <3>1, <3>5, EmptyFacts, SameLog DEF Typed
  <2>4. CASE at \in sub.checked /\ AtLimit(sub, item)
    <3>1. sub' = Failed(taken) /\ denied' = denied
      BY Zenon, <1>11, <2>4 DEF CommitItem, s, item
    <3> HIDE DEF taken
    <3>2. Failed(taken) \in Subs /\ OK(Failed(taken), pos, << >>, view, denied)
      BY Zenon, <1>2, <2>2, IdleFacts, FailedOK
    <3> QED
      BY SMTT(30), <1>1, <1>2, <3>1, <3>2, EmptyFacts, SameLog DEF Typed
  <2>5. CASE at \in sub.checked /\ ~AtLimit(sub, item)
    <3> DEFINE t == [Remember(taken, item) EXCEPT !.frames =
                        IF at \in sub.granted THEN Append(@, frame) ELSE @]
    <3>1. /\ sub' = t
          /\ denied' = IF at \in sub.granted THEN denied ELSE denied \cup {item.change}
      BY Zenon, <1>11, <2>5 DEF CommitItem, s, item
    <3>2. /\ st \in States /\ Covers(st, item.change)
          /\ \A c \in Changes : Covers(sub.state, c) => Covers(st, c)
      BY Zenon, <1>3, <1>8, <1>10, <1>11, <2>5, Remembered DEF News
    <3>3. Passed(off, st, view, denied) /\ Inside(off) /\ item.offset < off[item.partition]
      BY ZenonT(30), <1>2, <1>3, <1>8, <1>10, <1>11, <3>2, PassRecord
    <3>4. Ordered(off, None, Tail(b), pos)
      BY Zenon, <1>2, <1>3, <1>8, <1>11, <2>1, <3>3, DropPending
    <3>5. \A k \in Entities : k # item.change.key => st[k] = sub.state[k]
      BY Zenon, <1>3, <1>8, <1>11 DEF States
    <3>14. at \in sub.granted => frame = Frame(item.change, off)
      <4>1. item.change \in Changes /\ taken.offsets = off
        BY Zenon, <1>8, <1>11, <2>2
      <4>2. ASSUME at \in sub.granted PROVE sub.rows[item.change.key] = item.change.data
        BY Zenon, <1>10, <1>11, <4>2
      <4>3. \A x : x = item.change.data => [item.change EXCEPT !.data = x] = item.change
        BY Zenon, <4>1 DEF Changes
      <4> QED
        BY Zenon, <4>1, <4>2, <4>3
    <3> HIDE DEF taken, frame, at
    <3>6. Remember(taken, item) = [taken EXCEPT !.state = st]
      BY Zenon, <2>2 DEF Remember, Subs
    <3> HIDE DEF off, st
    <3>7. ASSUME NEW fr \in Seq(Frames), NEW d \in SUBSET Changes,
                 t = [Remember(taken, item) EXCEPT !.frames = fr],
                 Held(st, fr, view, d), Returned(fr, view, d), Passed(off, st, view, d)
          PROVE  t \in Subs /\ OK(t, pos, << >>, view, d)
      <4>1. t = [taken EXCEPT !.state = st, !.frames = fr]
        BY Zenon, <3>6, <3>7
      <4> HIDE DEF t
      <4>2. /\ t \in Subs /\ t.pc = "commit" /\ t.failed = FALSE /\ t.pending = None
            /\ t.items = sub.items - 1 /\ t.buffered = Tail(b) /\ t.offsets = off /\ t.state = st
            /\ t.checked = sub.checked /\ t.granted = sub.granted /\ t.rows = sub.rows /\ t.frames = fr
        BY ZenonT(60), <2>2, <3>2, <3>7, <4>1 DEF Subs
      <4>3. \/ t.state = sub.state
            \/ IsRecord(sub.buffered[1])
               /\ \A k \in Entities : k # sub.buffered[1].change.key => t.state[k] = sub.state[k]
        BY Zenon, <1>3, <1>11, <3>5, <4>2 DEF b
      <4>4. \A p \in Partitions : sub.offsets[p] <= t.offsets[p]
        BY Zenon, <2>1, <4>2
      <4>5. t.items <= Len(t.buffered) /\ Distinct(t.buffered, t.items) /\ Checked(t) /\ Queried(t)
        BY ZenonT(60), <1>1, <1>2, <4>2, <4>3, <4>4, Popped DEF b
      <4> QED
        BY ZenonT(30), <1>2, <3>3, <3>4, <3>7, <4>2, <4>5, CommitOK
    <3>8. CASE at \in sub.granted
      <4> DEFINE fr == Append(sub.frames, frame)
      <4>1. frame = Frame(item.change, off) /\ frame.change = item.change /\ frame.offsets = off /\ frame \in Frames
        BY SMTT(30), <1>8, <1>11, <2>1, <3>8, <3>14 DEF Frame, Frames
      <4>2. FrameIsReal(frame)
        <5>1. item.partition \in Partitions /\ item.offset \in Committed(item.partition)
              /\ item.change = ChangeAt(item.partition, item.offset)
          BY SMTT(30), <1>2, <1>8, <1>11, RealFacts
        <5> QED
          BY Zenon, <3>3, <4>1, <5>1 DEF FrameIsReal
      <4>3. Held(st, fr, view, denied)
        BY SMTT(30), <1>2, <1>3, <1>8, <1>11, <4>1, HeldMore DEF st
      <4>4. fr \in Seq(Frames) /\ Returned(fr, view, denied)
        BY Zenon, <1>2, <1>3, <2>1, <3>2, <3>3, <4>1, <4>2, <4>3, ReturnMore
      <4>5. t = [Remember(taken, item) EXCEPT !.frames = fr]
        BY ZenonT(30), <2>2, <3>2, <3>6, <3>8 DEF Subs
      <4> HIDE DEF fr
      <4>6. t \in Subs /\ OK(t, pos, << >>, view, denied)
        BY SMTT(30), <1>2, <3>3, <3>7, <4>3, <4>4, <4>5
      <4> HIDE DEF t
      <4> QED
        BY ZenonT(30), <1>1, <1>2, <3>1, <3>8, <4>6, EmptyFacts, SameLog DEF Typed
    <3>9. CASE at \notin sub.granted
      <4> DEFINE d == denied \cup {item.change}
      <4>1. d \in SUBSET Changes /\ denied' = d
        BY Zenon, <1>2, <1>8, <1>11, <3>1, <3>9
      <4>2. Held(st, sub.frames, view, d)
        BY Zenon, <1>2, <1>3, <1>8, <1>11, HeldDenied DEF st
      <4>3. Passed(off, st, view, d) /\ Saved(checkpoint, view, d) /\ Returned(sub.frames, view, d)
        BY Zenon, <1>2, <3>3, MoreDenied
      <4>4. t = [Remember(taken, item) EXCEPT !.frames = sub.frames]
        BY Zenon, <2>2, <3>2, <3>6, <3>9 DEF Subs
      <4> HIDE DEF d
      <4>5. t \in Subs /\ OK(t, pos, << >>, view, d)
        BY ZenonT(30), <1>3, <3>7, <4>1, <4>2, <4>3, <4>4
      <4> HIDE DEF t
      <4> QED
        BY Zenon, <1>1, <1>2, <3>1, <4>1, <4>3, <4>5, EmptyFacts, SameLog DEF Typed
    <3> QED
      BY Zenon, <3>8, <3>9
  <2> QED
    BY Zenon, <2>3, <2>4, <2>5
<1> QED
  BY Zenon, <1>7, <1>9, <1>11

\* The batch is returned.
LEMMA BatchDoneStep == ASSUME IInv, BatchDone PROVE IInv'
<1> DEFINE t == Idle(sub)
           f == Frame(None, sub.offsets)
           in == Append(sub.frames, f)
<1>1. /\ sub.pc = "commit" /\ sub' = t /\ inbox' = in
      /\ UNCHANGED <<logVars, pos, view, checkpoint, denied>>
  BY Zenon DEF BatchDone
<1>2. /\ LogOK /\ sub \in Subs /\ pos \in Offsets /\ view \in Views /\ denied \in SUBSET Changes
      /\ Saved(checkpoint, view, denied) /\ Inside(pos) /\ sub.failed = FALSE /\ sub.pending = None
      /\ Passed(sub.offsets, sub.state, view, denied) /\ Inside(sub.offsets)
      /\ Ordered(sub.offsets, None, sub.buffered, pos)
      /\ Held(sub.state, sub.frames, view, denied) /\ Returned(sub.frames, view, denied)
  BY Zenon, <1>1, InBatch
<1>3. sub.offsets \in Offsets /\ sub.state \in States /\ sub.frames \in Seq(Frames)
  BY Zenon, <1>2, SubFields
<1>4. f \in Frames /\ f.offsets = sub.offsets /\ f.change = None
  BY Zenon, <1>3 DEF Frame, Frames
<1>5. FrameIsReal(f)
  BY Zenon, <1>2, <1>4 DEF FrameIsReal
<1> HIDE DEF f
<1>6. Held(sub.state, in, view, denied)
  BY Zenon, <1>2, <1>3, <1>4, HeldMore
<1>7. in \in Seq(Frames) /\ Returned(in, view, denied)
  BY Zenon, <1>2, <1>3, <1>4, <1>5, <1>6, ReturnMore
<1>8. /\ t \in Subs /\ t.pc = "idle" /\ t.offsets = sub.offsets /\ t.state = sub.state
      /\ t.pending = None /\ t.buffered = sub.buffered /\ t.frames = << >> /\ t.failed = FALSE /\ t.items = 0
  BY Zenon, <1>2, IdleFacts
<1> HIDE DEF t, in
<1>9. OK(t, pos, in, view, denied)
  BY Zenon, <1>2, <1>6, <1>7, <1>8, IdleOK
<1> QED
  BY Zenon, <1>1, <1>2, <1>7, <1>8, <1>9, SameLog DEF Typed

-----------------------------------------------------------------------------
(* The consumer *)

\* The consumer's view after a frame.
Applied(v, f) ==
    [k \in Entities |-> IF f.change # None /\ f.change.key = k /\ v[k] < f.change.version
                        THEN f.change.version ELSE v[k]]

LEMMA AppliedFacts ==
    ASSUME NEW v \in Views, NEW f \in Frames, NEW d \in SUBSET Changes
    PROVE  /\ Applied(v, f) \in Views /\ \A k \in Entities : v[k] <= Applied(v, f)[k]
           /\ \A c \in Changes : SettledBy(v, d, c) => SettledBy(Applied(v, f), d, c)
           /\ f.change # None => \A c \in Changes : f.change.key = c.key /\ f.change.version >= c.version
                                    => SettledBy(Applied(v, f), d, c)
<1>1. f.change \in Changes \cup {None}
  BY Zenon DEF Frames
<1>2. f.change # None => f.change.key \in Entities /\ f.change.version \in Nat
  BY Zenon, <1>1, ChangeFacts
<1>3. \A k \in Entities : v[k] \in Nat
  BY Zenon DEF Views
<1>4. Applied(v, f) \in Views
  BY Zenon, <1>2, <1>3 DEF Applied, Views
<1>5. \A k \in Entities : v[k] <= Applied(v, f)[k]
  BY <1>2, <1>3 DEF Applied
<1>6. \A c \in Changes : SettledBy(v, d, c) => SettledBy(Applied(v, f), d, c)
  BY Zenon, <1>4, <1>5, StaysSettled
<1>7. ASSUME f.change # None, NEW c \in Changes, f.change.key = c.key, f.change.version >= c.version
      PROVE  SettledBy(Applied(v, f), d, c)
  <2>1. c.key \in Entities /\ c.version \in Nat
    BY Zenon, ChangeFacts
  <2>2. Applied(v, f)[c.key] >= f.change.version
    BY SMTT(30), <1>2, <1>3, <1>7, <2>1 DEF Applied
  <2>3. Applied(v, f)[c.key] >= c.version
    BY SMTT(30), <1>2, <1>4, <1>7, <2>1, <2>2 DEF Views
  <2> QED
    BY Zenon, <2>3 DEF SettledBy
<1> QED
  BY Zenon, <1>4, <1>5, <1>6, <1>7

\* What the first frame carries is settled once it is applied; the others
\* carry what they did.
LEMMA CarriedOn ==
    ASSUME NEW v \in Views, NEW d \in SUBSET Changes, NEW fr \in Seq(Frames), fr # << >>, NEW c \in Changes,
           NEW n \in 1..Len(fr), Carries(fr, n, c)
    PROVE  SettledBy(Applied(v, Head(fr)), d, c) \/ Carries(Tail(fr), n - 1, c)
<1>1. /\ Head(fr) = fr[1] /\ fr[1] \in Frames /\ Tail(fr) \in Seq(Frames) /\ Len(fr) \in Nat
      /\ \A i \in 1..Len(fr) : i > 1 => i - 1 \in 1..Len(Tail(fr)) /\ fr[i] = Tail(fr)[i - 1]
  BY Zenon, HeadTail
<1>2. PICK i \in 1..n : /\ fr[i].change # None /\ fr[i].change.key = c.key
                        /\ fr[i].change.version >= c.version
  BY Zenon DEF Carries
<1>3. n \in Nat /\ i \in Nat /\ i \in 1..Len(fr) /\ (i = 1 \/ i > 1)
  BY <1>1
<1>4. CASE i = 1
  BY Zenon, <1>1, <1>2, <1>4, AppliedFacts
<1>5. CASE i > 1
  <2>1. i - 1 \in 1..(n - 1) /\ fr[i] = Tail(fr)[i - 1]
    BY <1>1, <1>3, <1>5
  <2> QED
    BY Zenon, <1>2, <2>1 DEF Carries
<1> QED
  BY Zenon, <1>3, <1>4, <1>5

LEMMA ConsumeStep == ASSUME IInv, NEW save \in BOOLEAN, Consume(save) PROVE IInv'
<1> DEFINE f == Head(inbox)
           w == Applied(view, f)
           q == Tail(inbox)
<1>1. /\ inbox # << >> /\ view' = w /\ checkpoint' = (IF save THEN f.offsets ELSE checkpoint)
      /\ inbox' = q /\ UNCHANGED <<logVars, sub, pos, denied>>
  BY Zenon DEF Consume, Applied
<1>2. /\ LogOK /\ sub \in Subs /\ pos \in Offsets /\ inbox \in Seq(Frames) /\ view \in Views
      /\ denied \in SUBSET Changes /\ Saved(checkpoint, view, denied)
      /\ OK(sub, pos, inbox, view, denied)
  BY Zenon DEF IInv, Typed
<1>3. /\ Places(sub, inbox) /\ sub.pc \notin Calls /\ sub.pc # "commit" /\ Out(sub, inbox) = inbox
      /\ Out(sub, q) = q /\ sub.failed = FALSE
  <2>1. Places(sub, inbox)
    BY Zenon, <1>2 DEF OK
  <2>2. sub.pc \notin Calls /\ ~sub.failed
    BY Zenon, <1>1, <2>1 DEF Places
  <2>3. sub.failed = FALSE
    BY Zenon, <1>2, <2>2, SubFields
  <2> QED
    BY Zenon, <2>1, <2>2, <2>3 DEF Out, Calls
<1>4. /\ f = inbox[1] /\ f \in Frames /\ q \in Seq(Frames) /\ Len(inbox) \in Nat /\ Len(inbox) >= 1
      /\ Len(q) = Len(inbox) - 1
      /\ \A i \in 1..Len(q) : i + 1 \in 1..Len(inbox) /\ q[i] = inbox[i + 1]
  BY Zenon, <1>1, <1>2, HeadTail
<1>5. w \in Views /\ \A c \in Changes : SettledBy(view, denied, c) => SettledBy(w, denied, c)
  BY Zenon, <1>2, <1>4, AppliedFacts
<1>6. ASSUME NEW c \in Changes, NEW n \in 1..Len(inbox), SettledBy(view, denied, c) \/ Carries(inbox, n, c)
      PROVE  SettledBy(w, denied, c) \/ Carries(q, n - 1, c)
  BY Zenon, <1>1, <1>2, <1>5, <1>6, CarriedOn
<1> HIDE DEF w, q, f
<1>7. ASSUME NEW p \in Partitions, NEW o \in Nat, Live(p, o) PROVE ChangeAt(p, o) \in Changes
  BY Zenon, <1>2, <1>7, LogFacts DEF Live
<1>8. Returned(inbox, view, denied) /\ Inside(pos)
  BY Zenon, <1>2, <1>3 DEF OK
<1>9. Returned(q, w, denied)
  <2> SUFFICES ASSUME NEW i \in 1..Len(q)
               PROVE  FrameCovers(q, i, w, denied) /\ FrameIsReal(q[i])
    BY Zenon DEF Returned
  <2>1. i + 1 \in 1..Len(inbox) /\ q[i] = inbox[i + 1] /\ i = (i + 1) - 1
    BY <1>4
  <2>2. FrameCovers(inbox, i + 1, view, denied) /\ FrameIsReal(inbox[i + 1])
    BY Zenon, <1>8, <2>1 DEF Returned
  <2>3. ASSUME NEW p \in Partitions, NEW o \in Nat, Live(p, o), o < q[i].offsets[p]
        PROVE  SettledBy(w, denied, ChangeAt(p, o)) \/ Carries(q, i, ChangeAt(p, o))
    <3>1. SettledBy(view, denied, ChangeAt(p, o)) \/ Carries(inbox, i + 1, ChangeAt(p, o))
      BY Zenon, <2>1, <2>2, <2>3 DEF FrameCovers
    <3> DEFINE n == i + 1
    <3>2. n \in 1..Len(inbox) /\ n - 1 = i
      BY Zenon, <2>1
    <3> HIDE DEF n
    <3>3. SettledBy(w, denied, ChangeAt(p, o)) \/ Carries(q, n - 1, ChangeAt(p, o))
      BY Zenon, <1>6, <1>7, <2>3, <3>1, <3>2 DEF n
    <3> QED
      BY Zenon, <3>2, <3>3
  <2>4. FrameCovers(q, i, w, denied)
    BY Zenon, <2>3 DEF FrameCovers
  <2> QED
    BY Zenon, <2>1, <2>2, <2>4
<1>10. Saved(checkpoint', w, denied)
  <2>1. CASE ~save
    BY Zenon, <1>1, <1>2, <1>5, <1>7, <2>1 DEF Saved
  <2>2. CASE save
    <3>1. 1 \in 1..Len(inbox) /\ checkpoint' = inbox[1].offsets
      BY <1>1, <1>4, <2>2
    <3>2. FrameCovers(inbox, 1, view, denied) /\ FrameIsReal(inbox[1])
      BY Zenon, <1>8, <3>1 DEF Returned
    <3>3. checkpoint' \in Offsets /\ Inside(checkpoint')
      BY Zenon, <1>4, <3>1, <3>2 DEF FrameIsReal, Frames
    <3>4. ASSUME NEW p \in Partitions, NEW o \in Nat, Live(p, o), o < checkpoint'[p]
          PROVE  SettledBy(w, denied, ChangeAt(p, o))
      <4>1. SettledBy(view, denied, ChangeAt(p, o)) \/ Carries(inbox, 1, ChangeAt(p, o))
        BY Zenon, <3>1, <3>2, <3>4 DEF FrameCovers
      <4>2. SettledBy(w, denied, ChangeAt(p, o)) \/ Carries(q, 1 - 1, ChangeAt(p, o))
        BY Zenon, <1>6, <1>7, <3>1, <3>4, <4>1
      <4>3. ~Carries(q, 1 - 1, ChangeAt(p, o))
        BY DEF Carries
      <4> QED
        BY Zenon, <4>2, <4>3
    <3> DEFINE to == checkpoint'
    <3> HIDE DEF to
    <3>5. to \in Offsets /\ Inside(to)
          /\ \A p \in Partitions : \A o \in Nat : Live(p, o) /\ o < to[p] => SettledBy(w, denied, ChangeAt(p, o))
      BY Zenon, <3>3, <3>4 DEF to
    <3>6. Saved(to, w, denied)
      BY Zenon, <3>5 DEF Saved
    <3> QED
      BY Zenon, <3>6 DEF to
  <2> QED
    BY Zenon, <2>1, <2>2
<1>11. ASSUME sub.pc # "closed" PROVE Cursor(sub, pos, q, w, denied)
  <2>1. /\ Passed(sub.offsets, sub.state, view, denied) /\ Held(sub.state, inbox, view, denied)
        /\ Ordered(sub.offsets, sub.pending, sub.buffered, pos) /\ Inside(sub.offsets)
    BY Zenon, <1>2, <1>3, <1>11 DEF OK, Cursor
  <2>2. Passed(sub.offsets, sub.state, w, denied)
    BY Zenon, <1>5, <1>7, <2>1 DEF Passed
  <2>3. Held(sub.state, q, w, denied)
    <3> SUFFICES ASSUME NEW k \in Entities, sub.state[k] # None
                 PROVE  SettledBy(w, denied, sub.state[k]) \/ Carries(q, Len(q), sub.state[k])
      BY Zenon DEF Held
    <3>1. sub.state[k] \in Changes
      BY <1>2, SubFields DEF States
    <3>2. SettledBy(view, denied, sub.state[k]) \/ Carries(inbox, Len(inbox), sub.state[k])
      BY Zenon, <2>1 DEF Held
    <3> DEFINE n == Len(inbox)
    <3>3. n \in 1..Len(inbox) /\ n - 1 = Len(q)
      BY <1>4
    <3> HIDE DEF n
    <3>4. SettledBy(w, denied, sub.state[k]) \/ Carries(q, n - 1, sub.state[k])
      BY Zenon, <1>6, <3>1, <3>2, <3>3 DEF n
    <3> QED
      BY Zenon, <3>3, <3>4
  <2> QED
    BY Zenon, <2>1, <2>2, <2>3 DEF Cursor
<1>12. Places(sub, q)
  BY Zenon, <1>3 DEF Places
<1>13. OK(sub, pos, q, w, denied)
  BY ZenonT(30), <1>3, <1>8, <1>9, <1>11, <1>12 DEF OK
<1>14. /\ UNCHANGED logVars
       /\ Typed(sub', pos', inbox', view', denied') /\ OK(sub', pos', inbox', view', denied')
       /\ Saved(checkpoint', view', denied')
  BY Zenon, <1>1, <1>2, <1>4, <1>5, <1>10, <1>13 DEF Typed
<1> QED
  BY Zenon, <1>2, <1>14, SameLog

-----------------------------------------------------------------------------
(* The invariant and the theorems *)

LEMMA InitInv == Init => IInv
<1> SUFFICES ASSUME Init PROVE IInv
  BY Zenon
<1>1. LogOK
  BY EmptyFacts DEF Init, LogInit, LogOK
<1>2. ZeroOffsets \in Offsets /\ \A p \in Partitions : ZeroOffsets[p] = 0
  BY Zenon, EmptyFacts DEF ZeroOffsets
<1>3. Inside(ZeroOffsets)
  BY <1>1, <1>2, LogFacts DEF Inside
<1>4. Saved(checkpoint, view, denied)
  BY <1>2, <1>3 DEF Init, Saved
<1>5. Typed(sub, pos, inbox, view, denied)
  BY Zenon, <1>2, EmptyFacts, ClosedOK DEF Init, Typed, Views
<1>6. OK(sub, pos, inbox, view, denied)
  BY Zenon, <1>3, ClosedOK DEF Init
<1> QED
  BY Zenon, <1>1, <1>4, <1>5, <1>6 DEF IInv

LEMMA StepInv == ASSUME WellOrdered, Changes # {} PROVE IInv /\ [Next]_vars => IInv'
<1> SUFFICES ASSUME IInv, [Next]_vars PROVE IInv'
  BY Zenon
<1>1. CASE LogNext /\ UNCHANGED subVars
  BY Zenon, <1>1, LogStep
<1>2. CASE Subscribe \/ Crash \/ Redeliver \/ Cancel \/ Error
  BY Zenon, <1>2, SubscribeStep, CrashStep, RedeliverStep, CancelStep
<1>3. CASE CallNext \/ NextBuffered \/ NextStream \/ \E allowed \in BOOLEAN : NextDecided(allowed)
  BY Zenon, <1>3, CallNextStep, NextBufferedStep, NextStreamStep, NextDecidedStep
<1>4. CASE (\E max \in BatchSizes : CallBatch(max)) \/ CollectBuffered \/ CollectStream \/ CollectEnds
  BY Zenon, <1>4, CallBatchStep, CollectStep
<1>5. CASE (\E granted \in SUBSET sub.checked : BatchDecided(granted)) \/ CommitItem \/ BatchDone
  BY Zenon, <1>5, BatchDecidedStep, CommitItemStep, BatchDoneStep
<1>6. CASE \E save \in BOOLEAN : Consume(save)
  BY Zenon, <1>6, ConsumeStep
<1>7. CASE UNCHANGED vars
  BY Zenon, <1>7, SameLog DEF IInv, vars, subVars
<1> QED
  BY Zenon, <1>1, <1>2, <1>3, <1>4, <1>5, <1>6, <1>7 DEF Next

\* What the steps of a call that commit nothing leave of the frames.
LEMMA FramesKept ==
    ASSUME NEW s \in Subs, NEW x
    PROVE  /\ Examine(s, x).frames \in {s.frames, << >>} /\ Accept(s, x).frames \in {s.frames, << >>}
           /\ Check(s).frames \in {s.frames, << >>} /\ Collected(s).frames \in {s.frames, << >>}
<1>1. \A y : [s EXCEPT !.pending = y].frames = s.frames /\ [s EXCEPT !.pending = y, !.pc = "nextAuth"].frames = s.frames
  BY Zenon DEF Subs
<1>2. [Advance(s, x) EXCEPT !.pending = None].frames = s.frames /\ Progressed(s, x).frames = s.frames
  BY Zenon DEF Advance, Progressed, Subs
<1>3. Failed([s EXCEPT !.pending = x]).frames = << >> /\ Failed(s).frames = << >>
  BY Zenon DEF Failed, Idle, Subs
<1>4. Examine(s, x).frames \in {s.frames, << >>}
  <2>1. \/ Examine(s, x) = [s EXCEPT !.pending = None]
        \/ Examine(s, x) = Failed([s EXCEPT !.pending = x])
        \/ Examine(s, x) = [Advance(s, x) EXCEPT !.pending = None]
        \/ Examine(s, x) = [s EXCEPT !.pending = x, !.pc = "nextAuth"]
    BY Zenon, ExamineCases
  <2>2. Examine(s, x).frames = s.frames \/ Examine(s, x).frames = << >>
    BY Zenon, <1>1, <1>2, <1>3, <2>1
  <2> QED
    BY Zenon, <2>2
<1>5. Accept(s, x).frames \in {s.frames, << >>}
  BY Zenon, <1>2, <1>4 DEF Accept
<1>6. \A y : [s EXCEPT !.pc = "batchAuth", !.checked = y].frames = s.frames
  BY Zenon DEF Subs
<1>7. Check(s).frames \in {s.frames, << >>}
  BY Zenon, <1>3, <1>6 DEF Check
<1>8. [s EXCEPT !.items = @ + 1].frames = s.frames
  BY Zenon DEF Subs
<1>9. Collected(s).frames \in {s.frames, << >>}
  BY Zenon, <1>7, <1>8 DEF Collected
<1> QED
  BY Zenon, <1>4, <1>5, <1>7, <1>9

\* A frame is only returned or added to a batch for a change that is news.
LEMMA StepIsNews ==
    ASSUME WellOrdered, IInv, [Next]_vars
    PROVE  /\ sub.pc = "nextAuth" /\ inbox' # << >> => News(sub, inbox'[1].change)
           /\ Len(sub'.frames) > Len(sub.frames) => News(sub, sub'.frames[Len(sub'.frames)].change)
<1> DEFINE Quiet == inbox = << >> => inbox' = << >>
           Short == sub'.frames \in {sub.frames, << >>}
<1>1. /\ sub \in Subs /\ pos \in Offsets /\ LogOK /\ sub.frames \in Seq(Frames) /\ Len(sub.frames) \in Nat
      /\ sub.buffered \in Seq(Records \cup Progress)
  <2>1. sub \in Subs /\ pos \in Offsets /\ LogOK
    BY Zenon DEF IInv, Typed
  <2> QED
    BY Zenon, <2>1, SubFields, SeqFacts
<1>2. /\ sub.pc = "nextAuth" => inbox = << >>
      /\ sub.pc = "nextAuth" => News(sub, sub.pending.change)
  <2>1. sub.pc = "nextAuth" => sub.pc \in Calls
    BY Zenon DEF Calls
  <2> QED
    BY Zenon, <2>1 DEF IInv, OK, Places
<1>3. Short => ~(Len(sub'.frames) > Len(sub.frames))
  BY <1>1
<1>4. CASE Quiet /\ Short
  BY Zenon, <1>2, <1>3, <1>4
<1>5. CASE (LogNext /\ UNCHANGED subVars) \/ UNCHANGED vars
  BY Zenon, <1>4, <1>5 DEF vars, subVars
<1>6. CASE Subscribe \/ Crash \/ Redeliver \/ Cancel \/ Error
  <2>1. Closed.frames = << >> /\ [Closed EXCEPT !.pc = "idle", !.offsets = checkpoint].frames = << >>
    BY Zenon DEF Closed
  <2>2. Idle(sub).frames = << >> /\ Failed(sub).frames = << >>
    BY Zenon, <1>1, IdleFacts
  <2>3. Short
    BY Zenon, <1>6, <2>1, <2>2 DEF Subscribe, Crash, Redeliver, Cancel, Error
  <2>4. Quiet
    BY Zenon, <1>6 DEF Subscribe, Crash, Redeliver, Cancel, Error
  <2> QED
    BY Zenon, <1>4, <2>3, <2>4
<1>7. CASE CallNext \/ NextBuffered \/ NextStream
  <2>1. Quiet
    BY Zenon, <1>7 DEF CallNext, NextBuffered, NextStream
  <2>2. [sub EXCEPT !.pc = "next"] \in Subs /\ [sub EXCEPT !.pc = "next"].frames = sub.frames
    BY Zenon, <1>1 DEF Subs, Calls
  <2>3. sub.buffered # << >> => /\ [sub EXCEPT !.buffered = Tail(@)] \in Subs
                                /\ [sub EXCEPT !.buffered = Tail(@)].frames = sub.frames
    BY Zenon, <1>1, HeadTail DEF Subs
  <2>4. Short
    BY Zenon, <1>1, <1>7, <2>2, <2>3, FramesKept DEF CallNext, NextBuffered, NextStream
  <2> QED
    BY Zenon, <1>4, <2>1, <2>4
<1>8. ASSUME NEW allowed \in BOOLEAN, NextDecided(allowed)
      PROVE  /\ sub.pc = "nextAuth" /\ inbox' # << >> => News(sub, inbox'[1].change)
             /\ ~(Len(sub'.frames) > Len(sub.frames))
  <2> DEFINE r == sub.pending
             s == Remember(Advance([sub EXCEPT !.pending = None], r), r)
  <2>1. sub.pc = "nextAuth"
    BY Zenon, <1>8 DEF NextDecided
  <2>2. inbox' = << >> \/ inbox' = <<Frame(r.change, s.offsets)>>
    BY Zenon, <1>2, <1>8 DEF NextDecided
  <2>3. inbox' # << >> => inbox'[1].change = r.change
    BY <2>2 DEF Frame
  <2>4. Idle(s).frames = << >> /\ [s EXCEPT !.pc = "next"].frames = sub.frames
    BY Zenon, <1>1 DEF Idle, Remember, Advance, Subs
  <2>5. Short
    BY Zenon, <1>8, <2>4 DEF NextDecided
  <2> QED
    BY ZenonT(30), <1>2, <1>3, <2>1, <2>3, <2>5
<1>9. CASE (\E max \in BatchSizes : CallBatch(max)) \/ CollectBuffered \/ CollectStream \/ CollectEnds
  <2>1. Quiet
    BY Zenon, <1>9 DEF CallBatch, CollectBuffered, CollectStream, CollectEnds
  <2>2. ASSUME NEW max \in BatchSizes, CallBatch(max) PROVE Short
    <3>1. sub'.frames = sub.frames
      BY Zenon, <1>1, <2>2 DEF CallBatch, Subs
    <3> QED
      BY Zenon, <3>1
  <2>3. ASSUME CollectStream PROVE Short
    <3>1. PICK item \in Yields(pos) : sub' = Collected([sub EXCEPT !.buffered = Append(@, item)])
      BY Zenon, <2>3 DEF CollectStream
    <3>2. item \in Records \cup Progress
      <4>1. PICK p \in Partitions : \/ \E o \in Readable(p) : item = Record(p, o)
                                    \/ \E n \in Nat : item = [partition |-> p, next_offset |-> n]
        BY Zenon, <1>1, YieldFacts
      <4>2. \A o \in Readable(p) : Record(p, o) \in Records
        BY Zenon, <1>1, LogFacts, RecordFacts
      <4> QED
        BY <4>1, <4>2 DEF Progress
    <3>3. Append(sub.buffered, item) \in Seq(Records \cup Progress)
      BY Zenon, <1>1, <3>2, AppendOne
    <3>4. /\ [sub EXCEPT !.buffered = Append(@, item)] \in Subs
          /\ [sub EXCEPT !.buffered = Append(@, item)].frames = sub.frames
      BY Zenon, <1>1, <3>3 DEF Subs
    <3> QED
      BY Zenon, <3>1, <3>4, FramesKept
  <2>4. CollectBuffered \/ CollectEnds => Short
    BY Zenon, <1>1, FramesKept DEF CollectBuffered, CollectEnds
  <2> QED
    BY ZenonT(30), <1>4, <1>9, <2>1, <2>2, <2>3, <2>4
<1>10. ASSUME NEW granted \in SUBSET sub.checked, BatchDecided(granted) PROVE Quiet /\ Short
  <2>1. inbox' = inbox
    BY Zenon, <1>10 DEF BatchDecided
  <2>2. \A x : [sub EXCEPT !.pc = "commit", !.granted = granted, !.rows = x].frames = sub.frames
    BY Zenon, <1>1 DEF Subs
  <2>3. Short
    BY Zenon, <1>10, <2>2 DEF BatchDecided
  <2> QED
    BY Zenon, <2>1, <2>3
<1>11. CASE CommitItem
  <2> DEFINE item == Head(sub.buffered)
             s == [sub EXCEPT !.buffered = Tail(@), !.items = @ - 1]
             at == <<item.partition, item.offset>>
             taken == Advance(s, item)
             frame == Frame([item.change EXCEPT !.data = sub.rows[item.change.key]], taken.offsets)
  <2>1. sub.pc = "commit" /\ sub.items > 0 /\ inbox' = inbox
    BY Zenon, <1>11 DEF CommitItem
  <2>2. sub.items <= Len(sub.buffered) /\ Checked(sub) /\ Queried(sub)
    BY Zenon, <2>1, InBatch
  <2>3. /\ s.frames = sub.frames /\ Progressed(s, item).frames = sub.frames /\ taken.frames = sub.frames
        /\ Failed(taken).frames = << >>
    BY Zenon, <1>1 DEF Progressed, Advance, Failed, Idle, Subs
  <2>4. [Remember(taken, item) EXCEPT !.frames = IF at \in sub.granted THEN Append(@, frame) ELSE @].frames
            = IF at \in sub.granted THEN Append(sub.frames, frame) ELSE sub.frames
    BY Zenon, <1>1 DEF Remember, Advance, Subs
  <2>5. \/ Short
        \/ /\ IsRecord(item) /\ ~Behind(sub, item) /\ at \in sub.granted
           /\ sub'.frames = Append(sub.frames, frame)
    BY Zenon, <1>11, <2>3, <2>4 DEF CommitItem
  <2>6. CASE Short
    BY ZenonT(30), <1>4, <2>1, <2>6
  <2>7. CASE /\ IsRecord(item) /\ ~Behind(sub, item) /\ at \in sub.granted
             /\ sub'.frames = Append(sub.frames, frame)
    <3>1. 1 \in 1..sub.items /\ sub.buffered # << >> /\ item = sub.buffered[1] /\ at = At(sub.buffered[1])
      <4>1. sub.items \in Nat /\ Len(sub.buffered) \in Nat
        BY Zenon, <1>1, SubFields, SeqFacts
      <4>2. sub.buffered # << >>
        BY SMTT(30), <1>1, <2>1, <2>2, <4>1
      <4> QED
        BY SMTT(30), <1>1, <2>1, <4>1, <4>2, HeadTail DEF At
    <3>2. News(sub, item.change)
      BY ZenonT(30), <2>2, <2>7, <3>1 DEF Checked, Queried
    <3>3. item \in Records
      BY SMTT(30), <1>1, <2>7, <3>1, HeadTail, ItemKinds
    <3>4. item.change \in Changes
      BY Zenon, <3>3 DEF Records
    <3>5. \A x : /\ [item.change EXCEPT !.data = x].key = item.change.key
                 /\ [item.change EXCEPT !.data = x].version = item.change.version
      BY Zenon, <3>4 DEF Changes
    <3>6. /\ frame.change.key = item.change.key /\ frame.change.version = item.change.version
      BY Zenon, <3>5 DEF Frame
    <3> HIDE DEF frame, item
    <3>7. News(sub, frame.change)
      BY Zenon, <3>2, <3>6 DEF News
    <3>8. Len(sub'.frames) = Len(sub.frames) + 1 /\ sub'.frames[Len(sub.frames) + 1] = frame
      BY <1>1, <2>7
    <3>9. sub.pc # "nextAuth"
      BY Zenon, <2>1
    <3> QED
      BY Zenon, <3>7, <3>8, <3>9
  <2> QED
    BY Zenon, <2>5, <2>6, <2>7
<1>12. CASE BatchDone
  <2>1. sub.pc = "commit" /\ sub' = Idle(sub)
    BY Zenon, <1>12 DEF BatchDone
  <2>2. Short
    BY Zenon, <1>1, <2>1, IdleFacts
  <2> QED
    BY Zenon, <1>3, <2>1, <2>2
<1>13. CASE \E save \in BOOLEAN : Consume(save)
  <2>1. inbox # << >> /\ sub' = sub
    BY Zenon, <1>13 DEF Consume
  <2> QED
    BY Zenon, <1>4, <2>1
<1> QED
  BY ZenonT(30), <1>4, <1>5, <1>6, <1>7, <1>8, <1>9, <1>10, <1>11, <1>12, <1>13 DEF Next

\* What the invariant is for.
LEMMA InvImplies == IInv => NoChangeIsSkipped /\ FramesAreChanges
<1> SUFFICES ASSUME IInv PROVE NoChangeIsSkipped /\ FramesAreChanges
  BY Zenon
<1>1. NoChangeIsSkipped
  <2> SUFFICES ASSUME NEW p \in Partitions, NEW o \in Committed(p), o < checkpoint[p], <<p, o>> \notin compacted
               PROVE  Settled(ChangeAt(p, o))
    BY Zenon DEF NoChangeIsSkipped
  <2>1. o \in Nat /\ Live(p, o)
    BY Zenon, LogFacts DEF IInv, Live
  <2>2. SettledBy(view, denied, ChangeAt(p, o))
    BY Zenon, <2>1 DEF IInv, Saved
  <2> QED
    BY Zenon, <2>2 DEF SettledBy, Settled
<1>2. FramesAreChanges
  <2>1. inbox = << >> \/ Out(sub, inbox) = inbox
    <3>1. sub.pc = "commit" => sub.pc \in Calls
      BY Zenon DEF Calls
    <3> QED
      BY Zenon, <3>1 DEF IInv, OK, Places, Out
  <2>2. ASSUME NEW i \in 1..Len(inbox) PROVE FrameIsReal(inbox[i])
    <3>1. inbox # << >>
      BY <2>2
    <3> QED
      BY Zenon, <2>1, <3>1 DEF IInv, OK, Returned
  <2> QED
    BY Zenon, <2>2 DEF FramesAreChanges, FrameIsReal
<1> QED
  BY Zenon, <1>1, <1>2

LOCAL INSTANCE WellFoundedInduction

LEMMA Smallest == WellOrdered
<1> SUFFICES ASSUME NEW T \in SUBSET Nat, T # {} PROVE \E x \in T : \A y \in T : x <= y
  BY Zenon DEF WellOrdered
<1>1. PICK x \in T : \A y \in T : ~ (<<y, x>> \in OpToRel(<, Nat))
  BY Zenon, NatLessThanWellFounded, WFMin
<1>2. \A y \in T : ~(y < x)
  BY Zenon, <1>1 DEF OpToRel
<1> QED
  BY <1>2

\* A consumer that resumes at the offsets it saved has missed no change, for any
\* log, limits and batch sizes, provided there is something to write.
THEOREM ResumingSkipsNothing ==
    ASSUME Changes # {} PROVE Spec => []NoChangeIsSkipped
<1>1. IInv /\ [Next]_vars => IInv'
  BY Zenon, Smallest, StepInv
<1> QED
  BY <1>1, InitInv, InvImplies, PTL DEF Spec

\* A frame of next or next_batch carries a committed change that its offsets
\* cover, with the contents of its own version, under the same assumptions.
THEOREM FramesCarryChanges ==
    ASSUME Changes # {} PROVE Spec => []FramesAreChanges
<1>1. IInv /\ [Next]_vars => IInv'
  BY Zenon, Smallest, StepInv
<1> QED
  BY <1>1, InitInv, InvImplies, PTL DEF Spec

\* A subscription returns a frame only for a change that is newer than what it
\* has processed for the entity, under the same assumptions.
THEOREM FramesMoveForward ==
    ASSUME Changes # {} PROVE Spec => FramesAreNews
<1> DEFINE A == /\ sub.pc = "nextAuth" /\ inbox' # << >> => News(sub, inbox'[1].change)
                /\ Len(sub'.frames) > Len(sub.frames)
                      => News(sub, sub'.frames[Len(sub'.frames)].change)
<1>1. IInv /\ [Next]_vars => IInv'
  BY Zenon, Smallest, StepInv
<1>2. IInv /\ [Next]_vars => [A]_vars
  BY Zenon, Smallest, StepIsNews
<1> QED
  BY <1>1, <1>2, InitInv, PTL DEF Spec, FramesAreNews
=============================================================================
