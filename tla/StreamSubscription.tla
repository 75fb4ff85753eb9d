------------------------ MODULE StreamSubscription ------------------------
(***************************************************************************)
(* Subscription of src/src/streaming (next and next_batch) over a change   *)
(* log, and a consumer that applies its frames by key and version, saves   *)
(* the offsets of what it has applied, and after a crash subscribes again  *)
(* at the saved offsets.                                                   *)
(*                                                                         *)
(* sub holds the fields of a Subscription and where its caller is:         *)
(*   closed, idle                                                          *)
(*   next       next() waits for the stream                                *)
(*   nextAuth   next() waits for the decision on pending                   *)
(*   collect    next_batch() fills its batch                               *)
(*   batchAuth  next_batch() waits for decisions and the event query       *)
(*   commit     the loop of next_batch() that contains no await            *)
(* A future may be dropped at each wait and at no other place.             *)
(***************************************************************************)
EXTENDS ChangeLog

CONSTANTS MaxEntities,     \* limits.entities
          BatchSizes,      \* max_records a caller asks for
          ItemFactor,      \* a batch holds at most ItemFactor * max_records items; 8 in the code
          None

ASSUME MaxEntitiesAssumption == MaxEntities \in Nat
ASSUME BatchAssumption == BatchSizes \subseteq Nat \ {0} /\ ItemFactor \in Nat \ {0}

\* What a reader yields: a record, or a progress.
Items == [partition : Partitions, offset : Nat, change : Changes]
            \cup [partition : Partitions, next_offset : Nat]
ASSUME NoneAssumption == None \notin Changes /\ None \notin Items

VARIABLES sub,          \* the Subscription
          pos,          \* its reader
          inbox,        \* what it returned and the consumer has not applied
          view,         \* the version of each entity the consumer holds
          checkpoint,   \* the offsets the consumer has saved
          denied        \* changes whose last decision was no (history)
subVars == <<sub, pos, inbox, view, checkpoint, denied>>
vars == <<logVars, subVars>>

Closed == [pc |-> "closed", offsets |-> ZeroOffsets,
           state |-> [k \in Entities |-> None], pending |-> None,
           buffered |-> << >>, items |-> 0, max |-> 0,
           checked |-> {}, granted |-> {}, rows |-> << >>, frames |-> << >>, failed |-> FALSE]

-----------------------------------------------------------------------------
(* How a record stands against the cursor and the state. *)

Behind(s, r) == r.offset < s.offsets[r.partition]
Known(s, r) == s.state[r.change.key] # None
Conflicting(s, r) ==
    /\ Known(s, r)
    /\ s.state[r.change.key].version = r.change.version
    /\ s.state[r.change.key] # r.change
Superseded(s, r) ==
    /\ Known(s, r) /\ ~Conflicting(s, r)
    /\ s.state[r.change.key].version >= r.change.version
AtLimit(s, r) ==
    ~Known(s, r) /\ Cardinality({k \in Entities : s.state[k] # None}) >= MaxEntities

\* Mutant of Advance: the cursor stays on the record.
AdvanceToRecord(s, r) == [s EXCEPT !.offsets[r.partition] = r.offset]

Advance(s, r) == [s EXCEPT !.offsets[r.partition] = r.offset + 1]
Progressed(s, item) ==
    [s EXCEPT !.offsets[item.partition] = IF @ < item.next_offset THEN item.next_offset ELSE @]
Remember(s, r) == [s EXCEPT !.state[r.change.key] = r.change]

\* The call returns, or its future is dropped: its local variables are gone.
Idle(s) == [s EXCEPT !.pc = "idle", !.items = 0, !.max = 0, !.checked = {},
                     !.granted = {}, !.rows = << >>, !.frames = << >>]
\* The call returns an error: the subscription only answers errors from now on.
Failed(s) == [Idle(s) EXCEPT !.failed = TRUE]

Frame(change, offsets) == [change |-> change, offsets |-> offsets]

-----------------------------------------------------------------------------
Init ==
    /\ LogInit
    /\ sub = Closed
    /\ pos = ZeroOffsets
    /\ inbox = << >>
    /\ view = [k \in Entities |-> 0]
    /\ checkpoint = ZeroOffsets
    /\ denied = {}

\* subscribe, after validate_offsets.
Subscribe ==
    /\ sub.pc = "closed"
    /\ \A p \in Partitions : low[p] <= checkpoint[p] /\ checkpoint[p] <= High[p]
    /\ sub' = [Closed EXCEPT !.pc = "idle", !.offsets = checkpoint]
    /\ pos' = checkpoint
    /\ UNCHANGED <<logVars, inbox, view, checkpoint, denied>>

\* The process stops; the consumer's view and checkpoint are durable.
Crash ==
    /\ sub.pc # "closed"
    /\ sub' = Closed
    /\ inbox' = << >>
    /\ UNCHANGED <<logVars, pos, view, checkpoint, denied>>

\* The reader's connection starts again from an earlier offset.
Redeliver ==
    /\ sub.pc # "closed"
    /\ \E p \in Partitions : \E o \in 0..pos[p] : /\ o < pos[p]
                                                  /\ pos' = [pos EXCEPT ![p] = o]
    /\ UNCHANGED <<logVars, sub, inbox, view, checkpoint, denied>>

\* Where the future of next or next_batch waits and may be dropped.
Waiting ==
    \/ sub.pc = "next" /\ sub.buffered = << >>
    \/ sub.pc = "collect" /\ sub.items = Len(sub.buffered)
    \/ sub.pc \in {"nextAuth", "batchAuth"}

Cancel ==
    /\ Waiting
    /\ sub' = Idle(sub)
    /\ UNCHANGED <<logVars, pos, inbox, view, checkpoint, denied>>

\* A read, schema, authorization or execution error.
Error ==
    /\ sub.pc \in {"next", "nextAuth", "collect", "batchAuth"}
    /\ sub' = Failed(sub)
    /\ UNCHANGED <<logVars, pos, inbox, view, checkpoint, denied>>

Ready == sub.pc = "idle" /\ ~sub.failed /\ inbox = << >>

-----------------------------------------------------------------------------
(* next *)

\* From a record in hand to the authorization call, or to the next turn of the
\* loop.
Examine(s, r) ==
    IF Behind(s, r) THEN [s EXCEPT !.pending = None]
    ELSE CASE Conflicting(s, r) \/ AtLimit(s, r) -> Failed([s EXCEPT !.pending = r])
           [] Superseded(s, r) -> [Advance(s, r) EXCEPT !.pending = None]
           [] OTHER -> [s EXCEPT !.pending = r, !.pc = "nextAuth"]

CallNext ==
    LET s == [sub EXCEPT !.pc = "next"] IN
    /\ Ready
    /\ sub' = IF s.pending = None THEN s ELSE Examine(s, s.pending)
    /\ UNCHANGED <<logVars, pos, inbox, view, checkpoint, denied>>

Accept(s, item) == IF IsRecord(item) THEN Examine(s, item) ELSE Progressed(s, item)

NextBuffered ==
    /\ sub.pc = "next" /\ sub.buffered # << >>
    /\ sub' = Accept([sub EXCEPT !.buffered = Tail(@)], Head(sub.buffered))
    /\ UNCHANGED <<logVars, pos, inbox, view, checkpoint, denied>>

NextStream ==
    /\ sub.pc = "next" /\ sub.buffered = << >>
    /\ \E item \in Yields(pos) :
          /\ sub' = Accept(sub, item)
          /\ pos' = After(pos, item)
    /\ UNCHANGED <<logVars, inbox, view, checkpoint, denied>>

\* The decision arrives and the event query has run.
NextDecided(allowed) ==
    LET r == sub.pending
        s == Remember(Advance([sub EXCEPT !.pending = None], r), r)
    IN  /\ sub.pc = "nextAuth"
        /\ IF allowed
           THEN /\ sub' = Idle(s)
                /\ inbox' = <<Frame(r.change, s.offsets)>>
                /\ UNCHANGED denied
           ELSE /\ sub' = [s EXCEPT !.pc = "next"]
                /\ denied' = denied \cup {r.change}
                /\ UNCHANGED inbox
        /\ UNCHANGED <<logVars, pos, view, checkpoint>>

-----------------------------------------------------------------------------
(* next_batch *)

Batch(s) == SubSeq(s.buffered, 1, s.items)
RecordsIn(q) == {q[i] : i \in {j \in 1..Len(q) : IsRecord(q[j])}}
Full(s) == \/ Cardinality({i \in 1..s.items : IsRecord(s.buffered[i])}) = s.max
           \/ s.items >= s.max * ItemFactor
\* Mutant of Repeats: a repeated entity does not end the batch.
NeverRepeats(s, item) == FALSE

Repeats(s, item) ==
    IsRecord(item) /\ \E r \in RecordsIn(Batch(s)) : r.change.key = item.change.key

\* The records of the batch that are neither old nor superseded are checked.
Check(s) ==
    LET fresh == {r \in RecordsIn(Batch(s)) : ~Behind(s, r)} IN
    IF \E r \in fresh : Conflicting(s, r) THEN Failed(s)
    ELSE [s EXCEPT !.pc = "batchAuth",
                   !.checked = {<<r.partition, r.offset>> : r \in
                                   {f \in fresh : ~Superseded(s, f)}}]

\* Look at the first item that is not in the batch yet.
Collected(s) ==
    LET item == s.buffered[s.items + 1] IN
    IF Repeats(s, item) THEN Check(s) ELSE [s EXCEPT !.items = @ + 1]

\* Mutant of CallBatch: the record next() was waiting on is not put back.
CallBatchDropping(max) ==
    /\ Ready
    /\ sub' = [sub EXCEPT !.pc = "collect", !.max = max, !.pending = None]
    /\ UNCHANGED <<logVars, pos, inbox, view, checkpoint, denied>>

CallBatch(max) ==
    /\ Ready
    /\ sub' = [sub EXCEPT !.pc = "collect", !.max = max, !.pending = None,
                  !.buffered = IF sub.pending = None THEN @ ELSE <<sub.pending>> \o @]
    /\ UNCHANGED <<logVars, pos, inbox, view, checkpoint, denied>>

CollectBuffered ==
    /\ sub.pc = "collect" /\ ~Full(sub) /\ sub.items < Len(sub.buffered)
    /\ sub' = Collected(sub)
    /\ UNCHANGED <<logVars, pos, inbox, view, checkpoint, denied>>

CollectStream ==
    /\ sub.pc = "collect" /\ ~Full(sub) /\ sub.items = Len(sub.buffered)
    /\ \E item \in Yields(pos) :
          /\ sub' = Collected([sub EXCEPT !.buffered = Append(@, item)])
          /\ pos' = After(pos, item)
    /\ UNCHANGED <<logVars, inbox, view, checkpoint, denied>>

\* Mutant of CollectEnds: max_wait never ends a batch.
CollectEndsWhenFull ==
    /\ sub.pc = "collect" /\ Full(sub)
    /\ sub' = Check(sub)
    /\ UNCHANGED <<logVars, pos, inbox, view, checkpoint, denied>>

\* The batch is full, or max_wait is over.
CollectEnds ==
    /\ sub.pc = "collect" /\ (Full(sub) \/ sub.items = Len(sub.buffered))
    /\ sub' = Check(sub)
    /\ UNCHANGED <<logVars, pos, inbox, view, checkpoint, denied>>

\* The decisions arrive and one event query over the granted changes has run:
\* its rows are looked up by entity.
BatchDecided(granted) ==
    LET visible == {r.change : r \in {b \in RecordsIn(Batch(sub)) :
                                         <<b.partition, b.offset>> \in granted}}
    IN
    /\ sub.pc = "batchAuth" /\ granted \subseteq sub.checked
    /\ sub' = [sub EXCEPT !.pc = "commit", !.granted = granted,
                  !.rows = [k \in {c.key : c \in visible} |->
                              (CHOOSE c \in visible : c.key = k).data]]
    /\ UNCHANGED <<logVars, pos, inbox, view, checkpoint, denied>>

\* One turn of the commit loop.  merge may find the entity limit reached.
CommitItem ==
    LET item == Head(sub.buffered)
        s == [sub EXCEPT !.buffered = Tail(@), !.items = @ - 1]
        at == <<item.partition, item.offset>>
        taken == Advance(s, item)
        frame == Frame([item.change EXCEPT !.data = sub.rows[item.change.key]], taken.offsets)
    IN  /\ sub.pc = "commit" /\ sub.items > 0
        /\ \/ /\ ~IsRecord(item)
              /\ sub' = Progressed(s, item)
              /\ UNCHANGED denied
           \/ /\ IsRecord(item)
              /\ \/ /\ Behind(sub, item)
                    /\ sub' = s
                    /\ UNCHANGED denied
                 \/ /\ ~Behind(sub, item) /\ at \notin sub.checked
                    /\ sub' = taken
                    /\ UNCHANGED denied
                 \/ /\ ~Behind(sub, item) /\ at \in sub.checked /\ AtLimit(sub, item)
                    /\ sub' = Failed(taken)
                    /\ UNCHANGED denied
                 \/ /\ ~Behind(sub, item) /\ at \in sub.checked /\ ~AtLimit(sub, item)
                    /\ sub' = [Remember(taken, item) EXCEPT !.frames =
                                  IF at \in sub.granted THEN Append(@, frame) ELSE @]
                    /\ denied' = IF at \in sub.granted THEN denied
                                 ELSE denied \cup {item.change}
        /\ UNCHANGED <<logVars, pos, inbox, view, checkpoint>>

\* The batch is returned: its frames, then its own offsets.
BatchDone ==
    /\ sub.pc = "commit" /\ sub.items = 0
    /\ sub' = Idle(sub)
    /\ inbox' = Append(sub.frames, Frame(None, sub.offsets))
    /\ UNCHANGED <<logVars, pos, view, checkpoint, denied>>

-----------------------------------------------------------------------------
\* The consumer applies the first frame, and may save its offsets.
Consume(save) ==
    LET frame == Head(inbox) IN
    /\ inbox # << >>
    /\ view' = [k \in Entities |->
                  IF frame.change # None /\ frame.change.key = k /\ view[k] < frame.change.version
                  THEN frame.change.version ELSE view[k]]
    /\ checkpoint' = IF save THEN frame.offsets ELSE checkpoint
    /\ inbox' = Tail(inbox)
    /\ UNCHANGED <<logVars, sub, pos, denied>>

Next ==
    \/ LogNext /\ UNCHANGED subVars
    \/ Subscribe \/ Crash \/ Redeliver \/ Cancel \/ Error
    \/ CallNext \/ NextBuffered \/ NextStream
    \/ \E allowed \in BOOLEAN : NextDecided(allowed)
    \/ \E max \in BatchSizes : CallBatch(max)
    \/ CollectBuffered \/ CollectStream \/ CollectEnds
    \/ \E granted \in SUBSET sub.checked : BatchDecided(granted)
    \/ CommitItem \/ BatchDone
    \/ \E save \in BOOLEAN : Consume(save)

Spec == Init /\ [][Next]_vars

-----------------------------------------------------------------------------
(* Properties. *)

\* Every variable keeps its type.
TypeOK ==
    /\ log \in [Partitions -> Seq(Changes)] /\ low \in Offsets
    /\ pos \in Offsets /\ checkpoint \in Offsets /\ view \in [Entities -> Nat]
    /\ denied \subseteq Changes
    /\ sub.offsets \in Offsets /\ sub.state \in [Entities -> Changes \cup {None}]
    /\ sub.pending = None \/ sub.pending \in Items
    /\ sub.buffered \in Seq(Items) /\ sub.items \in 0..Len(sub.buffered)

\* A consumer that resumes at the offsets it saved misses nothing: every
\* committed change before them was applied, or superseded by one that was, or
\* withheld by an authorization decision -- whatever was cancelled, redelivered,
\* batched, interrupted or removed from the log in between.
Settled(c) == \/ view[c.key] >= c.version
              \/ \E d \in denied : d.key = c.key /\ d.version >= c.version
NoChangeIsSkipped ==
    \A p \in Partitions : \A o \in Committed(p) :
        o < checkpoint[p] /\ <<p, o>> \notin compacted => Settled(ChangeAt(p, o))

\* A frame carries the contents of its own version: it is one of the committed
\* changes that its offsets cover.
FramesAreChanges ==
    \A i \in 1..Len(inbox) :
        inbox[i].change # None =>
            \E p \in Partitions : \E o \in Committed(p) :
                o < inbox[i].offsets[p] /\ ChangeAt(p, o) = inbox[i].change

\* Within one subscription an entity only moves forward: a frame is newer than
\* everything the subscription has processed for its entity, granted or not, so
\* duplicates and late versions in the log are never delivered again.
News(s, c) == s.state[c.key] = None \/ s.state[c.key].version < c.version
FramesAreNews ==
    [][/\ sub.pc = "nextAuth" /\ inbox' # << >> => News(sub, inbox'[1].change)
       /\ Len(sub'.frames) > Len(sub.frames)
             => News(sub, sub'.frames[Len(sub'.frames)].change)]_vars

\* The caller keeps asking and applies what it gets; the broker, the authorizer
\* and the event query answer, often enough that not every call that has
\* something to deliver is cancelled; a subscription that failed is dropped and
\* opened again.  A reader that retention has overtaken gets an error.
ReadError ==
    /\ sub.pc \in {"next", "collect"} /\ (\E p \in Partitions : pos[p] < low[p])
    /\ Error
Fairness ==
    /\ WF_vars(Subscribe) /\ WF_vars(Crash /\ sub.failed)
    /\ WF_vars(CallNext \/ \E max \in BatchSizes : CallBatch(max))
    /\ WF_vars(NextBuffered) /\ SF_vars(NextStream)
    /\ SF_vars(\E allowed \in BOOLEAN : NextDecided(allowed))
    /\ WF_vars(CollectBuffered) /\ SF_vars(CollectStream)
    /\ WF_vars(CollectEnds) /\ SF_vars(sub.items > 0 /\ CollectEnds)
    /\ WF_vars(\E granted \in SUBSET sub.checked : BatchDecided(granted))
    /\ SF_vars(sub.items > 0 /\ \E granted \in SUBSET sub.checked : BatchDecided(granted))
    /\ WF_vars(CommitItem) /\ WF_vars(BatchDone)
    /\ WF_vars(\E save \in BOOLEAN : Consume(save)) /\ SF_vars(ReadError)

\* Other errors, crashes of a working subscription and reconnections come to an
\* end.
Disturbance == Redeliver \/ (Error /\ ~ReadError) \/ (Crash /\ ~sub.failed)
LiveSpec == Spec /\ Fairness /\ <>[][~Disturbance]_vars

\* Every committed change reaches the consumer, or is superseded by one that
\* does, or is withheld by a decision, unless compaction takes it or retention
\* takes the consumer's place in the log.
EveryChangeSettles ==
    \A p \in Partitions : \A o \in 0..(MaxLog - 1) :
        o \in Committed(p)
            ~> \/ o \in Committed(p) /\ Settled(ChangeAt(p, o))
               \/ <<p, o>> \in compacted
               \/ \E q \in Partitions : low[q] > checkpoint[q]
=============================================================================
