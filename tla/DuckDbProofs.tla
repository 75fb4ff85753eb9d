---------------------------- MODULE DuckDbProofs ----------------------------
(***************************************************************************)
(* Proofs about DuckDbExecutor, for any relations, blocks, contents and    *)
(* budget: what the executor remembers is what the session holds.          *)
(***************************************************************************)
EXTENDS DuckDbExecutor, TLAPS

\* What the executor notes of an object, and the objects of the session.
Entries == [name : Contents \cup Nat, oid : Nat]
Objects == [name : Contents \cup Nat, oid : Nat, by : {"run", "tables", "stream", "caller"}]
\* The blocks a relation may be set up with, and what relations may hold.
Codes == Blocks \cup {NoBlock}
Mains == [Relations -> Blocks \cup {Other}]
\* The executor with its session; the query it works for.
States ==
    [conn : {"none", "here", "away", "lost"}, active : BOOLEAN,
     applied : [Relations -> Codes], scans : [Contents -> Entries],
     views : SUBSET Entries, transient : SUBSET Entries, retired : SUBSET Entries,
     tx : {"none", "open", "aborted"}, main : Mains, temp : SUBSET Objects,
     saved : [main : Mains, temp : SUBSET Objects]]
Jobs ==
    [kind : {"run", "tables", "stream"}, setup : [Relations -> Codes], tables : SUBSET Contents,
     loads : SUBSET Contents, todo : SUBSET Relations, done : SUBSET Relations,
     cache : BOOLEAN, ready : BOOLEAN]

\* No object of run_with_tables is among them.
NoTables(objects) == \A o \in objects : o.by # "tables"

\* What holds of every state of the executor. The cached tables are in no other
\* list, each under one content, and each is still an object of the executor. No
\* list has an object of the caller; every object of run_with_tables is in a list,
\* and a rollback brings none back. In a transaction of the caller nothing is
\* cached and nothing waits to be dropped.
Sound(s) ==
    /\ s \in States
    /\ \A e \in Cached(s) : e \notin s.views \cup s.transient \cup s.retired
    /\ \A e \in s.views : e \notin s.retired
    /\ \A c, d \in Contents : s.scans[c] # NoEntry /\ s.scans[c] = s.scans[d] => c = d
    /\ \A c \in Contents : s.scans[c] # NoEntry => \E o \in s.temp : Entry(o) = s.scans[c] /\ Mine(o)
    /\ \A o \in s.temp \cup s.saved.temp : ~Mine(o) => Entry(o) \notin Tracked(s)
    /\ \A o \in s.temp : o.by = "tables" => Entry(o) \in Tracked(s)
    /\ NoTables(s.saved.temp)
    /\ s.tx # "none" => Cached(s) = {} /\ s.retired = {}

\* What applied_setup says of a relation is what the relation holds.
Matches(s) == HalfBlocks \/ \A r \in Relations : s.applied[r] \in {NoBlock, s.main[r]}
\* Between calls an open transaction has no objects of run_with_tables.
Clean(s) == s.tx = "open" => NoTables(s.temp)

\* From s to t objects of the executor may go, and setup may be forgotten.
Shrinks(s, t) ==
    /\ t.conn = s.conn /\ t.active = s.active /\ t.tx = s.tx /\ t.main = s.main /\ t.saved = s.saved
    /\ t.temp \subseteq s.temp
    /\ \A o \in s.temp : ~Mine(o) => o \in t.temp
    /\ \A r \in Relations : t.applied[r] \in {s.applied[r], NoBlock}
Tidies(s, t) == Sound(t) /\ Shrinks(s, t)

\* What a sound session is made of.
LEMMA SoundIn == ASSUME NEW s, Sound(s) PROVE s \in States
BY Zenon DEF Sound

\* What it guarantees of its lists and of the session.
LEMMA SoundParts ==
    ASSUME NEW s, Sound(s)
    PROVE  /\ s \in States /\ s.conn \in {"none", "here", "away", "lost"}
           /\ \A e \in s.views : e \notin s.retired
           /\ \A c \in Contents : s.scans[c] # NoEntry => \E o \in s.temp : Entry(o) = s.scans[c] /\ Mine(o)
           /\ \A o \in s.temp \cup s.saved.temp : ~Mine(o) => Entry(o) \notin Tracked(s)
           /\ \A o \in s.temp : o.by = "tables" => Entry(o) \in Tracked(s)
           /\ NoTables(s.saved.temp)
           /\ s.tx # "none" => Cached(s) = {} /\ s.retired = {}
<1>1. s \in States
  BY Zenon, SoundIn
<1>2. s.conn \in {"none", "here", "away", "lost"}
  BY Zenon, <1>1 DEF States
<1> QED
  BY Zenon, <1>1, <1>2 DEF Sound

\* A session with the same objects, that tracks the same ones, is as sound.
LEMMA SoundSame ==
    ASSUME NEW s, NEW t, Sound(s), t \in States, t.scans = s.scans, t.views = s.views,
           t.transient = s.transient, t.retired = s.retired, t.temp = s.temp, t.saved = s.saved,
           t.tx # "none" => s.tx # "none"
    PROVE  Sound(t)
<1>1. Cached(t) = Cached(s)
  BY Zenon DEF Cached
<1>2. Tracked(t) = Tracked(s)
  BY Zenon, <1>1 DEF Tracked
<1> QED
  BY <1>1, <1>2 DEF Sound

\* The fields after invalidate_setup.
LEMMA InvalidateFacts ==
    ASSUME NEW s \in States
    PROVE  LET i == InvalidateSetup(s) IN
           /\ i \in States
           /\ i.conn = s.conn /\ i.active = s.active /\ i.tx = s.tx /\ i.main = s.main
           /\ i.temp = s.temp /\ i.saved = s.saved /\ i.views = s.views /\ i.transient = s.transient
           /\ i.retired = s.retired \cup Cached(s)
           /\ \A c \in Contents : i.scans[c] = NoEntry
           /\ \A r \in Relations : i.applied[r] = NoBlock
           /\ Cached(i) = {} /\ Tracked(i) = Tracked(s)
<1> DEFINE i == InvalidateSetup(s)
<1>1. Cached(s) \subseteq Entries
  BY DEF Cached, States
<1>2. NoEntry \in Entries
  BY Zenon DEF NoEntry, Entries
<1>3. /\ i \in States
      /\ i.conn = s.conn /\ i.active = s.active /\ i.tx = s.tx /\ i.main = s.main
      /\ i.temp = s.temp /\ i.saved = s.saved /\ i.views = s.views /\ i.transient = s.transient
      /\ i.retired = s.retired \cup Cached(s)
      /\ i.scans = [c \in Contents |-> NoEntry]
      /\ i.applied = [r \in Relations |-> NoBlock]
  BY Zenon, <1>1, <1>2 DEF States, InvalidateSetup, Codes
<1>4. Cached(i) = {}
  BY ZenonT(30), <1>3 DEF Cached
<1>5. Tracked(i) = Tracked(s)
  BY Zenon, <1>3, <1>4 DEF Tracked
<1> QED
  BY Zenon, <1>3, <1>4, <1>5

\* Invalidation forgets setup, and every object stays in a list.
LEMMA InvalidateTidies ==
    ASSUME NEW s, Sound(s)
    PROVE  Tidies(s, InvalidateSetup(s))
<1> DEFINE i == InvalidateSetup(s)
<1>1. s \in States
  BY Zenon, SoundIn
<1> HIDE DEF i
<1>2. /\ i \in States
      /\ i.conn = s.conn /\ i.active = s.active /\ i.tx = s.tx /\ i.main = s.main
      /\ i.temp = s.temp /\ i.saved = s.saved /\ i.views = s.views /\ i.transient = s.transient
      /\ i.retired = s.retired \cup Cached(s)
      /\ \A c \in Contents : i.scans[c] = NoEntry
      /\ \A r \in Relations : i.applied[r] = NoBlock
      /\ Cached(i) = {} /\ Tracked(i) = Tracked(s)
  BY Zenon, <1>1, InvalidateFacts DEF i
<1>3. Sound(i)
  BY Zenon, <1>2 DEF Sound
<1>4. Shrinks(s, i)
  BY Zenon, <1>2 DEF Shrinks
<1> QED
  BY Zenon, <1>3, <1>4 DEF Tidies, i

\* Objects and their entries are dropped together.
LEMMA DropKeeps ==
    ASSUME NEW s, NEW entries, NEW t, Sound(s), t \in States,
           t.conn = s.conn, t.active = s.active, t.tx = s.tx, t.main = s.main, t.saved = s.saved,
           t.applied = s.applied,
           entries \subseteq Tracked(s),
           t.temp = DropObjects(s, entries),
           Tracked(t) \subseteq Tracked(s), Tracked(s) \subseteq Tracked(t) \cup entries,
           t.views \subseteq s.views, t.transient \subseteq s.transient, t.retired \subseteq s.retired,
           \A c \in Contents : t.scans[c] = NoEntry \/ (t.scans[c] = s.scans[c] /\ s.scans[c] \notin entries)
    PROVE  Tidies(s, t)
<1>1. Cached(t) \subseteq Cached(s)
  BY Zenon DEF Cached
<1>2. /\ \A e \in Cached(t) : e \notin t.views \cup t.transient \cup t.retired
      /\ \A e \in t.views : e \notin t.retired
      /\ t.tx # "none" => Cached(t) = {} /\ t.retired = {}
      /\ NoTables(t.saved.temp)
  BY Zenon, <1>1 DEF Sound
<1>3. \A c, d \in Contents : t.scans[c] # NoEntry /\ t.scans[c] = t.scans[d] => c = d
  BY DEF Sound
<1>4. ASSUME NEW c \in Contents, t.scans[c] # NoEntry
      PROVE  \E o \in t.temp : Entry(o) = t.scans[c] /\ Mine(o)
  <2>1. PICK o \in s.temp : Entry(o) = s.scans[c] /\ Mine(o)
    BY Zenon, <1>4 DEF Sound
  <2>2. o \in t.temp
    BY Zenon, <2>1, <1>4 DEF DropObjects
  <2> QED
    BY Zenon, <2>1, <2>2, <1>4
<1>5. \A o \in t.temp \cup t.saved.temp : ~Mine(o) => Entry(o) \notin Tracked(t)
  BY Zenon DEF Sound, DropObjects
<1>6. \A o \in t.temp : o.by = "tables" => Entry(o) \in Tracked(t)
  BY Zenon DEF Sound, DropObjects
<1>7. Sound(t)
  BY Zenon, <1>2, <1>3, <1>4, <1>5, <1>6 DEF Sound
<1>8. Shrinks(s, t)
  <2>1. \A o \in s.temp : ~Mine(o) => o \in t.temp
    BY Zenon DEF Sound, DropObjects
  <2>2. t.temp \subseteq s.temp
    BY Zenon DEF DropObjects
  <2> QED
    BY Zenon, <2>1, <2>2 DEF Shrinks
<1> QED
  BY Zenon, <1>7, <1>8 DEF Tidies

\* Doing nothing tidies, and tidying twice does.
LEMMA SelfTidies == ASSUME NEW s, Sound(s) PROVE Tidies(s, s)
BY Zenon DEF Tidies, Shrinks

\* Tidying twice tidies.
LEMMA TidiesTwice ==
    ASSUME NEW s, NEW t, NEW u, Tidies(s, t), Tidies(t, u)
    PROVE  Tidies(s, u)
BY Zenon DEF Tidies, Shrinks

\* What clear_query_scans drops, and that it drops no cached table.
LEMMA QueryScansTidies ==
    ASSUME NEW s, Sound(s)
    PROVE  /\ Tidies(s, ClearQueryScans(s))
           /\ ClearQueryScans(s).applied = s.applied /\ ClearQueryScans(s).scans = s.scans
           /\ ClearQueryScans(s).retired = s.retired
           /\ Readable(s) => /\ ClearQueryScans(s).views = {} /\ ClearQueryScans(s).transient = {}
                             /\ Tracked(ClearQueryScans(s)) = Cached(s) \cup s.retired
<1>0. s \in States
  BY Zenon, SoundIn
<1>1. CASE ~Readable(s)
  BY Zenon, <1>1, SelfTidies DEF ClearQueryScans
<1>2. CASE Readable(s)
  <2> DEFINE gone == s.views \cup s.transient
             left == DropObjects(s, gone)
             t == [s EXCEPT !.temp = left, !.views = {}, !.transient = {}]
  <2>1. ClearQueryScans(s) = t
    BY Zenon, <1>2 DEF ClearQueryScans
  <2>2. left \in SUBSET Objects
    BY Zenon, <1>0 DEF DropObjects, States
  <2> HIDE DEF left
  <2>3. /\ t \in States
        /\ t.conn = s.conn /\ t.active = s.active /\ t.tx = s.tx /\ t.main = s.main /\ t.saved = s.saved
        /\ t.applied = s.applied /\ t.scans = s.scans /\ t.retired = s.retired
        /\ t.temp = left /\ t.views = {} /\ t.transient = {}
    BY Zenon, <1>0, <2>2 DEF States
  <2> HIDE DEF t
  <2>4. Cached(t) = Cached(s)
    BY Zenon, <2>3 DEF Cached
  <2>5. Tracked(t) = Cached(s) \cup s.retired
    BY Zenon, <2>3, <2>4 DEF Tracked
  <2>6. Tracked(t) \subseteq Tracked(s) /\ Tracked(s) \subseteq Tracked(t) \cup gone /\ gone \subseteq Tracked(s)
    BY Zenon, <2>5 DEF Tracked
  <2>7. \A c \in Contents : t.scans[c] = NoEntry \/ (t.scans[c] = s.scans[c] /\ s.scans[c] \notin gone)
    BY Zenon, <2>3 DEF Sound, Cached
  <2> HIDE DEF gone
  <2>8. Tidies(s, t)
    BY Zenon, <2>3, <2>6, <2>7, DropKeeps DEF left
  <2> QED
    BY Zenon, <2>1, <2>3, <2>5, <2>8
<1> QED
  BY Zenon, <1>1, <1>2

\* What clear_retired_scans drops, and that it drops no table in use.
LEMMA RetiredScansTidies ==
    ASSUME NEW s, Sound(s)
    PROVE  /\ Tidies(s, ClearRetiredScans(s))
           /\ ClearRetiredScans(s).applied = s.applied /\ ClearRetiredScans(s).scans = s.scans
           /\ ClearRetiredScans(s).views = s.views /\ ClearRetiredScans(s).transient = s.transient
           /\ \A o \in s.temp : Entry(o) \notin s.retired => o \in ClearRetiredScans(s).temp
           /\ Readable(s) /\ ~InTransaction(s) => /\ ClearRetiredScans(s).retired = {}
                                                 /\ Tracked(ClearRetiredScans(s)) = Cached(s) \cup s.views \cup s.transient
           /\ ~(Readable(s) /\ ~InTransaction(s)) => ClearRetiredScans(s) = s
<1>0. s \in States
  BY Zenon, SoundIn
<1>1. CASE ~Readable(s) \/ InTransaction(s)
  BY Zenon, <1>1, SelfTidies DEF ClearRetiredScans
<1>2. CASE Readable(s) /\ ~InTransaction(s)
  <2> DEFINE left == DropObjects(s, s.retired)
             t == [s EXCEPT !.temp = left, !.retired = {}]
  <2>1. ClearRetiredScans(s) = t
    BY Zenon, <1>2 DEF ClearRetiredScans
  <2>2. left \in SUBSET Objects
    BY Zenon, <1>0 DEF DropObjects, States
  <2> HIDE DEF left
  <2>3. /\ t \in States
        /\ t.conn = s.conn /\ t.active = s.active /\ t.tx = s.tx /\ t.main = s.main /\ t.saved = s.saved
        /\ t.applied = s.applied /\ t.scans = s.scans /\ t.retired = {}
        /\ t.temp = left /\ t.views = s.views /\ t.transient = s.transient
    BY Zenon, <1>0, <2>2 DEF States
  <2> HIDE DEF t
  <2>4. Cached(t) = Cached(s)
    BY Zenon, <2>3 DEF Cached
  <2>5. Tracked(t) = Cached(s) \cup s.views \cup s.transient
    BY Zenon, <2>3, <2>4 DEF Tracked
  <2>6. Tracked(t) \subseteq Tracked(s) /\ Tracked(s) \subseteq Tracked(t) \cup s.retired /\ s.retired \subseteq Tracked(s)
    BY Zenon, <2>5 DEF Tracked
  <2>7. \A c \in Contents : t.scans[c] = NoEntry \/ (t.scans[c] = s.scans[c] /\ s.scans[c] \notin s.retired)
    BY Zenon, <2>3 DEF Sound, Cached
  <2>8. Tidies(s, t)
    BY Zenon, <2>3, <2>6, <2>7, DropKeeps DEF left
  <2>9. \A o \in s.temp : Entry(o) \notin s.retired => o \in t.temp
    BY Zenon, <2>3 DEF left, DropObjects
  <2> QED
    BY Zenon, <1>2, <2>1, <2>3, <2>5, <2>8, <2>9
<1> QED
  BY Zenon, <1>1, <1>2

\* An eviction drops the tables of the entries it removes, and no others.
LEMMA EvictedTidies ==
    ASSUME NEW s, NEW inUse, NEW t \in Evicted(s, inUse), Sound(s)
    PROVE  Tidies(s, t) /\ t.applied = s.applied
<1>0. s \in States
  BY Zenon, SoundIn
<1>1. CASE t = s
  BY Zenon, <1>1, SelfTidies
<1>2. CASE t # s
  <2> DEFINE old == {c \in Contents \ inUse : s.scans[c] # NoEntry}
             Entered(gone) == {s.scans[c] : c \in gone}
             Without(gone) == [s EXCEPT !.temp = DropObjects(s, Entered(gone)),
                                   !.scans = [c \in Contents |-> IF c \in gone THEN NoEntry ELSE @[c]]]
  <2>1. PICK gone \in SUBSET old : t = Without(gone)
    BY <1>2, Zenon DEF Evicted
  <2> DEFINE left == DropObjects(s, Entered(gone))
             held == [c \in Contents |-> IF c \in gone THEN NoEntry ELSE s.scans[c]]
  <2>2. left \in SUBSET Objects
    BY Zenon, <1>0 DEF DropObjects, States
  <2>3. held \in [Contents -> Entries]
    BY Zenon, <1>0 DEF States, NoEntry, Entries
  <2>4. t = [s EXCEPT !.temp = left, !.scans = held]
    BY Zenon, <2>1
  <2> HIDE DEF left, held
  <2>5. /\ t \in States
        /\ t.conn = s.conn /\ t.active = s.active /\ t.tx = s.tx /\ t.main = s.main /\ t.saved = s.saved
        /\ t.applied = s.applied /\ t.scans = held /\ t.retired = s.retired
        /\ t.temp = left /\ t.views = s.views /\ t.transient = s.transient
    BY Zenon, <1>0, <2>2, <2>3, <2>4 DEF States
  <2>6. \A c \in Contents : held[c] = IF c \in gone THEN NoEntry ELSE s.scans[c]
    BY Zenon DEF held
  <2>7. Entered(gone) \subseteq Cached(s)
    BY Zenon DEF Cached
  <2>8. Cached(t) \subseteq Cached(s)
    BY ZenonT(30), <2>5, <2>6 DEF Cached
  <2>9. Cached(s) \subseteq Cached(t) \cup Entered(gone)
    BY ZenonT(30), <2>5, <2>6 DEF Cached
  <2>10. Tracked(t) \subseteq Tracked(s) /\ Tracked(s) \subseteq Tracked(t) \cup Entered(gone)
         /\ Entered(gone) \subseteq Tracked(s)
    BY Zenon, <2>5, <2>7, <2>8, <2>9 DEF Tracked
  <2>11. \A c \in Contents : t.scans[c] = NoEntry \/ (t.scans[c] = s.scans[c] /\ s.scans[c] \notin Entered(gone))
    BY ZenonT(30), <2>5, <2>6 DEF Sound
  <2> HIDE DEF Entered, Without
  <2>12. Tidies(s, t)
    BY Zenon, <2>5, <2>10, <2>11, DropKeeps DEF left
  <2> QED
    BY Zenon, <2>5, <2>12
<1> QED
  BY Zenon, <1>1, <1>2

\* No object and no entry has the oid.
Unused(s, n) == n \in Nat /\ n # 0 /\ \A e \in s.temp \cup s.saved.temp \cup Tracked(s) : e.oid # n

\* A new object of the executor is entered in one list, with an oid of its own.
LEMMA AddSound ==
    ASSUME NEW s, NEW t, NEW o \in Objects, NEW b \in Contents, Sound(s), t \in States,
           Mine(o), Unused(s, o.oid),
           t.tx = s.tx, t.saved = s.saved, t.retired = s.retired,
           t.temp = s.temp \cup {o}, Tracked(t) = Tracked(s) \cup {Entry(o)},
           \/ t.scans = s.scans /\ t.views \subseteq s.views \cup {Entry(o)}
                                /\ t.transient \subseteq s.transient \cup {Entry(o)}
           \/ /\ t.views = s.views /\ t.transient = s.transient /\ s.tx = "none"
              /\ s.scans[b] = NoEntry /\ t.scans[b] = Entry(o)
              /\ \A c \in Contents \ {b} : t.scans[c] = s.scans[c]
    PROVE  Sound(t)
<1> DEFINE e == Entry(o)
<1>1. e.oid = o.oid /\ e # NoEntry
  BY Zenon DEF Unused, Entry, NoEntry
<1>2. /\ e \notin s.views /\ e \notin s.transient /\ e \notin s.retired /\ e \notin Cached(s)
      /\ \A p \in s.temp \cup s.saved.temp : Entry(p) # e
  BY Zenon, <1>1 DEF Unused, Tracked, Entry
<1>3. \A p \in t.temp \cup t.saved.temp : ~Mine(p) => Entry(p) \notin Tracked(t)
  BY Zenon, <1>2 DEF Sound
<1>4. \A p \in t.temp : p.by = "tables" => Entry(p) \in Tracked(t)
  BY Zenon DEF Sound
<1> HIDE DEF e
<1>5. CASE t.scans = s.scans /\ t.views \subseteq s.views \cup {e} /\ t.transient \subseteq s.transient \cup {e}
  <2>1. Cached(t) = Cached(s)
    BY <1>5 DEF Cached
  <2>2. \A c \in Contents : t.scans[c] # NoEntry => \E p \in t.temp : Entry(p) = t.scans[c] /\ Mine(p)
    BY Zenon, <1>5 DEF Sound
  <2>3. /\ \A f \in Cached(t) : f \notin t.views \cup t.transient \cup t.retired
        /\ \A f \in t.views : f \notin t.retired
    BY Zenon, <1>2, <1>5, <2>1 DEF Sound
  <2>4. \A c, d \in Contents : t.scans[c] # NoEntry /\ t.scans[c] = t.scans[d] => c = d
    BY <1>5 DEF Sound
  <2>5. NoTables(t.saved.temp) /\ (t.tx # "none" => Cached(t) = {} /\ t.retired = {})
    BY Zenon, <2>1 DEF Sound
  <2> QED
    BY Zenon, <2>2, <2>3, <2>4, <2>5, <1>3, <1>4 DEF Sound
<1>6. CASE /\ t.views = s.views /\ t.transient = s.transient /\ s.tx = "none"
           /\ s.scans[b] = NoEntry /\ t.scans[b] = e
           /\ \A c \in Contents \ {b} : t.scans[c] = s.scans[c]
  <2>2. t.scans[b] = e /\ \A c \in Contents \ {b} : t.scans[c] = s.scans[c]
    BY Zenon, <1>6
  <2>3. \A f \in Cached(t) : f = e \/ f \in Cached(s)
    BY <2>2 DEF Cached
  <2>4. \A c \in Contents : t.scans[c] # NoEntry => \E p \in t.temp : Entry(p) = t.scans[c] /\ Mine(p)
    BY Zenon, <2>2 DEF Sound, e
  <2>5. /\ \A f \in Cached(t) : f \notin t.views \cup t.transient \cup t.retired
        /\ \A f \in t.views : f \notin t.retired
    BY Zenon, <1>2, <1>6, <2>3 DEF Sound
  <2>6. \A c \in Contents : s.scans[c] # e
    BY Zenon, <1>1, <1>2 DEF Cached
  <2>7. \A c, d \in Contents : t.scans[c] # NoEntry /\ t.scans[c] = t.scans[d] => c = d
    BY <2>2, <2>6 DEF Sound
  <2>8. NoTables(t.saved.temp) /\ (t.tx # "none" => Cached(t) = {} /\ t.retired = {})
    BY Zenon, <1>6 DEF Sound
  <2> QED
    BY Zenon, <2>4, <2>5, <2>7, <2>8, <1>3, <1>4 DEF Sound
<1> QED
  BY Zenon, <1>5, <1>6 DEF e

\* The oid that the session gives next has not been given.
LEMMA FreshFacts ==
    ASSUME NEW s, Sound(s), FreshOids(s) # {}
    PROVE  LET n == NextOid(s) IN
           /\ n \in FreshOids(s) /\ n \in Nat /\ n # 0
           /\ \A e \in s.temp \cup s.saved.temp \cup Tracked(s) : e.oid # n
<1> DEFINE n == NextOid(s)
<1>1. n \in FreshOids(s)
  BY Zenon DEF NextOid
<1> HIDE DEF n
<1>2. n \in 1..MaxOid /\ \A e \in s.temp \cup s.saved.temp \cup Tracked(s) : e.oid # n
  BY Zenon, <1>1 DEF FreshOids
<1>3. n \in Nat /\ n # 0
  BY <1>2, BoundsAssumption
<1> QED
  BY Zenon, <1>1, <1>2, <1>3 DEF n

\* The next oid is unused.
LEMMA NextUnused ==
    ASSUME NEW s, Sound(s), FreshOids(s) # {}
    PROVE  Unused(s, NextOid(s)) /\ NextOid(s) \in FreshOids(s)
BY Zenon, FreshFacts DEF Unused

\* A new table for a content, and a view under the content's alias.
Loaded(s, c, kind, cache) ==
    LET n == NextOid(s)
        e == [name |-> n, oid |-> n]
        made == [s EXCEPT !.temp = @ \cup {[name |-> n, oid |-> n, by |-> kind]}]
    IN  IF cache THEN [made EXCEPT !.scans[c] = e] ELSE [made EXCEPT !.transient = @ \cup {e}]

\* The table of a content is loaded: for the query, or into the cache.
LEMMA TableLoads ==
    ASSUME NEW s, NEW c \in Contents, NEW kind \in {"run", "tables", "stream"}, NEW cache \in BOOLEAN,
           Sound(s), s.tx # "aborted", cache => s.tx # "open" /\ s.scans[c] = NoEntry,
           \E m, n \in FreshOids(s) : m # n,
           NEW t, t = Loaded(s, c, kind, cache)
    PROVE  /\ Sound(t) /\ FreshOids(t) # {}
           /\ t.conn = s.conn /\ t.tx = s.tx /\ t.main = s.main /\ t.applied = s.applied /\ t.views = s.views
           /\ s.temp \subseteq t.temp /\ \A o \in t.temp : o \in s.temp \/ o.by = kind
           /\ \A d \in Contents : s.scans[d] # NoEntry => t.scans[d] # NoEntry
           /\ cache => t.scans[c] # NoEntry
<1> DEFINE n == NextOid(s)
           o == [name |-> n, oid |-> n, by |-> kind]
           e == [name |-> n, oid |-> n]
           made == [s EXCEPT !.temp = @ \cup {o}]
           more == s.temp \cup {o}
           known == [s.scans EXCEPT ![c] = e]
<1>1. s \in States
  BY Zenon, SoundIn
<1>2. Unused(s, n) /\ n \in FreshOids(s)
  BY Zenon, NextUnused
<1> HIDE DEF n
<1>3. o \in Objects /\ Mine(o) /\ o.oid = n /\ Entry(o) = e /\ e \in Entries /\ e # NoEntry /\ o.by = kind
  BY Zenon, <1>2 DEF Objects, Unused, Mine, Entry, Entries, NoEntry
<1>4. t = IF cache THEN [made EXCEPT !.scans[c] = e] ELSE [made EXCEPT !.transient = @ \cup {e}]
  BY Zenon DEF n, Loaded
<1>5. more \in SUBSET Objects
  BY Zenon, <1>1, <1>3 DEF States
<1>6. known \in [Contents -> Entries] /\ known[c] = e /\ \A d \in Contents \ {c} : known[d] = s.scans[d]
  BY Zenon, <1>1, <1>3 DEF States
<1>7. made = [s EXCEPT !.temp = more] /\ made.scans = s.scans /\ made.transient = s.transient /\ made \in States
  BY Zenon, <1>1, <1>5 DEF States
<1> HIDE DEF o, e, more, known
<1>8. /\ t \in States /\ t.conn = s.conn /\ t.tx = s.tx /\ t.main = s.main /\ t.applied = s.applied
      /\ t.saved = s.saved /\ t.retired = s.retired /\ t.views = s.views /\ t.temp = more
      /\ t.scans = (IF cache THEN known ELSE s.scans)
      /\ t.transient = (IF cache THEN s.transient ELSE s.transient \cup {e})
  <2>1. CASE cache
    <3>1. t = [s EXCEPT !.temp = more, !.scans = known]
      BY Zenon, <2>1, <1>4, <1>7 DEF known
    <3> QED
      BY Zenon, <3>1, <2>1, <1>1, <1>5, <1>6 DEF States
  <2>2. CASE ~cache
    <3>1. t = [s EXCEPT !.temp = more, !.transient = s.transient \cup {e}]
      BY Zenon, <2>2, <1>4, <1>7
    <3>2. s.transient \cup {e} \in SUBSET Entries
      BY Zenon, <1>1, <1>3 DEF States
    <3> QED
      BY Zenon, <3>1, <3>2, <2>2, <1>1, <1>5 DEF States
  <2> QED
    BY Zenon, <2>1, <2>2
<1>9. Tracked(t) = Tracked(s) \cup {e}
  <2>1. CASE cache
    <3>0. /\ t.scans[c] = e /\ e # NoEntry /\ s.scans[c] = NoEntry
          /\ \A d \in Contents \ {c} : t.scans[d] = s.scans[d]
      BY Zenon, <2>1, <1>3, <1>6, <1>8
    <3>1. Cached(t) = Cached(s) \cup {e}
      <4>1. Cached(t) \subseteq Cached(s) \cup {e}
        BY Zenon, <3>0 DEF Cached
      <4>2. Cached(s) \cup {e} \subseteq Cached(t)
        BY <3>0 DEF Cached
      <4> QED
        BY Zenon, <4>1, <4>2
    <3> QED
      BY Zenon, <3>1, <2>1, <1>8 DEF Tracked
  <2>2. CASE ~cache
    <3>1. Cached(t) = Cached(s)
      BY <2>2, <1>8 DEF Cached
    <3> QED
      BY Zenon, <3>1, <2>2, <1>8 DEF Tracked
  <2> QED
    BY Zenon, <2>1, <2>2
<1>10. Sound(t)
  <2>0. t.temp = s.temp \cup {o} /\ Tracked(t) = Tracked(s) \cup {Entry(o)} /\ Unused(s, o.oid)
    BY Zenon, <1>2, <1>3, <1>8, <1>9 DEF more
  <2>1. CASE cache
    <3>1. s.tx = "none" /\ s.scans[c] = NoEntry
      BY Zenon, <2>1, <1>1 DEF States
    <3>2. t.views = s.views /\ t.transient = s.transient /\ t.scans[c] = Entry(o)
          /\ \A d \in Contents \ {c} : t.scans[d] = s.scans[d]
      BY Zenon, <2>1, <1>3, <1>6, <1>8
    <3>3. o \in Objects /\ Mine(o) /\ t \in States /\ t.tx = s.tx /\ t.saved = s.saved /\ t.retired = s.retired
      BY Zenon, <1>3, <1>8
    <3> QED
      BY Zenon, <3>1, <3>2, <3>3, <2>0, AddSound
  <2>2. CASE ~cache
    <3>1. /\ t.scans = s.scans /\ t.views \subseteq s.views \cup {Entry(o)}
          /\ t.transient \subseteq s.transient \cup {Entry(o)}
      BY Zenon, <2>2, <1>3, <1>8
    <3>2. o \in Objects /\ Mine(o) /\ t \in States /\ t.tx = s.tx /\ t.saved = s.saved /\ t.retired = s.retired
      BY Zenon, <1>3, <1>8
    <3> QED
      BY Zenon, <3>1, <3>2, <2>0, AddSound
  <2> QED
    BY Zenon, <2>1, <2>2
<1>11. FreshOids(t) # {}
  <2>1. PICK m \in FreshOids(s) : m # n
    BY Zenon
  <2>2. e.oid = n /\ e.name = n /\ o.oid = n /\ o.name = n
    BY Zenon DEF e, o
  <2>3. m \in FreshOids(t)
    BY <2>1, <2>2, <1>8, <1>9 DEF FreshOids, more
  <2> QED
    BY Zenon, <2>3
<1>12. \A p \in t.temp : p \in s.temp \/ p.by = kind
  BY Zenon, <1>3, <1>8 DEF more
<1>13. s.temp \subseteq t.temp
  BY Zenon, <1>8 DEF more
<1>14. /\ \A d \in Contents : s.scans[d] # NoEntry => t.scans[d] # NoEntry
       /\ cache => t.scans[c] # NoEntry
  BY Zenon, <1>3, <1>6, <1>8
<1> QED
  BY Zenon, <1>8, <1>10, <1>11, <1>12, <1>13, <1>14

Aliased(s, c, kind) ==
    [s EXCEPT !.temp = @ \cup {[name |-> c, oid |-> NextOid(s), by |-> kind]},
              !.views = @ \cup {[name |-> c, oid |-> NextOid(s)]}]

\* The view of a content is created under its alias.
LEMMA AliasLoads ==
    ASSUME NEW s, NEW c \in Contents, NEW kind \in {"run", "tables", "stream"},
           Sound(s), FreshOids(s) # {},
           NEW t, t = Aliased(s, c, kind)
    PROVE  /\ Sound(t)
           /\ t.conn = s.conn /\ t.tx = s.tx /\ t.main = s.main /\ t.applied = s.applied /\ t.scans = s.scans
           /\ s.temp \subseteq t.temp /\ s.views \subseteq t.views
           /\ \A o \in t.temp : o \in s.temp \/ o.by = kind
           /\ \E o \in t.temp : o.name = c /\ Mine(o) /\ Entry(o) \in t.views
<1> DEFINE n == NextOid(s)
           o == [name |-> c, oid |-> n, by |-> kind]
           e == [name |-> c, oid |-> n]
           more == s.temp \cup {o}
           seen == s.views \cup {e}
<1>1. s \in States
  BY Zenon, SoundIn
<1>2. Unused(s, n)
  BY Zenon, NextUnused
<1>3. t = [s EXCEPT !.temp = more, !.views = seen]
  BY Zenon DEF Aliased
<1> HIDE DEF n
<1>4. o \in Objects /\ Mine(o) /\ o.oid = n /\ o.name = c /\ Entry(o) = e /\ e \in Entries /\ o.by = kind
  BY Zenon, <1>2 DEF Objects, Unused, Mine, Entry, Entries
<1> HIDE DEF o, e
<1>5. more \in SUBSET Objects /\ seen \in SUBSET Entries
  BY Zenon, <1>1, <1>4 DEF States
<1> HIDE DEF more, seen
<1>6. /\ t \in States /\ t.conn = s.conn /\ t.tx = s.tx /\ t.main = s.main /\ t.applied = s.applied
      /\ t.saved = s.saved /\ t.retired = s.retired /\ t.views = seen /\ t.temp = more
      /\ t.scans = s.scans /\ t.transient = s.transient
  BY Zenon, <1>1, <1>3, <1>5 DEF States
<1>7. Cached(t) = Cached(s)
  BY ZenonT(30), <1>6 DEF Cached
<1>8. Tracked(t) = Tracked(s) \cup {e}
  BY Zenon, <1>6, <1>7 DEF Tracked, seen
<1>9. Sound(t)
  BY Zenon, <1>2, <1>4, <1>6, <1>8, AddSound DEF more, seen
<1>10. /\ s.temp \subseteq t.temp /\ s.views \subseteq t.views
       /\ \A p \in t.temp : p \in s.temp \/ p.by = kind
       /\ o \in t.temp /\ Entry(o) \in t.views
  BY Zenon, <1>4, <1>6 DEF more, seen
<1> QED
  BY Zenon, <1>4, <1>6, <1>9, <1>10

\* A relation is written.
Written(s, r, b) == [s EXCEPT !.main[r] = b]

\* Nothing else of the session changes, and the new contents are well formed.
LEMMA WrittenFacts ==
    ASSUME NEW s, Sound(s), NEW r \in Relations, NEW b \in Blocks \cup {Other}, NEW t,
           t = Written(s, r, b)
    PROVE  /\ Sound(t) /\ t.conn = s.conn /\ t.tx = s.tx /\ t.temp = s.temp /\ t.views = s.views
           /\ t.scans = s.scans /\ t.applied = s.applied /\ t.main[r] = b
           /\ \A q \in Relations \ {r} : t.main[q] = s.main[q]
<1> DEFINE written == [s.main EXCEPT ![r] = b]
<1>1. s \in States
  BY Zenon, SoundIn
<1>2. written \in Mains /\ written[r] = b /\ \A q \in Relations \ {r} : written[q] = s.main[q]
  BY Zenon, <1>1 DEF States, Mains
<1>3. t = [s EXCEPT !.main = written]
  BY Zenon DEF Written
<1> HIDE DEF written
<1>4. /\ t \in States /\ t.conn = s.conn /\ t.tx = s.tx /\ t.main = written /\ t.applied = s.applied
      /\ t.saved = s.saved /\ t.retired = s.retired /\ t.views = s.views /\ t.temp = s.temp
      /\ t.scans = s.scans /\ t.transient = s.transient
  BY Zenon, <1>1, <1>2, <1>3 DEF States
<1>6. Sound(t)
  BY Zenon, <1>4, SoundSame
<1> QED
  BY Zenon, <1>2, <1>4, <1>6

\* The connection is back, or lost; with it what the worker completed is remembered.
LEMMA ConnFacts ==
    ASSUME NEW s, Sound(s), NEW conn \in {"here", "lost"}, NEW t, t = [s EXCEPT !.conn = conn]
    PROVE  /\ Sound(t) /\ t.conn = conn /\ t.tx = s.tx /\ t.main = s.main /\ t.applied = s.applied
           /\ t.scans = s.scans /\ t.views = s.views /\ t.temp = s.temp
<1>1. s \in States
  BY Zenon, SoundIn
<1>2. /\ t \in States /\ t.conn = conn /\ t.tx = s.tx /\ t.main = s.main /\ t.applied = s.applied
      /\ t.saved = s.saved /\ t.retired = s.retired /\ t.views = s.views /\ t.temp = s.temp
      /\ t.scans = s.scans /\ t.transient = s.transient
  BY Zenon, <1>1 DEF States
<1>4. Sound(t)
  BY Zenon, <1>2, SoundSame
<1> QED
  BY Zenon, <1>2, <1>4

\* The executor between two calls; a lost connection is never used again.
AtRest(s) == Sound(s) /\ s.conn # "away" /\ (s.conn # "lost" => Matches(s) /\ Clean(s))
\* The executor while the caller has the connection: nothing the caller does to
\* the session can make it wrong.
Lent(s) ==
    /\ Sound(s) /\ s.conn = "here" /\ s.retired = {}
    /\ \A c \in Contents : s.scans[c] = NoEntry
    /\ \A r \in Relations : s.applied[r] = NoBlock
    /\ s.tx # "aborted" => NoTables(s.temp)

\* Tidying keeps an executor at rest, and so does getting the connection back.
LEMMA RestTidied ==
    ASSUME NEW s, NEW t, AtRest(s), Tidies(s, t)
    PROVE  AtRest(t)
<1>1. s.conn # "lost" => Matches(t)
  BY Zenon DEF AtRest, Tidies, Shrinks, Matches
<1>2. s.conn # "lost" => Clean(t)
  BY Zenon DEF AtRest, Tidies, Shrinks, Clean, NoTables
<1> QED
  BY Zenon, <1>1, <1>2 DEF AtRest, Tidies, Shrinks

\* A connection that is returned leaves an executor at rest.
LEMMA LentRests == ASSUME NEW s, Lent(s) PROVE AtRest(s)
BY Zenon DEF Lent, AtRest, Matches, Clean

\* connection() forgets all setup and all cached tables.
LEMMA ConnectionTidies ==
    ASSUME NEW s, Sound(s)
    PROVE  /\ Tidies(s, Connection(s))
           /\ \A c \in Contents : Connection(s).scans[c] = NoEntry
           /\ \A r \in Relations : Connection(s).applied[r] = NoBlock
           /\ Cached(Connection(s)) = {}
<1> DEFINE i == InvalidateSetup(s)
           q == ClearQueryScans(i)
           d == ClearRetiredScans(q)
<1>1. s \in States
  BY Zenon, SoundIn
<1>2. Tidies(s, i) /\ Sound(i)
  BY Zenon, InvalidateTidies DEF Tidies
<1>3. /\ \A c \in Contents : i.scans[c] = NoEntry
      /\ \A r \in Relations : i.applied[r] = NoBlock
      /\ Cached(i) = {}
  BY Zenon, <1>1, InvalidateFacts
<1>4. Tidies(i, q) /\ q.applied = i.applied /\ q.scans = i.scans /\ Sound(q)
  BY Zenon, <1>2, QueryScansTidies DEF Tidies
<1>5. Tidies(q, d) /\ d.applied = q.applied /\ d.scans = q.scans
  BY Zenon, <1>4, RetiredScansTidies
<1>6. Cached(d) = {}
  BY Zenon, <1>3, <1>4, <1>5 DEF Cached
<1>7. Tidies(s, d)
  BY Zenon, <1>2, <1>4, <1>5, TidiesTwice
<1>8. Connection(s) = IF InTransaction(i) THEN i ELSE d
  BY Zenon DEF Connection
<1> HIDE DEF i, q, d
<1> QED
  BY Zenon, <1>2, <1>3, <1>4, <1>5, <1>6, <1>7, <1>8

\* Where connection() does not refuse, the connection can be lent: outside a
\* transaction it has dropped everything, inside one there was nothing.
LEMMA ConnectionLends ==
    ASSUME NEW s, AtRest(s), s.conn = "here", ~ConnectionFails(s)
    PROVE  Lent(Connection(s))
<1> DEFINE i == InvalidateSetup(s)
           q == ClearQueryScans(i)
           d == ClearRetiredScans(q)
           k == Connection(s)
<1>0. s \in States /\ Sound(s)
  BY Zenon, SoundIn DEF AtRest
<1>1. /\ Tidies(s, k) /\ Sound(k) /\ Cached(k) = {}
      /\ \A c \in Contents : k.scans[c] = NoEntry
      /\ \A r \in Relations : k.applied[r] = NoBlock
  BY Zenon, <1>0, ConnectionTidies DEF Tidies
<1>2. k = IF InTransaction(i) THEN i ELSE d
  BY Zenon DEF Connection
<1>3. /\ Sound(i) /\ i.conn = s.conn /\ i.active = s.active /\ i.tx = s.tx /\ i.temp = s.temp
      /\ i.views = s.views /\ i.transient = s.transient /\ i.retired = s.retired \cup Cached(s) /\ Cached(i) = {}
  BY Zenon, <1>0, InvalidateTidies, InvalidateFacts DEF Tidies
<1>4. /\ Tidies(i, q) /\ Sound(q) /\ q.scans = i.scans /\ q.retired = i.retired
      /\ Readable(i) => q.views = {} /\ q.transient = {}
  BY Zenon, <1>3, QueryScansTidies DEF Tidies
<1>5. /\ d.views = q.views /\ d.transient = q.transient
      /\ Readable(q) /\ ~InTransaction(q) => d.retired = {}
      /\ ~(Readable(q) /\ ~InTransaction(q)) => d = q
  BY Zenon, <1>4, RetiredScansTidies
<1>6. ~InTransaction(i) => ~ClearFails(i)
  BY Zenon DEF ConnectionFails
<1> HIDE DEF i, q, d, k
<1>7. k.retired = {} /\ (k.tx # "aborted" => NoTables(k.temp))
  <2>1. CASE s.tx = "open"
    <3>1. InTransaction(i) /\ k = i
      BY Zenon, <2>1, <1>2, <1>3 DEF InTransaction
    <3>2. Clean(s) /\ s.retired = {} /\ Cached(s) = {}
      BY Zenon, <2>1, <1>0, SoundParts DEF AtRest
    <3> QED
      BY Zenon, <3>1, <3>2, <2>1, <1>3 DEF Clean
  <2>2. CASE s.tx = "none"
    <3>1. ~InTransaction(i) /\ k = d /\ Readable(i)
      BY Zenon, <2>2, <1>2, <1>3 DEF InTransaction, Readable
    <3>2. q.tx = "none" /\ q.conn = "here"
      BY Zenon, <2>2, <1>3, <1>4 DEF Tidies, Shrinks
    <3>3. Readable(q) /\ ~InTransaction(q)
      BY Zenon, <3>2 DEF Readable, InTransaction
    <3>4. Tracked(k) = {} /\ k.retired = {}
      BY Zenon, <3>1, <3>3, <1>1, <1>4, <1>5 DEF Tracked
    <3> QED
      BY Zenon, <3>4, <1>1, SoundParts DEF NoTables
  <2>3. CASE s.tx = "aborted"
    <3>1. s.retired = {} /\ Cached(s) = {} /\ i.retired = {}
      BY Zenon, <2>3, <1>0, <1>3, SoundParts
    <3>2. ~Readable(i) /\ q.tx = "aborted"
      BY Zenon, <2>3, <1>3, <1>4 DEF Readable, Tidies, Shrinks
    <3>3. ~Readable(q)
      BY Zenon, <3>2 DEF Readable
    <3>4. k.retired = {}
      BY Zenon, <3>1, <3>3, <1>2, <1>4, <1>5
    <3> QED
      BY Zenon, <3>4, <2>3, <1>1 DEF Tidies, Shrinks
  <2> QED
    BY Zenon, <2>1, <2>2, <2>3, <1>0 DEF States
<1> QED
  BY Zenon, <1>1, <1>7 DEF Lent, Tidies, Shrinks, k

\* The caller may change the relations, and drop and create objects of its own.
LEMMA LentChanges ==
    ASSUME NEW s, NEW t, Lent(s), t \in States, t.conn = s.conn,
           t.views = s.views, t.transient = s.transient, t.retired = s.retired,
           t.scans = s.scans, t.applied = s.applied,
           t.tx # "aborted" => NoTables(t.temp), NoTables(t.saved.temp),
           \A o \in t.temp : o \in s.temp \cup s.saved.temp \/ (~Mine(o) /\ Entry(o) \notin Tracked(s)),
           t.tx = "aborted" => t.temp = s.temp,
           t.saved.temp \subseteq s.temp \cup s.saved.temp
    PROVE  Lent(t)
<1>1. Cached(t) = {} /\ Tracked(t) = Tracked(s)
  BY Zenon DEF Cached, Tracked, Lent
<1>2. \A o \in t.temp \cup t.saved.temp : ~Mine(o) => Entry(o) \notin Tracked(t)
  BY Zenon, <1>1 DEF Lent, Sound
<1>3. \A o \in t.temp : o.by = "tables" => Entry(o) \in Tracked(t)
  BY Zenon, <1>1 DEF Lent, Sound, NoTables
<1>4. \A e \in t.views : e \notin t.retired
  BY Zenon DEF Lent
<1>5. Sound(t)
  BY Zenon, <1>1, <1>2, <1>3, <1>4 DEF Sound, Lent
<1> QED
  BY Zenon, <1>5 DEF Lent

\* The flag is set.
LEMMA LentActive ==
    ASSUME NEW s, Lent(s), NEW b \in BOOLEAN
    PROVE  Lent([s EXCEPT !.active = b]) /\ [s EXCEPT !.active = b].tx = s.tx
<1> DEFINE t == [s EXCEPT !.active = b]
<1>1. s \in States
  BY Zenon, SoundIn DEF Lent
<1>2. /\ t \in States /\ t.conn = s.conn /\ t.views = s.views /\ t.transient = s.transient
      /\ t.retired = s.retired /\ t.scans = s.scans /\ t.applied = s.applied /\ t.tx = s.tx
      /\ t.temp = s.temp /\ t.saved = s.saved
  BY Zenon, <1>1 DEF States
<1> HIDE DEF t
<1>3. NoTables(s.saved.temp)
  BY Zenon, SoundParts DEF Lent
<1>4. Lent(t)
  BY Zenon, <1>2, <1>3, LentChanges DEF Lent
<1> QED
  BY Zenon, <1>2, <1>4 DEF t

\* A transaction of the caller begins, commits and is rolled back.
LEMMA LentBegun ==
    ASSUME NEW s, Lent(s), s.tx = "none"
    PROVE  Lent(Begun(s)) /\ Begun(s).tx = "open"
<1> DEFINE t == Begun(s)
<1>1. s \in States
  BY Zenon, SoundIn DEF Lent
<1>2. /\ t \in States /\ t.conn = s.conn /\ t.views = s.views /\ t.transient = s.transient
      /\ t.retired = s.retired /\ t.scans = s.scans /\ t.applied = s.applied /\ t.tx = "open"
      /\ t.temp = s.temp /\ t.saved.temp = s.temp
  BY Zenon, <1>1 DEF States, Begun
<1> HIDE DEF t
<1>3. NoTables(s.temp)
  BY Zenon DEF Lent
<1>4. Lent(t)
  BY Zenon, <1>2, <1>3, LentChanges
<1> QED
  BY Zenon, <1>2, <1>4 DEF t

\* Outside a transaction there is nothing to bring back.
LEMMA SaveFacts == NoSave \in [main : Mains, temp : SUBSET Objects] /\ NoSave.temp = {}
BY Zenon DEF NoSave, Mains

\* A commit in the lent connection.
LEMMA LentCommitted ==
    ASSUME NEW s, Lent(s), s.tx = "open"
    PROVE  Lent(Committed(s)) /\ Committed(s).tx = "none" /\ Committed(s).temp = s.temp
<1> DEFINE t == Committed(s)
<1>1. s \in States
  BY Zenon, SoundIn DEF Lent
<1>2. /\ t \in States /\ t.conn = s.conn /\ t.views = s.views /\ t.transient = s.transient
      /\ t.retired = s.retired /\ t.scans = s.scans /\ t.applied = s.applied /\ t.tx = "none"
      /\ t.temp = s.temp /\ t.saved = NoSave
  BY Zenon, <1>1, SaveFacts DEF States, Committed
<1> HIDE DEF t
<1>3. NoTables(s.temp) /\ NoTables(t.saved.temp)
  BY Zenon, <1>2, SaveFacts DEF Lent, NoTables
<1>4. Lent(t)
  BY Zenon, <1>2, <1>3, SaveFacts, LentChanges
<1> QED
  BY Zenon, <1>2, <1>4 DEF t

\* A rollback in the lent connection brings back what was there before.
LEMMA LentRolledBack ==
    ASSUME NEW s, Lent(s)
    PROVE  Lent(RolledBack(s)) /\ RolledBack(s).tx = "none"
<1> DEFINE t == RolledBack(s)
<1>1. s \in States
  BY Zenon, SoundIn DEF Lent
<1>2. s.saved \in [main : Mains, temp : SUBSET Objects]
  BY Zenon, <1>1 DEF States
<1>3. /\ t \in States /\ t.conn = s.conn /\ t.views = s.views /\ t.transient = s.transient
      /\ t.retired = s.retired /\ t.scans = s.scans /\ t.applied = s.applied /\ t.tx = "none"
      /\ t.temp = s.saved.temp /\ t.saved = NoSave
  BY Zenon, <1>1, <1>2, SaveFacts DEF States, RolledBack
<1> HIDE DEF t
<1>4. NoTables(s.saved.temp) /\ NoTables(t.saved.temp)
  BY Zenon, <1>3, SaveFacts, SoundParts DEF Lent, NoTables
<1>5. Lent(t)
  BY Zenon, <1>3, <1>4, SaveFacts, LentChanges
<1> QED
  BY Zenon, <1>3, <1>5 DEF t

\* The scans of a query that are loaded: their aliases are views of the executor,
\* and outside a transaction their tables are cached.
Covered(s, j) ==
    /\ j.cache => s.tx # "open"
    /\ j.kind # "tables" => Clean(s)
    /\ \A c \in j.tables \ j.loads :
         /\ \E o \in s.temp : o.name = c /\ Mine(o) /\ Entry(o) \in s.views
         /\ j.cache => s.scans[c] # NoEntry
\* The relations hold what the setup of the query wants, or are still to be set up;
\* those done hold it, the others what applied_setup says. A block that fails half
\* done in the caller's transaction breaks both.
Prepared(s, j) == HalfBlocks \/ \A r \in Relations : r \in j.todo \/ j.setup[r] \in {NoBlock, s.main[r]}
DoneSoFar(s, j) ==
    HalfBlocks \/ \A r \in Relations : IF r \in j.done THEN s.main[r] = j.setup[r]
                                                       ELSE s.applied[r] \in {NoBlock, s.main[r]}
\* The phases of a query.
Loading(s, j) ==
    /\ Sound(s) /\ s.conn = "here" /\ Matches(s) /\ Covered(s, j)
    /\ j.todo = {} /\ j.done = {} /\ ~j.ready
Running(s, j) ==
    /\ Sound(s) /\ s.conn = "away" /\ Covered(s, j) /\ Prepared(s, j)
    /\ DoneSoFar(s, j) /\ \A r \in j.todo : j.setup[r] # NoBlock
    /\ j.loads = {} /\ (j.ready => j.todo = {})
Streaming(s, j) ==
    /\ Sound(s) /\ s.conn = "here" /\ Matches(s) /\ Covered(s, j) /\ Prepared(s, j)
    /\ j.loads = {} /\ j.todo = {} /\ j.kind = "stream"

\* Nothing of what a query needs is gone when its objects and views are the same.
LEMMA CoveredSame ==
    ASSUME NEW s, NEW t, NEW j, NEW k, Covered(s, j),
           t.temp = s.temp, t.views = s.views, t.scans = s.scans, t.tx \in {s.tx, "aborted"},
           k.cache = j.cache, k.kind = j.kind, k.tables = j.tables, k.loads = j.loads
    PROVE  Covered(t, k)
BY ZenonT(30) DEF Covered, Clean

\* The parts of a query under way.
LEMMA RunningParts ==
    ASSUME NEW s, NEW j, Running(s, j)
    PROVE  /\ Sound(s) /\ s \in States /\ s.conn = "away" /\ Covered(s, j) /\ Prepared(s, j) /\ DoneSoFar(s, j)
           /\ (\A r \in j.todo : j.setup[r] # NoBlock) /\ j.loads = {} /\ (j.ready => j.todo = {})
           /\ j.kind # "tables" => Clean(s)
BY Zenon, SoundIn DEF Running, Covered

AtWork == pc \in {"setup", "query", "graceSetup", "graceQuery"}
\* The inductive invariant: what holds at each place of the call.
EInv ==
    /\ job \in Jobs
    /\ \/ pc = "idle" /\ AtRest(x) /\ job = NoJob /\ worker = "none"
       \/ pc \in {"borrowed", "batch"} /\ Lent(x) /\ job = NoJob /\ worker = "none"
       \/ pc = "load" /\ Loading(x, job) /\ worker = "none"
       \/ AtWork /\ Running(x, job) /\ worker \in {"setup", "query", "sent", "dead"}
          /\ (worker = "query" \/ pc \in {"query", "graceQuery"} => job.ready)
       \/ pc = "stream" /\ Streaming(x, job) /\ worker = "none"

\* A step keeps the objects of the caller.
Keeps(s, t) == \A o \in s.temp : ~Mine(o) => o \in t.temp
CallersKept ==
    pc \notin {"borrowed", "batch"} /\ x'.tx = x.tx /\ x'.conn # "lost" => Keeps(x, x')

\* The first use of the executor opens its connection.
LEMMA HereFacts ==
    ASSUME EInv, Idle
    PROVE  /\ AtRest(Here) /\ Here.conn = "here" /\ Here.temp = x.temp /\ Here.tx = x.tx
           /\ job \in Jobs /\ job = NoJob /\ worker = "none" /\ pc = "idle"
<1>1. /\ AtRest(x) /\ job = NoJob /\ worker = "none" /\ pc = "idle" /\ Here.conn = "here" /\ job \in Jobs
  BY Zenon DEF EInv, Idle, Here, AtWork
<1>2. CASE x.conn = "none"
  <2>1. x \in States /\ Sound(x) /\ Matches(x) /\ Clean(x)
    BY Zenon, <1>1, <1>2, SoundIn DEF AtRest
  <2>2. Here = [x EXCEPT !.conn = "here"]
    BY Zenon, <1>2 DEF Here, EnsureConnection
  <2> DEFINE h == Here
  <2> HIDE DEF h
  <2>3. /\ h \in States /\ h.conn = "here" /\ h.active = x.active /\ h.applied = x.applied
        /\ h.scans = x.scans /\ h.views = x.views /\ h.transient = x.transient /\ h.retired = x.retired
        /\ h.tx = x.tx /\ h.main = x.main /\ h.temp = x.temp /\ h.saved = x.saved
    BY Zenon, <2>1, <2>2 DEF States, h
  <2>5. Sound(h)
    BY Zenon, <2>1, <2>3, SoundSame
  <2>6. Matches(h) /\ Clean(h)
    BY Zenon, <2>1, <2>3 DEF Matches, Clean
  <2> QED
    BY Zenon, <1>1, <2>3, <2>5, <2>6 DEF AtRest, h
<1>3. CASE x.conn # "none"
  BY Zenon, <1>1, <1>3 DEF Here, EnsureConnection
<1> QED
  BY Zenon, <1>2, <1>3

\* The call has returned.
LEMMA RestStep ==
    ASSUME job' \in Jobs, job' = NoJob, worker' = "none", pc' = "idle", AtRest(x')
    PROVE  EInv'
BY Zenon DEF EInv

\* The calls of the caller: transactions.
LEMMA RefusalStep ==
    ASSUME EInv, Idle, Refuses
    PROVE  AtRest(x') /\ Keeps(x, x')
<1>1. AtRest(Here) /\ Here.temp = x.temp
  BY Zenon, HereFacts
<1>2. Tidies(Here, x')
  BY Zenon, <1>1, InvalidateTidies DEF Refuses, AtRest
<1>3. AtRest(x')
  BY Zenon, <1>1, <1>2, RestTidied
<1>4. Keeps(x, x')
  BY Zenon, <1>1, <1>2 DEF Tidies, Shrinks, Keeps
<1> QED
  BY Zenon, <1>3, <1>4

\* begin_transaction.
LEMMA BeginStep == ASSUME EInv, Begin PROVE EInv' /\ CallersKept
<1>1. Idle /\ ~InTransaction(Here) /\ UNCHANGED <<pc, job, worker>>
  BY Zenon DEF Begin
<1>2. /\ AtRest(Here) /\ Here.conn = "here" /\ Here.temp = x.temp /\ Here.tx = x.tx
      /\ job \in Jobs /\ job = NoJob /\ worker = "none" /\ pc = "idle"
  BY Zenon, <1>1, HereFacts
<1>3. CASE Refuses
  BY Zenon, <1>1, <1>2, <1>3, RefusalStep, RestStep DEF CallersKept
<1>4. CASE ~ConnectionFails(Here) /\ LET c == Connection(Here)
             IN  x' = IF c.tx = "none" THEN [Begun(c) EXCEPT !.active = TRUE] ELSE c
  <2> DEFINE k == Connection(Here)
  <2>1. Lent(k) /\ Tidies(Here, k)
    BY Zenon, <1>2, <1>4, ConnectionLends, ConnectionTidies DEF AtRest
  <2>2. x' = IF k.tx = "none" THEN [Begun(k) EXCEPT !.active = TRUE] ELSE k
    BY Zenon, <1>4
  <2> HIDE DEF k
  <2>3. k.tx = "none" => Lent(x') /\ x'.tx = "open"
    BY Zenon, <2>1, <2>2, LentBegun, LentActive
  <2>4. k.tx # "none" => x' = k
    BY Zenon, <2>2
  <2>5. AtRest(x')
    BY Zenon, <2>1, <2>3, <2>4, LentRests
  <2>6. CallersKept
    BY Zenon, <1>2, <2>1, <2>3, <2>4 DEF CallersKept, Tidies, Shrinks, Keeps
  <2> QED
    BY Zenon, <1>1, <1>2, <2>5, <2>6, RestStep
<1> QED
  BY Zenon, <1>3, <1>4 DEF Begin

\* commit_transaction.
LEMMA CommitStep == ASSUME EInv, Commit PROVE EInv' /\ CallersKept
<1>1. Idle /\ InTransaction(Here) /\ UNCHANGED <<pc, job, worker>>
  BY Zenon DEF Commit
<1>2. /\ AtRest(Here) /\ Here.conn = "here" /\ Here.temp = x.temp /\ Here.tx = x.tx
      /\ job \in Jobs /\ job = NoJob /\ worker = "none" /\ pc = "idle" /\ Here \in States
  BY Zenon, <1>1, HereFacts, SoundIn DEF AtRest
<1>3. ~ConnectionFails(Here)
  BY Zenon, <1>1, <1>2, InvalidateFacts DEF ConnectionFails, InTransaction
<1> DEFINE k == Connection(Here)
<1>4. Lent(k) /\ Tidies(Here, k) /\ k.tx = x.tx
  BY Zenon, <1>2, <1>3, ConnectionLends, ConnectionTidies DEF AtRest, Tidies, Shrinks
<1>5. \/ k.tx = "open"
         /\ x' = ClearRetiredScans(ClearQueryScans([Committed(k) EXCEPT !.active = FALSE]))
      \/ k.tx = "open" /\ x' = RolledBack(k)
      \/ k.tx = "aborted" /\ x' = k
  BY Zenon DEF Commit
<1> HIDE DEF k
<1>6. AtRest(x') /\ CallersKept
  <2>1. CASE k.tx = "open" /\ x' = ClearRetiredScans(ClearQueryScans([Committed(k) EXCEPT !.active = FALSE]))
    <3> DEFINE m == [Committed(k) EXCEPT !.active = FALSE]
    <3>1. AtRest(m) /\ m.tx = "none"
      BY Zenon, <1>4, <2>1, LentCommitted, LentActive, LentRests
    <3> HIDE DEF m
    <3>2. Tidies(m, ClearQueryScans(m)) /\ Sound(ClearQueryScans(m))
      BY Zenon, <3>1, QueryScansTidies DEF AtRest, Tidies
    <3>3. Tidies(m, x')
      BY Zenon, <2>1, <3>2, RetiredScansTidies, TidiesTwice DEF m
    <3>4. x'.tx = "none"
      BY Zenon, <3>1, <3>3 DEF Tidies, Shrinks
    <3> QED
      BY Zenon, <3>1, <3>3, <3>4, <1>4, <2>1, RestTidied DEF CallersKept
  <2>2. CASE k.tx = "open" /\ x' = RolledBack(k)
    BY Zenon, <2>2, <1>4, LentRolledBack, LentRests DEF CallersKept
  <2>3. CASE k.tx = "aborted" /\ x' = k
    BY Zenon, <2>3, <1>2, <1>4, LentRests DEF CallersKept, Tidies, Shrinks, Keeps
  <2> QED
    BY Zenon, <1>5, <2>1, <2>2, <2>3
<1> QED
  BY Zenon, <1>1, <1>2, <1>6, RestStep

\* rollback_transaction.
LEMMA RollbackStep == ASSUME EInv, Rollback PROVE EInv' /\ CallersKept
<1>1. Idle /\ InTransaction(Here) /\ UNCHANGED <<pc, job, worker>>
  BY Zenon DEF Rollback
<1>2. /\ AtRest(Here) /\ Here.conn = "here" /\ Here.temp = x.temp /\ Here.tx = x.tx
      /\ job \in Jobs /\ job = NoJob /\ worker = "none" /\ pc = "idle" /\ Here \in States
  BY Zenon, <1>1, HereFacts, SoundIn DEF AtRest
<1>3. ~ConnectionFails(Here)
  BY Zenon, <1>1, <1>2, InvalidateFacts DEF ConnectionFails, InTransaction
<1> DEFINE k == Connection(Here)
           m == [RolledBack(k) EXCEPT !.active = FALSE]
<1>4. Lent(k)
  BY Zenon, <1>2, <1>3, ConnectionLends
<1>5. x' = ClearRetiredScans(ClearQueryScans(InvalidateSetup(m)))
  BY Zenon DEF Rollback
<1> HIDE DEF k
<1>6. AtRest(m) /\ m.tx = "none"
  BY Zenon, <1>4, LentRolledBack, LentActive, LentRests
<1> HIDE DEF m
<1>7. Tidies(m, InvalidateSetup(m)) /\ Sound(InvalidateSetup(m))
  BY Zenon, <1>6, InvalidateTidies DEF AtRest, Tidies
<1>8. Tidies(m, ClearQueryScans(InvalidateSetup(m))) /\ Sound(ClearQueryScans(InvalidateSetup(m)))
  BY Zenon, <1>7, QueryScansTidies, TidiesTwice DEF Tidies
<1>9. Tidies(m, x')
  BY Zenon, <1>5, <1>8, RetiredScansTidies, TidiesTwice
<1>10. AtRest(x') /\ x'.tx = "none"
  BY Zenon, <1>6, <1>9, RestTidied DEF Tidies, Shrinks
<1>11. x.tx # "none"
  BY Zenon, <1>1, <1>2 DEF InTransaction
<1> QED
  BY Zenon, <1>1, <1>2, <1>10, <1>11, RestStep DEF CallersKept

\* The connection is lent, used by the caller, and returned.
LEMMA BorrowStep == ASSUME EInv, NEW kind \in {"borrowed", "batch"}, Borrow(kind) PROVE EInv' /\ CallersKept
<1>1. Idle /\ UNCHANGED <<job, worker>>
  BY Zenon DEF Borrow
<1>2. /\ AtRest(Here) /\ Here.conn = "here" /\ Here.temp = x.temp /\ Here.tx = x.tx
      /\ job \in Jobs /\ job = NoJob /\ worker = "none" /\ pc = "idle"
  BY Zenon, <1>1, HereFacts
<1>3. CASE Refuses /\ UNCHANGED pc
  BY Zenon, <1>1, <1>2, <1>3, RefusalStep, RestStep DEF CallersKept
<1>4. CASE ~ConnectionFails(Here) /\ x' = Connection(Here) /\ pc' = kind
  <2>1. Lent(x') /\ Tidies(Here, x')
    BY Zenon, <1>2, <1>4, ConnectionLends, ConnectionTidies DEF AtRest
  <2>2. CallersKept
    BY Zenon, <1>2, <2>1 DEF CallersKept, Tidies, Shrinks, Keeps
  <2> QED
    BY Zenon, <1>1, <1>2, <1>4, <2>1, <2>2 DEF EInv
<1> QED
  BY Zenon, <1>3, <1>4 DEF Borrow

\* The temporary objects of the session under a statement of the caller.
LEMMA LentTemp ==
    ASSUME NEW s, Lent(s), s.tx # "aborted", NEW objects \in SUBSET Objects, NoTables(objects),
           \A o \in objects : o \in s.temp \/ (~Mine(o) /\ Entry(o) \notin Tracked(s))
    PROVE  Lent([s EXCEPT !.temp = objects])
<1> DEFINE t == [s EXCEPT !.temp = objects]
<1>1. s \in States /\ NoTables(s.saved.temp)
  BY Zenon, SoundParts DEF Lent
<1>2. /\ t \in States /\ t.conn = s.conn /\ t.views = s.views /\ t.transient = s.transient
      /\ t.retired = s.retired /\ t.scans = s.scans /\ t.applied = s.applied /\ t.tx = s.tx
      /\ t.temp = objects /\ t.saved = s.saved
  BY Zenon, <1>1 DEF States
<1> HIDE DEF t
<1>3. Lent(t)
  BY Zenon, <1>1, <1>2, LentChanges
<1> QED
  BY Zenon, <1>3 DEF t

\* A statement of the caller.
LEMMA CallerSqlStep == ASSUME EInv, CallerSql PROVE EInv' /\ CallersKept
<1>1. /\ pc \in {"borrowed", "batch"} /\ UNCHANGED <<pc, job, worker>>
  BY Zenon DEF CallerSql
<1>2. Lent(x) /\ job \in Jobs /\ job = NoJob /\ worker = "none"
  BY Zenon, <1>1 DEF EInv, AtWork
<1>3. x \in States /\ NoTables(x.saved.temp) /\ Sound(x)
  BY Zenon, <1>2, SoundParts DEF Lent
<1>4. Lent(x')
  <2>1. CASE x.tx = "none" /\ x' = Begun(x)
    BY Zenon, <2>1, <1>2, LentBegun
  <2>2. CASE x.tx = "open" /\ x' = Committed(x)
    BY Zenon, <2>2, <1>2, LentCommitted
  <2>3. CASE x.tx # "none" /\ x' = RolledBack(x)
    BY Zenon, <2>3, <1>2, LentRolledBack
  <2>4. CASE x.tx = "open" /\ x' = [x EXCEPT !.tx = "aborted"]
    <3>1. /\ x' \in States /\ x'.conn = x.conn /\ x'.views = x.views /\ x'.transient = x.transient
          /\ x'.retired = x.retired /\ x'.scans = x.scans /\ x'.applied = x.applied /\ x'.tx = "aborted"
          /\ x'.temp = x.temp /\ x'.saved = x.saved
      BY Zenon, <2>4, <1>3 DEF States
    <3> QED
      BY Zenon, <3>1, <1>2, <1>3, LentChanges
  <2>5. ASSUME x.tx # "aborted", NEW r \in Relations, x' = [x EXCEPT !.main[r] = Other]
        PROVE  Lent(x')
    <3> DEFINE written == [x.main EXCEPT ![r] = Other]
    <3>1. written \in Mains
      BY Zenon, <1>3 DEF States, Mains
    <3>3. x' = [x EXCEPT !.main = written]
      BY Zenon, <2>5
    <3> HIDE DEF written
    <3>2. /\ x' \in States /\ x'.conn = x.conn /\ x'.views = x.views /\ x'.transient = x.transient
          /\ x'.retired = x.retired /\ x'.scans = x.scans /\ x'.applied = x.applied /\ x'.tx = x.tx
          /\ x'.temp = x.temp /\ x'.saved = x.saved
      BY Zenon, <3>1, <3>3, <1>3 DEF States
    <3>4. NoTables(x.temp)
      BY Zenon, <2>5, <1>2 DEF Lent
    <3> QED
      BY Zenon, <3>2, <3>4, <1>2, <1>3, LentChanges
  <2>6. ASSUME x.tx # "aborted", FreshOids(x) # {},
               NEW n \in Contents \cup {o.name : o \in x.temp},
               x' = [x EXCEPT !.temp = {o \in @ : o.name # n}
                                        \cup {[name |-> n, oid |-> NextOid(x), by |-> "caller"]}]
        PROVE  Lent(x')
    <3> DEFINE new == [name |-> n, oid |-> NextOid(x), by |-> "caller"]
               objects == {o \in x.temp : o.name # n} \cup {new}
    <3>1. NextOid(x) \in Nat /\ \A e \in Tracked(x) : e.oid # NextOid(x)
      BY Zenon, <2>6, <1>3, FreshFacts
    <3>2. n \in Contents \cup Nat
      BY <2>6, <1>3 DEF States, Objects
    <3>3. new \in Objects /\ ~Mine(new) /\ new.by # "tables" /\ Entry(new) \notin Tracked(x)
      BY Zenon, <3>1, <3>2 DEF Objects, Mine, Entry
    <3> HIDE DEF new
    <3>4. objects \in SUBSET Objects
      BY Zenon, <3>3, <1>3 DEF States
    <3>5. NoTables(objects)
      BY Zenon, <3>3, <2>6, <1>2 DEF NoTables, Lent
    <3>6. x' = [x EXCEPT !.temp = objects]
      BY Zenon, <2>6 DEF new
    <3>7. \A o \in objects : o \in x.temp \/ (~Mine(o) /\ Entry(o) \notin Tracked(x))
      BY Zenon, <3>3
    <3> HIDE DEF objects
    <3> QED
      BY <3>4, <3>5, <3>6, <3>7, <2>6, <1>2, LentTemp
  <2>7. ASSUME x.tx # "aborted", NEW o \in x.temp, x' = [x EXCEPT !.temp = @ \ {o}]
        PROVE  Lent(x')
    <3>1. x.temp \ {o} \in SUBSET Objects /\ NoTables(x.temp \ {o})
      BY Zenon, <2>7, <1>2, <1>3 DEF NoTables, Lent, States
    <3> QED
      BY Zenon, <3>1, <2>7, <1>2, LentTemp
  <2> QED
    BY Zenon, <2>1, <2>2, <2>3, <2>4, <2>5, <2>6, <2>7 DEF CallerSql
<1> QED
  BY Zenon, <1>1, <1>2, <1>4 DEF EInv, CallersKept

\* The borrow ends.
LEMMA EndBorrowStep == ASSUME EInv, EndBorrow PROVE EInv' /\ CallersKept
<1>1. /\ pc \in {"borrowed", "batch"} /\ pc' = "idle" /\ UNCHANGED <<job, worker>>
  BY Zenon DEF EndBorrow
<1>2. Lent(x) /\ job \in Jobs /\ job = NoJob /\ worker = "none"
  BY Zenon, <1>1 DEF EInv, AtWork
<1>3. Lent(x')
  <2>1. CASE x' = x
    BY Zenon, <2>1, <1>2
  <2>2. CASE x' = [x EXCEPT !.active = (x.tx = "open")]
    BY Zenon, <2>2, <1>2, LentActive
  <2> QED
    BY Zenon, <2>1, <2>2 DEF EndBorrow
<1> QED
  BY Zenon, <1>1, <1>2, <1>3, LentRests, RestStep DEF CallersKept

\* Nothing happens.
LEMMA IdleAgain == ASSUME EInv, UNCHANGED vars PROVE EInv' /\ CallersKept
BY Zenon DEF EInv, vars, CallersKept, Keeps, AtWork

\* The absence of a query has the type of a query.
LEMMA NoJobFacts == NoJob \in Jobs
BY Zenon DEF NoJob, Jobs, Codes

\* A query starts by clearing what earlier ones left.
LEMMA StartStep ==
    ASSUME EInv, NEW kind \in Kinds, NEW setup \in [Relations -> Blocks \cup {NoBlock}],
           NEW tables \in SUBSET Contents, Start(kind, setup, tables)
    PROVE  EInv' /\ CallersKept
<1>1. /\ Idle /\ worker' = worker
      /\ x' = IF kind = "run" THEN Here
              ELSE IF kind = "tables" THEN ClearRetiredScans(ClearQueryScans(Here)) ELSE ClearQueryScans(Here)
  BY Zenon DEF Start
<1>2. /\ AtRest(Here) /\ Here.conn = "here" /\ Here.temp = x.temp /\ Here.tx = x.tx
      /\ job \in Jobs /\ job = NoJob /\ worker = "none" /\ pc = "idle" /\ Sound(Here)
  BY Zenon, <1>1, HereFacts DEF AtRest
<1>3. Tidies(Here, x')
  <2>1. Tidies(Here, Here)
    BY Zenon, <1>2, SelfTidies
  <2>2. Tidies(Here, ClearQueryScans(Here)) /\ Sound(ClearQueryScans(Here))
    BY Zenon, <1>2, QueryScansTidies DEF Tidies
  <2>3. Tidies(Here, ClearRetiredScans(ClearQueryScans(Here)))
    BY Zenon, <2>2, RetiredScansTidies, TidiesTwice
  <2> QED
    BY Zenon, <2>1, <2>2, <2>3, <1>1
<1>4. AtRest(x') /\ x'.conn = "here" /\ Sound(x') /\ Matches(x') /\ Clean(x')
  BY Zenon, <1>2, <1>3, RestTidied DEF Tidies, Shrinks, AtRest
<1>5. CallersKept
  BY Zenon, <1>2, <1>3 DEF CallersKept, Tidies, Shrinks, Keeps
<1>6. CASE UNCHANGED <<pc, job>>
  BY Zenon, <1>1, <1>2, <1>4, <1>5, <1>6, RestStep
<1>7. CASE /\ pc' = "load"
           /\ job' = [NoJob EXCEPT !.kind = kind, !.setup = setup, !.tables = tables,
                                    !.loads = tables, !.cache = ~InTransaction(x')]
  <2>1. InTransaction(x') \in BOOLEAN /\ (~InTransaction(x') => x'.tx # "open")
    <3>1. x'.active \in BOOLEAN
      BY <1>4, SoundIn DEF States
    <3> QED
      BY Zenon, <3>1, <1>4 DEF InTransaction
  <2> DEFINE cache == ~InTransaction(x')
  <2>2. cache \in BOOLEAN
    BY Zenon
  <2> HIDE DEF cache
  <2>3. job' \in Jobs /\ job'.loads = tables /\ job'.tables = tables /\ job'.cache = cache
        /\ job'.todo = {} /\ job'.done = {} /\ ~job'.ready
    BY Zenon, <1>7, <2>2, KindsAssumption DEF NoJob, Jobs, Codes, cache
  <2>4. Covered(x', job')
    BY Zenon, <2>1, <2>3, <1>4 DEF Covered, cache
  <2>5. Loading(x', job')
    BY Zenon, <2>3, <2>4, <1>4 DEF Loading
  <2> QED
    BY Zenon, <2>3, <2>5, <1>1, <1>2, <1>5, <1>7 DEF EInv
<1> QED
  BY Zenon, <1>6, <1>7 DEF Start

\* A failed statement may abort the transaction, and changes nothing else.
LEMMA FailureFacts ==
    ASSUME NEW s, Sound(s), NEW f \in AfterFailure(s)
    PROVE  /\ Tidies(s, f) \/ (Sound(f) /\ f.tx = "aborted" /\ s.tx = "open")
           /\ f.conn = s.conn /\ f.main = s.main /\ f.applied = s.applied /\ f.scans = s.scans
           /\ f.views = s.views /\ f.temp = s.temp
<1>1. CASE f = s
  BY Zenon, <1>1, SelfTidies
<1>2. CASE f # s
  <2>1. s.tx = "open" /\ f = [s EXCEPT !.tx = "aborted"] /\ s \in States
    BY Zenon, <1>2, SoundIn DEF AfterFailure
  <2>2. /\ f \in States /\ f.conn = s.conn /\ f.active = s.active /\ f.applied = s.applied
        /\ f.scans = s.scans /\ f.views = s.views /\ f.transient = s.transient /\ f.retired = s.retired
        /\ f.tx = "aborted" /\ f.main = s.main /\ f.temp = s.temp /\ f.saved = s.saved
    BY Zenon, <2>1 DEF States
  <2>4. Sound(f)
    BY Zenon, <2>1, <2>2, SoundSame
  <2> QED
    BY Zenon, <2>1, <2>2, <2>4
<1> QED
  BY Zenon, <1>1, <1>2

\* A failure leaves a clean session clean.
LEMMA CleanFailure ==
    ASSUME NEW s, Sound(s), NEW f \in AfterFailure(s)
    PROVE  (Matches(s) => Matches(f)) /\ (Clean(s) => Clean(f)) /\ Keeps(s, f)
<1>1. /\ f.tx = s.tx \/ f.tx = "aborted"
      /\ f.main = s.main /\ f.applied = s.applied /\ f.temp = s.temp
  BY Zenon, FailureFacts DEF Tidies, Shrinks
<1> QED
  BY Zenon, <1>1 DEF Matches, Clean, Keeps

\* In an open transaction nothing is cached or retired, so clear_query_scans drops
\* every object of run_with_tables.
LEMMA QueryScansClean ==
    ASSUME NEW s, Sound(s), s.conn = "here"
    PROVE  Clean(ClearQueryScans(s))
<1> DEFINE q == ClearQueryScans(s)
<1>1. Sound(q) /\ q.tx = s.tx
  BY Zenon, QueryScansTidies DEF Tidies, Shrinks
<1>2. CASE s.tx = "open"
  <2>1. Readable(s) /\ Cached(s) = {} /\ s.retired = {}
    BY Zenon, <1>2, SoundParts DEF Readable
  <2>2. Tracked(q) = {}
    BY Zenon, <2>1, QueryScansTidies
  <2> HIDE DEF q
  <2>3. NoTables(q.temp)
    BY Zenon, <2>2, <1>1, SoundParts DEF NoTables
  <2> QED
    BY Zenon, <2>3 DEF Clean, q
<1>3. CASE s.tx # "open"
  BY Zenon, <1>1, <1>3 DEF Clean
<1> QED
  BY Zenon, <1>2, <1>3

\* The end of a call on a connection that is there.
LEMMA ReturnedRests ==
    ASSUME NEW s, Sound(s), s.conn # "away", s.conn # "lost" => Matches(s),
           s.conn # "lost" /\ job.kind # "tables" => Clean(s), s.conn # "none",
           NEW t \in Returned(s)
    PROVE  AtRest(t) /\ Tidies(s, t)
<1> DEFINE q == ClearQueryScans(s)
<1>1. Tidies(s, q) /\ Sound(q)
  BY Zenon, QueryScansTidies DEF Tidies
<1>2. Tidies(s, t) /\ (job.kind = "tables" => Tidies(q, t))
  <2>1. CASE job.kind # "tables"
    BY Zenon, <2>1, SelfTidies DEF Returned
  <2>2. CASE job.kind = "tables" /\ job.cache
    <3>1. t \in Evicted(q, job.tables)
      BY Zenon, <2>2 DEF Returned
    <3> QED
      BY Zenon, <3>1, <1>1, EvictedTidies, TidiesTwice
  <2>3. CASE job.kind = "tables" /\ ~job.cache
    BY Zenon, <2>3, <1>1, SelfTidies DEF Returned
  <2> QED
    BY Zenon, <2>1, <2>2, <2>3
<1>3. t.conn # "lost" => Clean(t)
  <2>1. CASE s.conn = "lost"
    BY Zenon, <2>1, <1>2 DEF Tidies, Shrinks
  <2>2. CASE s.conn # "lost" /\ job.kind # "tables"
    BY Zenon, <2>2, <1>2 DEF Tidies, Shrinks, Clean, NoTables
  <2>3. CASE s.conn # "lost" /\ job.kind = "tables"
    <3>1. s.conn = "here"
      BY Zenon, <2>3, SoundParts
    <3>2. Clean(q)
      BY Zenon, <3>1, QueryScansClean
    <3> HIDE DEF q
    <3> QED
      BY Zenon, <3>2, <2>3, <1>2 DEF Tidies, Shrinks, Clean, NoTables
  <2> QED
    BY Zenon, <2>1, <2>2, <2>3
<1>4. t.conn # "lost" => Matches(t)
  BY Zenon, <1>2 DEF Tidies, Shrinks, Matches
<1> QED
  BY Zenon, <1>2, <1>3, <1>4 DEF AtRest, Tidies, Shrinks

\* ensure_scan_table: one more content is covered.
LEMMA LoadTableStep == ASSUME EInv, NEW c \in Contents, LoadTable(c) PROVE EInv' /\ CallersKept
<1> DEFINE hit == job.cache /\ x.scans[c] # NoEntry
           loaded == IF hit THEN x ELSE Loaded(x, c, job.kind, job.cache)
<1>1. /\ pc = "load" /\ c \in job.loads /\ x.tx # "aborted" /\ UNCHANGED <<pc, worker>>
      /\ \E m, n \in FreshOids(x) : m # n
      /\ job' = [job EXCEPT !.loads = @ \ {c}]
  BY Zenon DEF LoadTable
<1>2. x' = Aliased(loaded, c, job.kind)
  BY Zenon DEF LoadTable, Loaded, LoadScanTable, Aliased
<1>3. Loading(x, job) /\ worker = "none" /\ job \in Jobs
  BY Zenon, <1>1 DEF EInv, AtWork
<1>4. /\ job.kind \in {"run", "tables", "stream"} /\ job.cache \in BOOLEAN
      /\ Sound(x) /\ (job.cache => x.tx # "open")
  BY Zenon, <1>3 DEF Loading, Covered, Jobs
<1>5. /\ Sound(loaded) /\ FreshOids(loaded) # {}
      /\ loaded.conn = x.conn /\ loaded.tx = x.tx /\ loaded.main = x.main
      /\ loaded.applied = x.applied /\ loaded.views = x.views
      /\ x.temp \subseteq loaded.temp /\ \A o \in loaded.temp : o \in x.temp \/ o.by = job.kind
      /\ \A d \in Contents : x.scans[d] # NoEntry => loaded.scans[d] # NoEntry
      /\ job.cache => loaded.scans[c] # NoEntry
  <2>1. CASE hit
    BY Zenon, <2>1, <1>1, <1>4
  <2>2. CASE ~hit
    <3>1. job.cache => x.tx # "open" /\ x.scans[c] = NoEntry
      BY Zenon, <2>2, <1>4
    <3>2. loaded = Loaded(x, c, job.kind, job.cache)
      BY Zenon, <2>2
    <3> HIDE DEF loaded
    <3> QED
      BY <3>1, <3>2, <1>1, <1>4, TableLoads
  <2> QED
    BY Zenon, <2>1, <2>2
<1> HIDE DEF loaded
<1>6. /\ Sound(x')
      /\ x'.conn = loaded.conn /\ x'.tx = loaded.tx /\ x'.main = loaded.main
      /\ x'.applied = loaded.applied /\ x'.scans = loaded.scans
      /\ loaded.temp \subseteq x'.temp /\ loaded.views \subseteq x'.views
      /\ \A o \in x'.temp : o \in loaded.temp \/ o.by = job.kind
      /\ \E o \in x'.temp : o.name = c /\ Mine(o) /\ Entry(o) \in x'.views
  BY SMTT(30), <1>2, <1>4, <1>5, AliasLoads
<1>7. /\ job' \in Jobs /\ job'.kind = job.kind /\ job'.tables = job.tables /\ job'.loads = job.loads \ {c}
      /\ job'.cache = job.cache /\ job'.todo = job.todo /\ job'.done = job.done /\ job'.ready = job.ready
  BY Zenon, <1>1, <1>3 DEF Jobs
<1>8. Matches(x')
  BY Zenon, <1>3, <1>5, <1>6 DEF Loading, Matches
<1>9. Covered(x', job')
  <2>1. job'.cache => x'.tx # "open"
    BY Zenon, <1>4, <1>5, <1>6, <1>7
  <2>2. job'.kind # "tables" => Clean(x')
    <3>1. \A o \in x'.temp : o \in x.temp \/ o.by = job.kind
      BY Zenon, <1>5, <1>6
    <3>2. job.kind # "tables" => Clean(x)
      BY Zenon, <1>3 DEF Loading, Covered
    <3> QED
      BY Zenon, <3>1, <3>2, <1>5, <1>6, <1>7 DEF Clean, NoTables
  <2>3. ASSUME NEW d \in job'.tables \ job'.loads
        PROVE  /\ \E o \in x'.temp : o.name = d /\ Mine(o) /\ Entry(o) \in x'.views
               /\ job'.cache => x'.scans[d] # NoEntry
    <3>1. CASE d = c
      BY Zenon, <3>1, <1>5, <1>6, <1>7
    <3>2. CASE d # c
      <4>1. d \in job.tables \ job.loads /\ d \in Contents
        BY Zenon, <2>3, <3>2, <1>3, <1>7 DEF Jobs
      <4>2. /\ \E o \in x.temp : o.name = d /\ Mine(o) /\ Entry(o) \in x.views
            /\ job.cache => x.scans[d] # NoEntry
        BY Zenon, <4>1, <1>3 DEF Loading, Covered
      <4> QED
        BY Zenon, <4>1, <4>2, <1>5, <1>6, <1>7
    <3> QED
      BY Zenon, <3>1, <3>2
  <2> QED
    BY Zenon, <2>1, <2>2, <2>3 DEF Covered
<1>10. Loading(x', job')
  BY Zenon, <1>3, <1>5, <1>6, <1>7, <1>8, <1>9 DEF Loading
<1>11. CallersKept
  BY Zenon, <1>5, <1>6 DEF CallersKept, Keeps
<1> QED
  BY Zenon, <1>1, <1>3, <1>7, <1>10, <1>11 DEF EInv

\* A failed load leaves an executor at rest.
LEMMA LoadFailsStep == ASSUME EInv, LoadFails PROVE EInv' /\ CallersKept
<1>1. pc = "load" /\ pc' = "idle" /\ job' = NoJob /\ worker' = worker
  BY Zenon DEF LoadFails
<1>2. Loading(x, job) /\ worker = "none" /\ job \in Jobs
  BY Zenon, <1>1 DEF EInv, AtWork
<1>3. Sound(x) /\ x.conn = "here" /\ Matches(x) /\ (job.kind # "tables" => Clean(x))
  BY Zenon, <1>2 DEF Loading, Covered
<1>4. PICK f \in AfterFailure(x) :
         x' \in IF job.kind = "stream" THEN {f}
                ELSE IF job.cache THEN Evicted(ClearQueryScans(f), {})
                ELSE {ClearQueryScans(f)}
  BY Zenon DEF LoadFails
<1>5. Sound(f) /\ f.conn = "here" /\ Matches(f) /\ (job.kind # "tables" => Clean(f)) /\ Keeps(x, f)
  BY Zenon, <1>3, FailureFacts, CleanFailure DEF Tidies
<1> DEFINE q == ClearQueryScans(f)
<1>6. Tidies(f, q) /\ Sound(q) /\ Clean(q)
  BY Zenon, <1>5, QueryScansTidies, QueryScansClean DEF Tidies
<1>7. q.conn = "here" /\ Matches(q) /\ AtRest(q)
  BY Zenon, <1>5, <1>6 DEF Tidies, Shrinks, Matches, AtRest
<1>8. AtRest(x') /\ Keeps(f, x')
  <2>1. CASE x' = f /\ job.kind = "stream"
    BY Zenon, <2>1, <1>5 DEF AtRest, Keeps
  <2>2. CASE x' \in Evicted(q, {})
    <3>1. Tidies(q, x')
      BY Zenon, <2>2, <1>6, EvictedTidies
    <3>2. Tidies(f, x')
      BY Zenon, <3>1, <1>6, TidiesTwice
    <3> QED
      BY Zenon, <3>1, <3>2, <1>7, RestTidied DEF Tidies, Shrinks, Keeps
  <2>3. CASE x' = q
    BY Zenon, <2>3, <1>6, <1>7 DEF Tidies, Shrinks, Keeps
  <2> QED
    BY Zenon, <1>4, <2>1, <2>2, <2>3
<1>9. Keeps(x, x')
  BY Zenon, <1>5, <1>8 DEF Keeps
<1> QED
  BY Zenon, <1>1, <1>2, <1>8, <1>9, NoJobFacts, RestStep DEF CallersKept

\* Clearing the retired tables takes nothing from a query under way.
LEMMA RetiredCovered ==
    ASSUME NEW s, NEW j, Sound(s), Covered(s, j), NEW t, t = ClearRetiredScans(s)
    PROVE  Covered(t, j) /\ Sound(t) /\ Shrinks(s, t) /\ t.applied = s.applied
<1>1. /\ Tidies(s, t) /\ t.applied = s.applied /\ t.scans = s.scans /\ t.views = s.views
      /\ \A o \in s.temp : Entry(o) \notin s.retired => o \in t.temp
  BY Zenon, RetiredScansTidies
<1>2. t.tx = s.tx /\ t.temp \subseteq s.temp
  BY Zenon, <1>1 DEF Tidies, Shrinks
<1>3. \A o \in s.temp : Entry(o) \in s.views => o \in t.temp
  BY Zenon, <1>1, SoundParts
<1>4. Covered(t, j)
  BY Zenon, <1>1, <1>2, <1>3 DEF Covered, Clean, NoTables
<1> QED
  BY Zenon, <1>1, <1>4 DEF Tidies

\* The blocks that are not applied yet go to the worker, with the connection.
LEMMA RunQueryStep == ASSUME EInv, RunQuery PROVE EInv' /\ CallersKept
<1> DEFINE k == ClearRetiredScans(x)
           ahead == {r \in Relations : job.setup[r] \notin {NoBlock, x.applied[r]}}
<1>1. /\ pc = "load" /\ job.loads = {} /\ pc' = "setup" /\ worker' = "setup"
      /\ x' = [k EXCEPT !.conn = "away"] /\ job' = [job EXCEPT !.todo = ahead]
  BY Zenon DEF RunQuery
<1>2. Loading(x, job) /\ job \in Jobs
  BY Zenon, <1>1 DEF EInv, AtWork
<1>3. Sound(x) /\ Matches(x) /\ Covered(x, job) /\ job.done = {} /\ ~job.ready
  BY Zenon, <1>2 DEF Loading
<1>4. Covered(k, job) /\ Sound(k) /\ Shrinks(x, k) /\ k.applied = x.applied /\ k \in States
  BY Zenon, <1>3, RetiredCovered, SoundIn
<1>5. ahead \in SUBSET Relations
  BY Zenon
<1> HIDE DEF k
<1>6. /\ x' \in States /\ x'.conn = "away" /\ x'.active = k.active /\ x'.applied = k.applied
      /\ x'.scans = k.scans /\ x'.views = k.views /\ x'.transient = k.transient /\ x'.retired = k.retired
      /\ x'.tx = k.tx /\ x'.main = k.main /\ x'.temp = k.temp /\ x'.saved = k.saved
  BY Zenon, <1>1, <1>4 DEF States
<1>8. Sound(x')
  BY Zenon, <1>4, <1>6, SoundSame
<1>9. /\ HalfBlocks \/ \A r \in Relations : job.setup[r] \in {NoBlock, x.main[r]} \/ r \in ahead
      /\ \A r \in ahead : job.setup[r] # NoBlock
  BY Zenon, <1>3 DEF Matches
<1> HIDE DEF ahead
<1>10. /\ job' \in Jobs /\ job'.kind = job.kind /\ job'.tables = job.tables /\ job'.loads = job.loads
       /\ job'.cache = job.cache /\ job'.todo = ahead /\ job'.done = job.done /\ job'.ready = job.ready
       /\ job'.setup = job.setup
  BY Zenon, <1>1, <1>2, <1>5 DEF Jobs
<1>11. Covered(x', job')
  BY Zenon, <1>4, <1>6, <1>10, CoveredSame
<1>12. Prepared(x', job')
  BY Zenon, <1>4, <1>6, <1>9, <1>10 DEF Prepared, Shrinks
<1>13. DoneSoFar(x', job')
  BY Zenon, <1>3, <1>4, <1>6, <1>10 DEF Matches, Shrinks, DoneSoFar
<1>14. Running(x', job')
  BY Zenon, <1>1, <1>3, <1>6, <1>8, <1>9, <1>10, <1>11, <1>12, <1>13 DEF Running
<1>15. CallersKept
  BY Zenon, <1>4, <1>6 DEF CallersKept, Shrinks, Keeps
<1> QED
  BY Zenon, <1>1, <1>10, <1>14, <1>15 DEF EInv, AtWork

\* A stream without setup starts at once.
LEMMA StartStreamStep == ASSUME EInv, StartStream PROVE EInv' /\ CallersKept
<1>1. /\ pc = "load" /\ job.loads = {} /\ OnlyStreams /\ x' = ClearRetiredScans(x)
      /\ pc' = "stream" /\ UNCHANGED <<job, worker>>
  BY Zenon DEF StartStream
<1>2. Loading(x, job) /\ worker = "none" /\ job \in Jobs
  BY Zenon, <1>1 DEF EInv, AtWork
<1>3. Sound(x) /\ x.conn = "here" /\ Matches(x) /\ Covered(x, job) /\ job.todo = {}
  BY Zenon, <1>2 DEF Loading
<1>4. Covered(x', job) /\ Sound(x') /\ Shrinks(x, x')
  BY Zenon, <1>1, <1>3, RetiredCovered
<1>5. x'.conn = "here" /\ Matches(x')
  BY Zenon, <1>3, <1>4 DEF Shrinks, Matches
<1>6. Prepared(x', job) /\ job.kind = "stream"
  BY Zenon, <1>1 DEF OnlyStreams, Prepared
<1>7. Streaming(x', job')
  BY Zenon, <1>1, <1>3, <1>4, <1>5, <1>6 DEF Streaming
<1>8. CallersKept
  BY Zenon, <1>4 DEF CallersKept, Shrinks, Keeps
<1> QED
  BY Zenon, <1>1, <1>2, <1>7, <1>8 DEF EInv

\* The worker changes the session only by the blocks it runs.
LEMMA WorkerFacts ==
    ASSUME EInv, worker \in {"setup", "query", "sent", "dead"}
    PROVE  /\ AtWork /\ Running(x, job) /\ job \in Jobs
           /\ worker = "query" \/ pc \in {"query", "graceQuery"} => job.ready
BY Zenon DEF EInv

\* The worker goes on while the supervisor waits.
LEMMA WorkStep ==
    ASSUME EInv, worker \in {"setup", "query", "sent", "dead"}, job' \in Jobs, Running(x', job'),
           worker' \in {"setup", "query", "sent", "dead"}, pc' \in {"setup", "query", "graceSetup", "graceQuery"},
           worker' = "query" \/ pc' \in {"query", "graceQuery"} => job'.ready
    PROVE  EInv'
BY Zenon DEF EInv, AtWork

\* The steps of the worker.
LEMMA RunBlockStep == ASSUME EInv, NEW r \in Relations, RunBlock(r) PROVE EInv' /\ CallersKept
<1>1. /\ worker = "setup" /\ r \in job.todo /\ UNCHANGED <<pc, worker>>
      /\ x' = Written(x, r, job.setup[r])
      /\ job' = [job EXCEPT !.todo = @ \ {r}, !.done = @ \cup {r}]
  BY Zenon DEF RunBlock, Written
<1>2. /\ AtWork /\ Running(x, job) /\ job \in Jobs /\ job.setup[r] \in Codes
      /\ worker = "query" \/ pc \in {"query", "graceQuery"} => job.ready
  BY Zenon, <1>1, WorkerFacts DEF Jobs
<1>3. job.setup[r] \in Blocks /\ Sound(x)
  BY Zenon, <1>1, <1>2, RunningParts DEF Codes
<1>4. /\ Sound(x') /\ x'.conn = x.conn /\ x'.tx = x.tx /\ x'.temp = x.temp /\ x'.views = x.views
      /\ x'.scans = x.scans /\ x'.applied = x.applied /\ x'.main[r] = job.setup[r]
      /\ \A q \in Relations \ {r} : x'.main[q] = x.main[q]
  BY <1>1, <1>3, WrittenFacts
<1>5. /\ job' \in Jobs /\ job'.kind = job.kind /\ job'.tables = job.tables /\ job'.loads = job.loads
      /\ job'.cache = job.cache /\ job'.todo = job.todo \ {r} /\ job'.done = job.done \cup {r}
      /\ job'.ready = job.ready /\ job'.setup = job.setup
  BY Zenon, <1>1, <1>2 DEF Jobs
<1>6. Covered(x', job')
  BY Zenon, <1>2, <1>4, <1>5, RunningParts, CoveredSame
<1>7. Prepared(x', job')
  BY <1>2, <1>4, <1>5, RunningParts DEF Prepared
<1>8. DoneSoFar(x', job')
  BY <1>2, <1>4, <1>5, RunningParts DEF DoneSoFar
<1>9. Running(x', job')
  BY Zenon, <1>2, <1>4, <1>5, <1>6, <1>7, <1>8 DEF Running
<1>10. CallersKept
  BY Zenon, <1>4 DEF CallersKept, Keeps
<1>11. EInv'
  BY Zenon, <1>1, <1>2, <1>5, <1>9, WorkStep DEF AtWork
<1> QED
  BY Zenon, <1>10, <1>11

\* A failed statement of the worker leaves the query what it has.
LEMMA FailureRuns ==
    ASSUME NEW s, NEW j, Running(s, j), NEW f \in AfterFailure(s)
    PROVE  Running(f, j) /\ Keeps(s, f)
<1>1. Sound(s)
  BY Zenon, RunningParts
<1>2. /\ f.conn = s.conn /\ f.main = s.main /\ f.applied = s.applied /\ f.scans = s.scans
      /\ f.views = s.views /\ f.temp = s.temp /\ Sound(f) /\ (f.tx = s.tx \/ f.tx = "aborted")
  BY Zenon, <1>1, FailureFacts DEF Tidies, Shrinks
<1>3. Covered(f, j)
  BY Zenon, <1>2, RunningParts, CoveredSame
<1>4. Prepared(f, j) /\ DoneSoFar(f, j)
  BY <1>2, RunningParts DEF Prepared, DoneSoFar
<1> QED
  BY Zenon, <1>2, <1>3, <1>4 DEF Running, Keeps

\* A block of the setup fails.
LEMMA BlockFailsStep == ASSUME EInv, NEW r \in Relations, BlockFails(r) PROVE EInv' /\ CallersKept
<1>1. worker = "setup" /\ worker' = "sent" /\ UNCHANGED <<pc, job>>
  BY Zenon DEF BlockFails
<1>2. /\ AtWork /\ Running(x, job) /\ job \in Jobs /\ Sound(x)
      /\ worker = "query" \/ pc \in {"query", "graceQuery"} => job.ready
  BY Zenon, <1>1, WorkerFacts, RunningParts
<1>3. Running(x', job) /\ Keeps(x, x')
  <2>1. CASE x' \in AfterFailure(x)
    BY Zenon, <2>1, <1>2, FailureRuns
  <2>2. CASE HalfBlocks /\ x' = Written(x, r, Other)
    <3>1. /\ Sound(x') /\ x'.conn = x.conn /\ x'.tx = x.tx /\ x'.temp = x.temp /\ x'.views = x.views
          /\ x'.scans = x.scans /\ x'.applied = x.applied
      BY <2>2, <1>2, WrittenFacts
    <3>2. Covered(x', job)
      BY Zenon, <3>1, <1>2, RunningParts, CoveredSame
    <3>3. Prepared(x', job) /\ DoneSoFar(x', job)
      BY Zenon, <2>2 DEF Prepared, DoneSoFar
    <3> QED
      BY Zenon, <3>1, <3>2, <3>3, <1>2 DEF Running, Keeps
  <2> QED
    BY Zenon, <2>1, <2>2 DEF BlockFails, Written
<1>4. EInv'
  BY Zenon, <1>1, <1>2, <1>3, WorkStep DEF AtWork
<1> QED
  BY Zenon, <1>3, <1>4 DEF CallersKept

\* All blocks are done.
LEMMA SetupDoneStep == ASSUME EInv, SetupDone PROVE EInv' /\ CallersKept
<1>1. /\ worker = "setup" /\ job.todo = {} /\ worker' = "query" /\ UNCHANGED <<x, pc>>
      /\ job' = [job EXCEPT !.ready = TRUE]
  BY Zenon DEF SetupDone
<1>2. AtWork /\ Running(x, job) /\ job \in Jobs
  BY Zenon, <1>1, WorkerFacts
<1>3. /\ job' \in Jobs /\ job'.kind = job.kind /\ job'.tables = job.tables /\ job'.loads = job.loads
      /\ job'.cache = job.cache /\ job'.todo = job.todo /\ job'.done = job.done
      /\ job'.ready /\ job'.setup = job.setup
  BY Zenon, <1>1, <1>2 DEF Jobs
<1>4. Running(x', job')
  BY <1>1, <1>2, <1>3 DEF Running, Covered, Prepared, DoneSoFar
<1>5. EInv'
  BY Zenon, <1>1, <1>2, <1>3, <1>4, WorkStep DEF AtWork
<1> QED
  BY Zenon, <1>1, <1>5 DEF CallersKept, Keeps

\* The query ends, with or without a result.
LEMMA QueryEndsStep == ASSUME EInv, QueryEnds PROVE EInv' /\ CallersKept
<1>1. worker = "query" /\ worker' = "sent" /\ UNCHANGED <<pc, job>> /\ x' \in AfterFailure(x)
  BY Zenon DEF QueryEnds, AfterFailure
<1>2. /\ AtWork /\ Running(x, job) /\ job \in Jobs /\ job.ready
  BY Zenon, <1>1, WorkerFacts
<1>3. Running(x', job) /\ Keeps(x, x')
  BY Zenon, <1>1, <1>2, FailureRuns
<1>4. EInv'
  BY Zenon, <1>1, <1>2, <1>3, WorkStep DEF AtWork
<1> QED
  BY Zenon, <1>3, <1>4 DEF CallersKept

\* The worker panics, and the connection goes with it.
LEMMA WorkerPanicsStep == ASSUME EInv, WorkerPanics PROVE EInv' /\ CallersKept
<1>1. worker \in {"setup", "query"} /\ worker' = "dead" /\ UNCHANGED <<x, pc, job>>
  BY Zenon DEF WorkerPanics
<1>2. /\ AtWork /\ Running(x, job) /\ job \in Jobs
      /\ worker = "query" \/ pc \in {"query", "graceQuery"} => job.ready
  BY Zenon, <1>1, WorkerFacts
<1>3. EInv'
  BY Zenon, <1>1, <1>2, WorkStep DEF AtWork
<1> QED
  BY Zenon, <1>1, <1>3 DEF CallersKept, Keeps

LEMMA AtWorkFacts ==
    ASSUME EInv, AtWork
    PROVE  /\ Running(x, job) /\ job \in Jobs /\ worker \in {"setup", "query", "sent", "dead"}
           /\ worker = "query" \/ pc \in {"query", "graceQuery"} => job.ready
BY Zenon DEF EInv, AtWork

\* A call returns on a connection that is back, or gives it up.
LEMMA EndedStep ==
    ASSUME EInv, AtWork, NEW s, NEW ok \in BOOLEAN, Ended(s, ok),
           Sound(s), s.conn \in {"here", "lost"}, s.temp = x.temp, s.tx = x.tx, s.main = x.main,
           s.conn = "here" => Matches(s),
           ok => s.conn = "here" /\ job.ready /\ s.views = x.views /\ s.scans = x.scans
    PROVE  EInv' /\ CallersKept
<1>1. Running(x, job) /\ job \in Jobs /\ worker' = "none"
  BY Zenon, AtWorkFacts DEF Ended
<1>2. CASE job.kind = "stream" /\ ok /\ pc' = "stream" /\ x' = s /\ UNCHANGED job
  <2>1. Covered(x', job')
    BY Zenon, <1>1, <1>2, RunningParts, CoveredSame
  <2>2. Prepared(x', job')
    BY Zenon, <1>1, <1>2, RunningParts DEF Prepared
  <2>3. job'.loads = {} /\ job'.todo = {} /\ job'.kind = "stream" /\ job' \in Jobs
    BY Zenon, <1>1, <1>2, RunningParts
  <2>4. Streaming(x', job')
    BY Zenon, <1>2, <2>1, <2>2, <2>3 DEF Streaming
  <2>5. CallersKept
    BY Zenon, <1>2 DEF CallersKept, Keeps
  <2> QED
    BY Zenon, <1>1, <1>2, <2>3, <2>4, <2>5 DEF EInv
<1>3. CASE pc' = "idle" /\ x' \in Returned(s) /\ job' = NoJob
  <2>1. s.conn # "lost" /\ job.kind # "tables" => Clean(s)
    BY Zenon, <1>1, RunningParts DEF Clean
  <2>2. s.conn # "lost" => Matches(s)
    BY Zenon
  <2>3. AtRest(x') /\ Tidies(s, x')
    BY Zenon, <1>3, <2>1, <2>2, ReturnedRests
  <2>4. CallersKept
    BY Zenon, <2>3 DEF CallersKept, Tidies, Shrinks, Keeps
  <2> QED
    BY Zenon, <1>1, <1>3, <2>3, <2>4, NoJobFacts, RestStep
<1> QED
  BY Zenon, <1>2, <1>3 DEF Ended

LEMMA RestoredFacts ==
    ASSUME Running(x, job), job \in Jobs, NEW t, t = Restored(x)
    PROVE  /\ Sound(t) /\ t.conn = "here" /\ t.tx = x.tx /\ t.main = x.main
           /\ t.scans = x.scans /\ t.views = x.views /\ t.temp = x.temp /\ Matches(t)
<1> DEFINE held == [r \in Relations |-> IF r \in job.done THEN job.setup[r] ELSE x.applied[r]]
<1>1. Sound(x) /\ x \in States
  BY Zenon, RunningParts
<1>2. held \in [Relations -> Codes]
  BY Zenon, <1>1 DEF States, Jobs
<1>3. t = [x EXCEPT !.conn = "here", !.applied = held]
  BY Zenon DEF Restored
<1>4. \A r \in Relations : held[r] = IF r \in job.done THEN job.setup[r] ELSE x.applied[r]
  BY Zenon
<1> HIDE DEF held
<1>5. /\ t \in States /\ t.conn = "here" /\ t.tx = x.tx /\ t.main = x.main /\ t.applied = held
      /\ t.saved = x.saved /\ t.retired = x.retired /\ t.views = x.views /\ t.temp = x.temp
      /\ t.scans = x.scans /\ t.transient = x.transient
  BY Zenon, <1>1, <1>2, <1>3 DEF States
<1>7. Sound(t)
  BY Zenon, <1>1, <1>5, SoundSame
<1>8. Matches(t)
  BY <1>4, <1>5, RunningParts DEF Matches, DoneSoFar
<1> QED
  BY Zenon, <1>5, <1>7, <1>8

\* The message, its absence, the timeouts and the grace periods.
LEMMA SupervisorStep == ASSUME EInv, Supervisor PROVE EInv' /\ CallersKept
<1>1. CASE SetupSeen
  <2>1. pc = "setup" /\ job.ready /\ pc' = "query" /\ UNCHANGED <<x, job, worker>> /\ AtWork
    BY Zenon, <1>1 DEF SetupSeen, AtWork
  <2>2. Running(x, job) /\ job \in Jobs /\ worker \in {"setup", "query", "sent", "dead"}
    BY Zenon, <2>1, AtWorkFacts
  <2>3. EInv'
    BY Zenon, <2>1, <2>2, WorkStep
  <2> QED
    BY Zenon, <2>1, <2>3 DEF CallersKept, Keeps
<1>2. CASE SetupTimesOut \/ QueryTimesOut
  <2>1. /\ AtWork /\ UNCHANGED <<x, job, worker>> /\ pc' \in {"graceSetup", "graceQuery"}
        /\ pc' = "graceQuery" => pc = "query"
    BY Zenon, <1>2 DEF SetupTimesOut, QueryTimesOut, AtWork
  <2>2. /\ Running(x, job) /\ job \in Jobs /\ worker \in {"setup", "query", "sent", "dead"}
        /\ worker = "query" \/ pc \in {"query", "graceQuery"} => job.ready
    BY Zenon, <2>1, AtWorkFacts
  <2>3. EInv'
    BY Zenon, <2>1, <2>2, WorkStep
  <2> QED
    BY Zenon, <2>1, <2>3 DEF CallersKept, Keeps
<1>3. CASE SetupFailed \/ Answered
  <2>1. AtWork /\ (Ended(Restored(x), FALSE) \/ (pc = "query" /\ Ended(Restored(x), TRUE)))
    <3>1. CASE SetupFailed
      BY <3>1, Zenon DEF SetupFailed, AtWork
    <3>2. CASE Answered
      BY <3>2, Zenon DEF Answered, AtWork
    <3> QED
      BY <1>3, <3>1, <3>2, Zenon
  <2>2. Running(x, job) /\ job \in Jobs /\ (pc = "query" => job.ready)
    BY Zenon, <2>1, AtWorkFacts
  <2> DEFINE t == Restored(x)
  <2>3. /\ Sound(t) /\ t.conn = "here" /\ t.tx = x.tx /\ t.main = x.main
        /\ t.scans = x.scans /\ t.views = x.views /\ t.temp = x.temp /\ Matches(t)
    BY Zenon, <2>2, RestoredFacts
  <2> HIDE DEF t
  <2>4. CASE Ended(t, FALSE)
    BY Zenon, <2>1, <2>3, <2>4, EndedStep
  <2>5. CASE pc = "query" /\ Ended(t, TRUE)
    BY Zenon, <2>1, <2>2, <2>3, <2>5, EndedStep
  <2> QED
    BY Zenon, <2>1, <2>4, <2>5 DEF t
<1>4. CASE BackInTime
  <2>1. AtWork /\ \/ Ended(Restored(x), FALSE)
                   \/ Ended(InvalidateSetup([x EXCEPT !.conn = "here"]), FALSE)
    BY Zenon, <1>4 DEF BackInTime, AtWork
  <2>2. Running(x, job) /\ job \in Jobs /\ Sound(x)
    BY Zenon, <2>1, AtWorkFacts, RunningParts
  <2>3. CASE Ended(Restored(x), FALSE)
    <3> DEFINE t == Restored(x)
    <3>1. /\ Sound(t) /\ t.conn = "here" /\ t.tx = x.tx /\ t.main = x.main
          /\ t.temp = x.temp /\ Matches(t)
      BY Zenon, <2>2, RestoredFacts
    <3>2. Ended(t, FALSE)
      BY Zenon, <2>3
    <3> HIDE DEF t
    <3> QED
      BY Zenon, <3>1, <3>2, <2>1, EndedStep
  <2>4. CASE Ended(InvalidateSetup([x EXCEPT !.conn = "here"]), FALSE)
    <3> DEFINE h == [x EXCEPT !.conn = "here"]
               t == InvalidateSetup(h)
    <3>1. Sound(h) /\ h.conn = "here" /\ h.tx = x.tx /\ h.main = x.main /\ h.temp = x.temp
      BY <2>2, ConnFacts
    <3>5. h \in States
      BY Zenon, <3>1, SoundIn
    <3>2. Ended(t, FALSE)
      BY Zenon, <2>4
    <3> HIDE DEF h
    <3>3. /\ Sound(t) /\ t.conn = "here" /\ t.tx = x.tx /\ t.main = x.main /\ t.temp = x.temp
          /\ \A r \in Relations : t.applied[r] = NoBlock
      BY Zenon, <3>1, <3>5, InvalidateTidies, InvalidateFacts DEF Tidies
    <3> HIDE DEF t
    <3>4. Matches(t)
      BY Zenon, <3>3 DEF Matches
    <3> QED
      BY Zenon, <3>2, <3>3, <3>4, <2>1, EndedStep
  <2> QED
    BY Zenon, <2>1, <2>3, <2>4
<1>5. CASE GivenUp \/ Disconnected
  <2> DEFINE h == [x EXCEPT !.conn = "lost"]
  <2>1. AtWork /\ (Ended(InvalidateSetup(h), FALSE) \/ Ended(h, FALSE))
    BY Zenon, <1>5 DEF GivenUp, Disconnected, AtWork
  <2>2. Sound(x)
    BY Zenon, <2>1, AtWorkFacts, RunningParts
  <2>3. Sound(h) /\ h.conn = "lost" /\ h.tx = x.tx /\ h.main = x.main /\ h.temp = x.temp
    BY <2>2, ConnFacts
  <2> HIDE DEF h
  <2>6. h \in States
    BY Zenon, <2>3, SoundIn
  <2>4. CASE Ended(h, FALSE)
    BY Zenon, <2>1, <2>3, <2>4, EndedStep
  <2>5. CASE Ended(InvalidateSetup(h), FALSE)
    <3> DEFINE t == InvalidateSetup(h)
    <3>1. Sound(t) /\ t.conn = "lost" /\ t.tx = x.tx /\ t.main = x.main /\ t.temp = x.temp
      BY Zenon, <2>3, <2>6, InvalidateTidies, InvalidateFacts DEF Tidies
    <3>2. Ended(t, FALSE)
      BY Zenon, <2>5
    <3> HIDE DEF t
    <3> QED
      BY Zenon, <3>1, <3>2, <2>1, EndedStep
  <2> QED
    BY Zenon, <2>1, <2>4, <2>5
<1> QED
  BY Zenon, <1>1, <1>2, <1>3, <1>4, <1>5 DEF Supervisor

\* A stream is cancelled, or ends.
LEMMA StreamEndStep == ASSUME EInv, StreamCancelled \/ FinishStream PROVE EInv' /\ CallersKept
<1>1. pc = "stream" /\ pc' = "idle" /\ job' = NoJob /\ worker' = worker
  BY Zenon DEF StreamCancelled, FinishStream
<1>2. Streaming(x, job) /\ worker = "none"
  BY Zenon, <1>1 DEF EInv, AtWork
<1>3. Sound(x) /\ x.conn = "here" /\ Matches(x) /\ Clean(x) /\ AtRest(x)
  BY Zenon, <1>2 DEF Streaming, Covered, AtRest
<1>4. AtRest(x') /\ Keeps(x, x')
  <2>1. CASE StreamCancelled
    BY Zenon, <2>1, <1>3 DEF StreamCancelled, Keeps
  <2>2. CASE FinishStream
    <3>1. PICK f \in AfterFailure(x) : x' = ClearQueryScans(f) \/ x' \in Evicted(ClearQueryScans(f), {})
      BY Zenon, <2>2 DEF FinishStream
    <3>2. Sound(f) /\ AtRest(f) /\ Keeps(x, f)
      BY Zenon, <1>3, FailureFacts, CleanFailure DEF Tidies, AtRest
    <3> DEFINE q == ClearQueryScans(f)
    <3>3. Tidies(f, q) /\ Sound(q)
      BY Zenon, <3>2, QueryScansTidies DEF Tidies
    <3>4. x' = q \/ x' \in Evicted(q, {})
      BY Zenon, <3>1
    <3> HIDE DEF q
    <3>5. Tidies(f, x')
      BY Zenon, <3>3, <3>4, EvictedTidies, TidiesTwice
    <3> QED
      BY Zenon, <3>2, <3>5, RestTidied DEF Tidies, Shrinks, Keeps
  <2> QED
    BY Zenon, <2>1, <2>2
<1> QED
  BY Zenon, <1>1, <1>2, <1>4, NoJobFacts, RestStep DEF CallersKept

\* new() and from_connection, in a transaction or not.
LEMMA FreshRests ==
    ASSUME NEW s, NEW conn \in {"none", "here"}, NEW tx \in {"none", "open", "aborted"},
           NEW active \in BOOLEAN,
           \/ s = Fresh /\ conn = "none" /\ tx = "none"
           \/ s = [Fresh EXCEPT !.conn = conn, !.tx = tx, !.active = active]
    PROVE  AtRest(s)
<1> DEFINE none == [r \in Relations |-> NoBlock]
           empty == [c \in Contents |-> NoEntry]
           bare == [r \in Relations |-> Other]
<1>1. none \in [Relations -> Codes] /\ empty \in [Contents -> Entries] /\ bare \in Mains
  BY Zenon DEF Codes, Mains, NoEntry, Entries
<1>2. /\ \A r \in Relations : none[r] = NoBlock
      /\ \A c \in Contents : empty[c] = NoEntry
  BY Zenon
<1>3. Fresh = [conn |-> "none", active |-> FALSE, applied |-> none, scans |-> empty, views |-> {},
               transient |-> {}, retired |-> {}, tx |-> "none", main |-> bare, temp |-> {}, saved |-> NoSave]
  BY Zenon DEF Fresh
<1> HIDE DEF none, empty, bare
<1>4. /\ s \in States /\ s.conn = conn /\ s.tx = tx /\ s.applied = none /\ s.scans = empty
      /\ s.views = {} /\ s.transient = {} /\ s.retired = {} /\ s.temp = {} /\ s.saved.temp = {}
  <2>1. CASE s = Fresh /\ conn = "none" /\ tx = "none"
    BY Zenon, <2>1, <1>1, <1>3, SaveFacts DEF States
  <2>2. CASE s = [Fresh EXCEPT !.conn = conn, !.tx = tx, !.active = active]
    BY Zenon, <2>2, <1>1, <1>3, SaveFacts DEF States
  <2> QED
    BY Zenon, <2>1, <2>2
<1>5. Cached(s) = {}
  BY <1>2, <1>4 DEF Cached
<1>6. Sound(s)
  BY Zenon, <1>2, <1>4, <1>5 DEF Sound, NoTables
<1>7. Matches(s) /\ Clean(s)
  BY Zenon, <1>2, <1>4 DEF Matches, Clean, NoTables
<1> QED
  BY Zenon, <1>4, <1>6, <1>7 DEF AtRest

LEMMA ExecutorStart == Init => EInv
<1> SUFFICES ASSUME Init PROVE EInv
  BY Zenon
<1>2. AtRest(x)
  <2>1. CASE x = Fresh
    BY ZenonT(30), <2>1, FreshRests
  <2>2. CASE \E t \in {"none", "open", "aborted"} :
               x = [Fresh EXCEPT !.conn = "here", !.tx = t, !.active = (t # "none")]
    BY Zenon, <2>2, FreshRests
  <2> QED
    BY SMTT(30), <2>1, <2>2 DEF Init
<1> QED
  BY Zenon, <1>2, NoJobFacts DEF Init, EInv

\* Every step keeps the invariant and the objects of the caller.
LEMMA ExecutorStep == ASSUME EInv, [Next]_vars PROVE EInv' /\ (Next => CallersKept)
<1>1. CASE Caller
  <2>1. CASE \E kind \in {"borrowed", "batch"} : Borrow(kind)
    BY Zenon, <2>1, BorrowStep
  <2>2. CASE \E kind \in Kinds, setup \in [Relations -> Blocks \cup {NoBlock}],
                tables \in SUBSET Contents : Start(kind, setup, tables)
    BY Zenon, <2>2, StartStep
  <2>3. CASE LostCall
    BY Zenon, <2>3, IdleAgain DEF LostCall
  <2> QED
    BY Zenon, <1>1, <2>1, <2>2, <2>3, BeginStep, CommitStep, RollbackStep, CallerSqlStep, EndBorrowStep DEF Caller
<1>2. CASE Load
  BY Zenon, <1>2, LoadTableStep, LoadFailsStep, RunQueryStep, StartStreamStep DEF Load
<1>3. CASE Worker
  BY Zenon, <1>3, RunBlockStep, BlockFailsStep, SetupDoneStep, QueryEndsStep, WorkerPanicsStep DEF Worker
<1>4. CASE Supervisor
  BY Zenon, <1>4, SupervisorStep
<1>5. CASE StreamCancelled \/ FinishStream
  BY Zenon, <1>5, StreamEndStep
<1>6. CASE UNCHANGED vars
  BY Zenon, <1>6, IdleAgain
<1> QED
  BY Zenon, <1>1, <1>2, <1>3, <1>4, <1>5, <1>6 DEF Next

\* What the invariant says of the properties.
LEMMA ExecutorImplies == EInv => OwnedObjectsAreTracked /\ (~HalfBlocks => QueryReadsItsInputs)
<1> SUFFICES ASSUME EInv PROVE OwnedObjectsAreTracked /\ (~HalfBlocks => QueryReadsItsInputs)
  BY Zenon
<1>1. Sound(x)
  BY Zenon DEF EInv, AtRest, Lent, Loading, Running, Streaming
<1>2. OwnedObjectsAreTracked
  BY Zenon, <1>1, SoundParts DEF OwnedObjectsAreTracked, NoTables
<1>3. ASSUME ~HalfBlocks, worker = "query" \/ pc = "stream"
      PROVE  /\ \A r \in Relations : job.setup[r] \in {NoBlock, x.main[r]}
             /\ \A c \in job.tables :
                  /\ \E o \in x.temp : o.name = c /\ Mine(o)
                  /\ job.cache => \E o \in x.temp : Entry(o) = x.scans[c] /\ Mine(o)
  <2>1. Covered(x, job) /\ Prepared(x, job) /\ job.loads = {} /\ job.todo = {} /\ job \in Jobs
    <3>1. CASE worker = "query"
      BY Zenon, <3>1 DEF EInv, Running
    <3>2. CASE pc = "stream"
      BY Zenon, <3>2 DEF EInv, Streaming, AtWork
    <3> QED
      BY Zenon, <3>1, <3>2, <1>3
  <2>2. \A r \in Relations : job.setup[r] \in {NoBlock, x.main[r]}
    BY Zenon, <2>1, <1>3 DEF Prepared
  <2>3. ASSUME NEW c \in job.tables
        PROVE  /\ \E o \in x.temp : o.name = c /\ Mine(o)
               /\ job.cache => \E o \in x.temp : Entry(o) = x.scans[c] /\ Mine(o)
    <3>1. c \in job.tables \ job.loads /\ c \in Contents
      BY Zenon, <2>1 DEF Jobs
    <3>2. /\ \E o \in x.temp : o.name = c /\ Mine(o)
          /\ job.cache => x.scans[c] # NoEntry
      BY Zenon, <3>1, <2>1 DEF Covered
    <3> QED
      BY Zenon, <3>1, <3>2, <1>1, SoundParts
  <2> QED
    BY Zenon, <2>2, <2>3
<1> QED
  BY Zenon, <1>2, <1>3 DEF QueryReadsItsInputs

\* For any relations, blocks, contents and budget, and whatever timeouts,
\* rollbacks, evictions and statements of the caller came before: a query that
\* runs finds its relations as its setup leaves them and its scans on tables of
\* the executor. Assumed is what HalfBlocks states: that a block which fails in
\* the caller's transaction has not changed the relation.
THEOREM QueriesReadTheirInputs == ASSUME ~HalfBlocks PROVE Spec => []QueryReadsItsInputs
<1>1. EInv => QueryReadsItsInputs
  BY Zenon, ExecutorImplies
<1>2. EInv /\ [Next]_vars => EInv'
  BY Zenon, ExecutorStep
<1> QED
  BY <1>1, <1>2, ExecutorStart, PTL DEF Spec

\* Also with such blocks: an object of run_with_tables that is in the session, or
\* that a rollback would bring back, is in one of the executor's four lists.
THEOREM ObjectsStayTracked == Spec => []OwnedObjectsAreTracked
<1>1. EInv => OwnedObjectsAreTracked
  BY Zenon, ExecutorImplies
<1>2. EInv /\ [Next]_vars => EInv'
  BY Zenon, ExecutorStep
<1> QED
  BY <1>1, <1>2, ExecutorStart, PTL DEF Spec

\* And nothing the executor does removes a temporary object of the caller.
THEOREM CallersKeepTheirs == Spec => CallersObjectsAreKept
<1>1. EInv /\ [Next]_vars => EInv'
  BY Zenon, ExecutorStep
<1>2. EInv /\ [Next]_vars =>
        [pc \notin {"borrowed", "batch"} /\ x'.tx = x.tx /\ x'.conn # "lost"
           => {o \in x.temp : ~Mine(o)} \subseteq x'.temp]_vars
  BY Zenon, ExecutorStep DEF CallersKept, Keeps
<1> QED
  BY <1>1, <1>2, ExecutorStart, PTL DEF Spec, CallersObjectsAreKept
=============================================================================
