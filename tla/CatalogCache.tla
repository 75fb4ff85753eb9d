---------------------------- MODULE CatalogCache ----------------------------
(***************************************************************************)
(* The process-wide caches of a catalog client: snapshots by identity      *)
(* (src/src/catalog/cache.rs), an access token (src/src/catalog/auth.rs),  *)
(* and OrchidCatalog::cached_snapshot, which holds the lock of an          *)
(* identity's entry while it waits for the token and for the server        *)
(* (src/src/catalog/remote.rs).                                            *)
(*                                                                         *)
(* Time is a clock in ticks. The server publishes revisions, issues tokens *)
(* of Life ticks, and may refuse or be out of reach. An entry is in use    *)
(* while a caller has a reference to it, which is what strong_count > 1    *)
(* says under the lock of the map.                                         *)
(***************************************************************************)
EXTENDS Naturals, FiniteSets

CONSTANTS Callers, Keys, Nobody,
          Interval,    \* refresh_interval
          Retained,    \* how long an unused entry is kept
          Life,        \* lifetime of a token; it is renewed after half of it
          MaxTime      \* bound on the clock, and so on revisions

ASSUME CallersAssumption == IsFiniteSet(Callers) /\ IsFiniteSet(Keys) /\ Nobody \notin Callers
ASSUME TimesAssumption == {Interval, Retained, Life, MaxTime} \subseteq Nat

VARIABLES clock, revision,
          closing,     \* the revision when the clock left a tick
          entries,     \* ENTRIES: the entry of a key
          cached,      \* what the mutex of each entry protects
          locked,      \* who holds it
          token, tokenLock,
          caller       \* the call of cached_snapshot of each caller
catalogVars == <<clock, revision, closing, entries, cached, locked, token, tokenLock, caller>>
server == <<clock, revision, closing>>
tokens == <<token, tokenLock>>

Ids == 1..(Cardinality(Callers) + Cardinality(Keys))
None == [revision |-> 0, checked |-> 0]
NoToken == [valid |-> FALSE, started |-> 0, until |-> 0]
IdleCaller == [pc |-> "idle"]

CatalogInit ==
    /\ clock = 0 /\ revision = 1 /\ closing = [t \in 0..MaxTime |-> 0]
    /\ entries = [k \in Keys |-> 0]
    /\ cached = [e \in Ids |-> None] /\ locked = [e \in Ids |-> Nobody]
    /\ token = NoToken /\ tokenLock = Nobody
    /\ caller = [c \in Callers |-> IdleCaller]

Publish ==
    /\ revision <= clock /\ revision' = revision + 1
    /\ UNCHANGED <<clock, closing, entries, cached, locked, tokens, caller>>
Tick ==
    /\ clock < MaxTime /\ clock' = clock + 1
    /\ closing' = [closing EXCEPT ![clock] = revision]
    /\ UNCHANGED <<revision, entries, cached, locked, tokens, caller>>

-----------------------------------------------------------------------------
(* entry(): forget what is old and unused, then find or make the entry. *)

Holders(e) == {c \in Callers : caller[c].pc # "idle" /\ caller[c].entry = e}
Recent(e) == cached[e] # None /\ clock - cached[e].checked < Retained
\* Mutant of Kept: the age alone decides, unless somebody holds the lock.
KeptWhileRecent(e) == Recent(e) \/ locked[e] # Nobody
Kept(e) == Recent(e) \/ locked[e] # Nobody \/ Holders(e) # {}

Call(c, k, force) ==
    /\ caller[c].pc = "idle"
    /\ LET kept == [j \in Keys |-> IF entries[j] # 0 /\ Kept(entries[j]) THEN entries[j] ELSE 0]
           used == {kept[j] : j \in Keys} \cup {e \in Ids : Holders(e) # {}}
           fresh == CHOOSE e \in Ids : e \notin used
           e == IF kept[k] # 0 THEN kept[k] ELSE fresh
       IN  /\ entries' = [kept EXCEPT ![k] = e]
           /\ cached' = [d \in Ids |-> IF d \in used THEN cached[d] ELSE None]
           /\ caller' = [caller EXCEPT ![c] =
                [pc |-> "waiting", key |-> k, entry |-> e, force |-> force, now |-> 0, answer |-> 0, seen |-> 0]]
    /\ UNCHANGED <<server, locked, tokens>>

-----------------------------------------------------------------------------
(* resolve(). *)

Goes(c, place) == caller' = [caller EXCEPT ![c].pc = place]
E(c) == caller[c].entry
\* The entry's lock, and what is fresh enough is the answer.
Lock(c) ==
    /\ caller[c].pc = "waiting" /\ locked[E(c)] = Nobody
    /\ IF ~caller[c].force /\ cached[E(c)] # None /\ clock - cached[E(c)].checked < Interval
       THEN /\ caller' = [caller EXCEPT ![c].pc = "answered", ![c].now = clock,
                                        ![c].answer = cached[E(c)].revision]
            /\ UNCHANGED locked
       ELSE /\ caller' = [caller EXCEPT ![c].pc = "auth", ![c].now = clock]
            /\ locked' = [locked EXCEPT ![E(c)] = c]
    /\ UNCHANGED <<server, entries, cached, tokens>>
Return(c) ==
    /\ caller[c].pc = "answered"
    /\ caller' = [caller EXCEPT ![c] = IdleCaller]
    /\ UNCHANGED <<server, entries, cached, locked, tokens>>

\* token(): one that has not reached half of its life is reused. Its lifetime
\* counts from when it was asked for.
TokenLock(c) ==
    /\ caller[c].pc = "auth" /\ tokenLock = Nobody
    /\ IF token.valid /\ clock < token.started + Life \div 2
       THEN /\ caller' = [caller EXCEPT ![c].pc = "get", ![c].seen = token.until]
            /\ UNCHANGED tokenLock
       ELSE /\ tokenLock' = c
            /\ caller' = [caller EXCEPT ![c].pc = "post", ![c].answer = clock]
    /\ UNCHANGED <<server, entries, cached, locked, token>>
TokenIssued(c) ==
    /\ caller[c].pc = "post"
    /\ caller' = [caller EXCEPT ![c].pc = "issued", ![c].seen = clock + Life]
    /\ UNCHANGED <<server, entries, cached, locked, tokens>>
\* Mutant of TokenStored: the lifetime counts from the answer.
TokenCountsLate(c) ==
    /\ caller[c].pc = "issued"
    /\ token' = [valid |-> TRUE, started |-> clock, until |-> caller[c].seen]
    /\ tokenLock' = Nobody /\ Goes(c, "get")
    /\ UNCHANGED <<server, entries, cached, locked>>
TokenStored(c) ==
    /\ caller[c].pc = "issued"
    /\ token' = [valid |-> TRUE, started |-> caller[c].answer, until |-> caller[c].seen]
    /\ tokenLock' = Nobody /\ Goes(c, "get")
    /\ UNCHANGED <<server, entries, cached, locked>>

Unlocks(c) == locked' = [locked EXCEPT ![E(c)] = Nobody]
\* The token endpoint refuses, which drops the token, or cannot be reached.
TokenFails(c) ==
    /\ caller[c].pc = "post"
    /\ token' \in {token, NoToken} /\ tokenLock' = Nobody
    /\ cached' = [cached EXCEPT ![E(c)] = None] /\ Unlocks(c)
    /\ caller' = [caller EXCEPT ![c] = IdleCaller]
    /\ UNCHANGED <<server, entries>>

\* The server answers the GET of now, whole or "unchanged".
Serve(c) ==
    /\ caller[c].pc = "get" /\ clock < caller[c].seen
    /\ caller' = [caller EXCEPT ![c].pc = "served", ![c].answer = revision]
    /\ UNCHANGED <<server, entries, cached, locked, tokens>>
\* Mutant of Store: the snapshot counts as checked when it arrives.
StoreAsOfNow(c) ==
    /\ caller[c].pc = "served"
    /\ cached' = [cached EXCEPT ![E(c)] = [revision |-> caller[c].answer, checked |-> clock]]
    /\ Unlocks(c) /\ Goes(c, "answered")
    /\ UNCHANGED <<server, entries, tokens>>
Store(c) ==
    /\ caller[c].pc = "served"
    /\ cached' = [cached EXCEPT ![E(c)] = [revision |-> caller[c].answer, checked |-> caller[c].now]]
    /\ Unlocks(c) /\ Goes(c, "answered")
    /\ UNCHANGED <<server, entries, tokens>>
\* Mutant of FetchFails: the entry's lock outlives a failed request.
FailsLocked(c) ==
    /\ caller[c].pc \in {"get", "served"}
    /\ cached' = [cached EXCEPT ![E(c)] = None]
    /\ caller' = [caller EXCEPT ![c] = IdleCaller]
    /\ UNCHANGED <<server, entries, locked, tokens>>
\* The server refuses or is out of reach, or its answer is not valid: there is
\* no falling back to the old snapshot.
FetchFails(c) ==
    /\ caller[c].pc \in {"get", "served"}
    /\ cached' = [cached EXCEPT ![E(c)] = None] /\ Unlocks(c)
    /\ caller' = [caller EXCEPT ![c] = IdleCaller]
    /\ UNCHANGED <<server, entries, tokens>>

\* The future is dropped at an await; its guards and its reference go.
Drop(c) ==
    /\ caller[c].pc \in {"waiting", "auth", "post", "issued", "get", "served"}
    /\ locked' = [locked EXCEPT ![E(c)] = IF @ = c THEN Nobody ELSE @]
    /\ tokenLock' = IF tokenLock = c THEN Nobody ELSE tokenLock
    /\ caller' = [caller EXCEPT ![c] = IdleCaller]
    /\ UNCHANGED <<server, entries, cached, token>>

\* Requests end: the client's timeout turns silence into a failure.
Progress(c) ==
    \/ Lock(c) \/ Return(c) \/ TokenLock(c) \/ TokenIssued(c) \/ TokenStored(c) \/ TokenFails(c)
    \/ Serve(c) \/ Store(c) \/ FetchFails(c)
CatalogNext ==
    \/ Publish \/ Tick
    \/ \E c \in Callers : \/ \E k \in Keys, force \in BOOLEAN : Call(c, k, force)
                          \/ Progress(c) \/ Drop(c)
CatalogSpec == CatalogInit /\ [][CatalogNext]_catalogVars
\* The mutexes of tokio are fair: a caller that waits for a lock gets it.
CatalogLiveSpec ==
    /\ CatalogSpec
    /\ \A c \in Callers : WF_catalogVars(Progress(c)) /\ SF_catalogVars(Lock(c)) /\ SF_catalogVars(TokenLock(c))

-----------------------------------------------------------------------------
(* Properties. *)

Fetching(c) == caller[c].pc \in {"auth", "post", "issued", "get", "served"}
\* Every variable keeps its type, and a lock is held by a call that fetches.
CatalogTypeOK ==
    /\ clock \in 0..MaxTime /\ revision \in 1..(MaxTime + 1)
    /\ \A k \in Keys : entries[k] \in Ids \cup {0}
    /\ \A e \in Ids : locked[e] \in Callers \cup {Nobody} /\ cached[e].revision \in 0..revision
    /\ tokenLock \in Callers \cup {Nobody}
    /\ \A e \in Ids : locked[e] # Nobody => Fetching(locked[e]) /\ E(locked[e]) = e

\* "concurrent_cold_queries_share_one_refresh": two callers of one identity
\* never ask the server at the same time, because they share one entry.
OneFetchPerIdentity ==
    \A c, d \in Callers :
        c # d /\ Fetching(c) /\ Fetching(d) => caller[c].key # caller[d].key

\* An answer is as fresh as its call asked for: at least the revision that was
\* current Interval ticks before the caller got the entry's lock or, from
\* refresh() and where the interval is 0, one tick before it, however fresh the
\* cache is.
AnswersAreFresh ==
    \A c \in Callers :
        LET age == IF caller[c].force \/ Interval = 0 THEN 1 ELSE Interval IN
        caller[c].pc = "answered" /\ caller[c].now >= age =>
            caller[c].answer >= closing[caller[c].now - age]

\* A token is taken from the cache only while the server accepts it.
ReusedTokensAreAccepted ==
    tokenLock = Nobody /\ token.valid /\ clock < token.started + Life \div 2 => clock < token.until

\* Every call returns, unless it is dropped: nobody waits for a lock for ever.
CallsReturn == \A c \in Callers : caller[c].pc # "idle" ~> caller[c].pc = "idle"
=============================================================================
