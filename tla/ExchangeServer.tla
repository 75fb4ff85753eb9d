-------------------------- MODULE ExchangeServer --------------------------
(***************************************************************************)
(* One exchange (src/src/execution/exchange.rs) whose partitions are Arrow *)
(* streams (BatchSource, src/src/execution/stream.rs), held by the lease   *)
(* of the query that consumes it, and the HTTP server through which Trino  *)
(* workers read it.                                                        *)
(*                                                                         *)
(* conn[c] is a connection of a worker and the thread that serves it:      *)
(*   idle       not made yet                                               *)
(*   queued     waiting in accept                                          *)
(*   request    its thread has read the request                            *)
(*   found      the thread holds the entry                                 *)
(*   stream     the stream is open, sent batches have been written         *)
(*   leaving    serve has returned, the thread still counts as active      *)
(*   over                                                                  *)
(* and what the worker has seen: "none", "error" (a refusal, or a body     *)
(* without its last chunk) or "complete".                                  *)
(***************************************************************************)
EXTENDS Naturals, FiniteSets

CONSTANTS Connections,
          Partitions,       \* of the exchange
          OneShot,          \* those whose source is SourceKind::Once
          Length,           \* batches of a partition
          MaxConnections    \* ExchangeServerOptions.max_connections

ASSUME OneShotAssumption == OneShot \subseteq Partitions
ASSUME LengthAssumption == Length \in Nat
ASSUME MaxConnectionsAssumption == MaxConnections \in Nat \ {0}

VARIABLES registered,   \* the registry holds the entry
          cancelled,    \* Entry.cancelled
          stopped,      \* ExchangeServer.stopped
          listening,    \* the listener thread runs
          active,       \* the counter of serving threads
          taken,        \* one-shot sources whose stream was taken
          conn
vars == <<registered, cancelled, stopped, listening, active, taken, conn>>

NoConnection == [pc |-> "idle", partition |-> CHOOSE p \in Partitions : TRUE,
                 sent |-> 0, seen |-> "none"]
Serving == {c \in Connections : conn[c].pc \in {"request", "found", "stream", "leaving"}}

Init ==
    /\ registered = TRUE /\ cancelled = FALSE /\ stopped = FALSE /\ listening = TRUE
    /\ active = 0 /\ taken = {}
    /\ conn = [c \in Connections |-> NoConnection]

Move(c, pc) == conn' = [conn EXCEPT ![c].pc = pc]
\* serve returns; the worker has an error unless the last chunk was written.
Leave(c, seen) == conn' = [conn EXCEPT ![c].pc = "leaving", ![c].seen = seen]

-----------------------------------------------------------------------------
\* A worker asks for a partition, for the first time or again.
Connect(c, p) ==
    /\ conn[c].pc = "idle" /\ listening
    /\ conn' = [conn EXCEPT ![c] = [NoConnection EXCEPT !.pc = "queued", !.partition = p]]
    /\ UNCHANGED <<registered, cancelled, stopped, listening, active, taken>>

\* One turn of the listener: 503 beyond the limit, a new thread below it.
Accept(c) ==
    /\ listening /\ conn[c].pc = "queued"
    /\ IF active >= MaxConnections
       THEN conn' = [conn EXCEPT ![c].pc = "over", ![c].seen = "error"] /\ UNCHANGED active
       ELSE Move(c, "request") /\ active' = active + 1
    /\ UNCHANGED <<registered, cancelled, stopped, listening, taken>>

\* The listener sees the flag, or accept fails and the loop breaks: what is
\* queued is closed with the socket, and no connection is accepted any more.
ListenerEnds ==
    /\ listening
    /\ listening' = FALSE
    /\ conn' = [c \in Connections |->
                  IF conn[c].pc = "queued" THEN [conn[c] EXCEPT !.pc = "over", !.seen = "error"]
                  ELSE conn[c]]
    /\ UNCHANGED <<registered, cancelled, stopped, active, taken>>

\* The entry is cloned out of the registry, or the answer is 404.
Lookup(c) ==
    /\ conn[c].pc = "request"
    /\ IF registered THEN Move(c, "found") ELSE Leave(c, "error")
    /\ UNCHANGED <<registered, cancelled, stopped, listening, active, taken>>

\* Mutant of Open: a one-shot stream stays in its source.
OpenAgain(c) ==
    /\ conn[c].pc = "found"
    /\ Move(c, "stream")
    /\ UNCHANGED <<registered, cancelled, stopped, listening, active, taken>>

\* BatchSource::open: a one-shot stream is taken once, or the answer is 409.
Open(c) ==
    LET p == conn[c].partition IN
    /\ conn[c].pc = "found"
    /\ IF p \in taken THEN Leave(c, "error") /\ UNCHANGED taken
       ELSE Move(c, "stream") /\ taken' = taken \cup ({p} \cap OneShot)
    /\ UNCHANGED <<registered, cancelled, stopped, listening, active>>

\* The select picks the next batch, or sees a flag; neither goes first.
Deliver(c) ==
    /\ conn[c].pc = "stream" /\ conn[c].sent < Length
    /\ conn' = [conn EXCEPT ![c].sent = @ + 1]
    /\ UNCHANGED <<registered, cancelled, stopped, listening, active, taken>>

\* Mutant of Cancelled: only the flag of the lease is looked at.
CancelledByLease(c) ==
    /\ conn[c].pc = "stream" /\ cancelled
    /\ Leave(c, "error")
    /\ UNCHANGED <<registered, cancelled, stopped, listening, active, taken>>

\* The branch of the select that polls the two flags.
Cancelled(c) ==
    /\ conn[c].pc = "stream" /\ (cancelled \/ stopped)
    /\ Leave(c, "error")
    /\ UNCHANGED <<registered, cancelled, stopped, listening, active, taken>>

\* The request is refused or cut short; the source cannot be opened; the
\* stream fails, changes its schema or has too large a batch; the worker is
\* gone, or too slow for io_timeout. No last chunk is written.
Breaks(c) ==
    /\ conn[c].pc \in {"request", "found", "stream"}
    /\ Leave(c, "error")
    /\ taken' = taken \cup (IF conn[c].pc = "found" THEN {conn[c].partition} \cap OneShot ELSE {})
    /\ UNCHANGED <<registered, cancelled, stopped, listening, active>>

\* Mutant of Ends: any end of the loop writes the last chunk.
EndsAnyway(c) ==
    /\ conn[c].pc = "stream" /\ (conn[c].sent = Length \/ cancelled)
    /\ Leave(c, "complete")
    /\ UNCHANGED <<registered, cancelled, stopped, listening, active, taken>>

\* The stream is at its end: the writer is finished and the last chunk written.
Ends(c) ==
    /\ conn[c].pc = "stream" /\ conn[c].sent = Length
    /\ Leave(c, "complete")
    /\ UNCHANGED <<registered, cancelled, stopped, listening, active, taken>>

\* The guard of the thread is dropped.
Release(c) ==
    /\ conn[c].pc = "leaving"
    /\ active' = active - 1
    /\ Move(c, "over")
    /\ UNCHANGED <<registered, cancelled, stopped, listening, taken>>

-----------------------------------------------------------------------------
\* The lease is dropped: the query that consumes the exchange is over.
Revoke ==
    /\ registered
    /\ registered' = FALSE /\ cancelled' = TRUE
    /\ UNCHANGED <<stopped, listening, active, taken, conn>>

\* The server is dropped; drop returns once the listener has ended.
Stop ==
    /\ ~stopped
    /\ stopped' = TRUE
    /\ UNCHANGED <<registered, cancelled, listening, active, taken, conn>>

Thread(c) ==
    Lookup(c) \/ Open(c) \/ Deliver(c) \/ Cancelled(c) \/ Breaks(c) \/ Ends(c) \/ Release(c)
Next ==
    \/ \E c \in Connections : (\E p \in Partitions : Connect(c, p)) \/ Accept(c) \/ Thread(c)
    \/ ListenerEnds \/ Revoke \/ Stop

Spec == Init /\ [][Next]_vars

-----------------------------------------------------------------------------
(* Properties. *)

\* Every variable keeps its type.
TypeOK ==
    /\ {registered, cancelled, stopped, listening} \subseteq BOOLEAN
    /\ active \in 0..MaxConnections /\ taken \subseteq OneShot
    /\ conn \in [Connections ->
                  [pc : {"idle", "queued", "request", "found", "stream", "leaving", "over"},
                   partition : Partitions, sent : 0..Length, seen : {"none", "error", "complete"}]]

\* A worker never takes a part of a partition for the whole: it sees a complete
\* answer only if it was sent every batch, whatever was revoked, stopped or
\* broken meanwhile.
CompleteMeansAll == \A c \in Connections : conn[c].seen = "complete" => conn[c].sent = Length

\* A one-shot input is not read twice, by a retry or by two workers at once.
OneShotReadOnce ==
    \A c, d \in Connections :
        /\ conn[c].partition = conn[d].partition /\ conn[c].partition \in OneShot
        /\ conn[c].sent > 0 /\ conn[d].sent > 0
        => c = d

\* The counter that admits connections counts the threads that are there: no
\* more than the limit serve at once, and none leaves its place taken.
ActiveCountsThreads == active = Cardinality(Serving)

\* The select chooses at random among the ready branches, so a set flag is
\* taken in the end; reading the request and writing are bounded by io_timeout.
Fairness ==
    \A c \in Connections :
        /\ WF_vars(Lookup(c)) /\ WF_vars(Open(c)) /\ WF_vars(Cancelled(c)) /\ WF_vars(Release(c))
LiveSpec == Spec /\ Fairness

\* Dropping the lease, or the server, ends every reader and gives its place
\* back, also that of a stream which never yields another batch.
ReadersEnd == \A c \in Connections : c \in Serving /\ (cancelled \/ stopped) ~> c \notin Serving
=============================================================================
