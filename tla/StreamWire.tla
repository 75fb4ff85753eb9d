---------------------------- MODULE StreamWire ----------------------------
(***************************************************************************)
(* One stream handle of the language bindings (src/src/streaming/wire.rs): *)
(* several threads of the host call stream_start, stream_poll,             *)
(* stream_authorize and stream_close; a worker task runs one operation at  *)
(* a time and asks the host for its permission decisions.  Both channels   *)
(* between them hold one message.                                          *)
(*                                                                         *)
(* Operations are numbered in the order in which they are started, and a   *)
(* request is the operation and the round it asks in; a nonce is given to  *)
(* each request exactly once, so that the request stands for it.           *)
(***************************************************************************)
EXTENDS Naturals, Sequences, FiniteSets

CONSTANTS Callers,     \* threads of the host
          MaxOps,      \* bound: operations started on the handle
          MaxRounds,   \* bound: authorization requests of one operation
          Nil

ASSUME BoundsAssumption == MaxOps \in Nat /\ MaxRounds \in Nat \ {0}
ASSUME NilAssumption == /\ Nil \notin (1..MaxOps) \X (1..MaxRounds)
                         /\ Nil \notin Callers /\ Nil \notin BOOLEAN

Actions == {"insert", "query", "subscribe", "next", "unsubscribe"}
Requests == (1..MaxOps) \X (1..MaxRounds)

VARIABLES
    registered,   \* the handle is in the registry
    busy,         \* Handle.busy
    pending,      \* Handle.pending: the request whose nonce the host has been given
    lock,         \* who holds Handle.events
    commands,     \* the channel to the worker
    events,       \* the channel from it
    caller,       \* where each thread is in its call
    worker,       \* the worker task
    expired,      \* requests whose deadline has passed
    started,      \* operations started so far
    writes,       \* operations that appended to the log (history)
    grants,       \* requests the host has been given, and those it granted (history)
    answered      \* operations whose result a poll has returned (history)
handleVars == <<registered, busy, pending, lock, commands, events>>
historyVars == <<started, writes, grants, answered>>
wireVars == <<handleVars, caller, worker, expired, historyVars>>

Auth(r) == [type |-> "auth", op |-> r[1], request |-> r]
Result(op) == [type |-> "result", op |-> op, request |-> Nil]
Command(op, action) == [op |-> op, action |-> action]

NoWork == [pc |-> "recv", op |-> 0, action |-> "query", round |-> 0, reply |-> Nil,
           granted |-> FALSE, subscribed |-> FALSE]
Alive == worker.pc # "dead"
Request == <<worker.op, worker.round>>

WireInit ==
    /\ registered = TRUE /\ busy = FALSE /\ pending = Nil /\ lock = Nil
    /\ commands = << >> /\ events = << >>
    /\ caller = [c \in Callers |-> "idle"]
    /\ worker = NoWork
    /\ expired = {} /\ started = 0 /\ writes = {} /\ answered = {}
    /\ grants = [given |-> {}, yes |-> {}]

-----------------------------------------------------------------------------
(* stream_start *)

\* Mutant of StartOp: busy is tested and set later.
StartUnmarked(c) ==
    /\ registered /\ caller[c] = "idle" /\ ~busy /\ started < MaxOps
    /\ caller' = [caller EXCEPT ![c] = "send"]
    /\ UNCHANGED <<handleVars, worker, expired, historyVars>>

StartOp(c) ==
    /\ registered /\ caller[c] = "idle" /\ ~busy /\ started < MaxOps
    /\ busy' = TRUE
    /\ caller' = [caller EXCEPT ![c] = "send"]
    /\ UNCHANGED <<registered, pending, lock, commands, events, worker, expired, historyVars>>

\* try_send: the worker may be gone.
Send(c, action) ==
    /\ caller[c] = "send"
    /\ IF Alive /\ commands = << >>
       THEN /\ started' = started + 1
            /\ commands' = <<Command(started + 1, action)>>
            /\ UNCHANGED busy
       ELSE /\ busy' = FALSE
            /\ UNCHANGED <<started, commands>>
    /\ caller' = [caller EXCEPT ![c] = "idle"]
    /\ UNCHANGED <<registered, pending, lock, events, worker, expired, writes, grants, answered>>

-----------------------------------------------------------------------------
(* stream_poll: busy, pending and the lock are looked at one after the other. *)

PollBusy(c) ==
    /\ registered /\ caller[c] = "idle" /\ busy
    /\ caller' = [caller EXCEPT ![c] = "pollPending"]
    /\ UNCHANGED <<handleVars, worker, expired, historyVars>>

PollPending(c) ==
    /\ caller[c] = "pollPending"
    /\ caller' = [caller EXCEPT ![c] = IF pending = Nil THEN "pollLock" ELSE "idle"]
    /\ UNCHANGED <<handleVars, worker, expired, historyVars>>

PollLock(c) ==
    /\ caller[c] = "pollLock"
    /\ lock' = IF lock = Nil THEN c ELSE lock
    /\ caller' = [caller EXCEPT ![c] = IF lock = Nil THEN "poll" ELSE "idle"]
    /\ UNCHANGED <<registered, busy, pending, commands, events, worker, expired, historyVars>>

Unlock(c) == lock' = Nil /\ caller' = [caller EXCEPT ![c] = "idle"]

\* 25 ms pass.
PollTimeout(c) ==
    /\ caller[c] = "poll"
    /\ Unlock(c)
    /\ UNCHANGED <<registered, busy, pending, commands, events, worker, expired, historyVars>>

PollClosed(c) ==
    /\ caller[c] = "poll" /\ events = << >> /\ ~Alive
    /\ busy' = FALSE
    /\ Unlock(c)
    /\ UNCHANGED <<registered, pending, commands, events, worker, expired, historyVars>>

PollAuth(c) ==
    /\ caller[c] = "poll" /\ events # << >> /\ Head(events).type = "auth"
    /\ events' = Tail(events)
    /\ pending' = Head(events).request
    /\ grants' = [grants EXCEPT !.given = @ \cup {Head(events).request}]
    /\ Unlock(c)
    /\ UNCHANGED <<registered, busy, commands, worker, expired, started, writes, answered>>

PollResult(c) ==
    /\ caller[c] = "poll" /\ events # << >> /\ Head(events).type = "result"
    /\ events' = Tail(events)
    /\ busy' = FALSE
    /\ answered' = answered \cup {Head(events).op}
    /\ Unlock(c)
    /\ UNCHANGED <<registered, pending, commands, worker, expired, started, writes, grants>>

-----------------------------------------------------------------------------
(* stream_authorize and stream_close *)

\* The oneshot receiver is still there.
Listening(r) == worker.pc = "wait" /\ Request = r /\ worker.reply = Nil

\* Mutant of Authorize: the nonce is not compared.
AuthorizeAnything(r, yes) ==
    /\ registered /\ r \in grants.given /\ pending # Nil
    /\ pending' = Nil
    /\ worker' = IF pending \notin expired /\ Listening(pending)
                 THEN [worker EXCEPT !.reply = yes] ELSE worker
    /\ grants' = IF yes THEN [grants EXCEPT !.yes = @ \cup {r}] ELSE grants
    /\ UNCHANGED <<registered, busy, lock, commands, events, caller, expired, started, writes, answered>>

\* Mutant of Authorize: an expired request is not taken out of pending.
AuthorizeKeeping(r, yes) ==
    /\ registered /\ r \in grants.given /\ pending = r
    /\ pending' = IF r \in expired THEN pending ELSE Nil
    /\ worker' = IF r \notin expired /\ Listening(r)
                 THEN [worker EXCEPT !.reply = yes] ELSE worker
    /\ grants' = IF yes THEN [grants EXCEPT !.yes = @ \cup {r}] ELSE grants
    /\ UNCHANGED <<registered, busy, lock, commands, events, caller, expired, started, writes, answered>>

Authorize(r, yes) ==
    /\ registered /\ r \in grants.given /\ pending = r
    /\ pending' = Nil
    /\ worker' = IF r \notin expired /\ Listening(r)
                 THEN [worker EXCEPT !.reply = yes] ELSE worker
    /\ grants' = IF yes THEN [grants EXCEPT !.yes = @ \cup {r}] ELSE grants
    /\ UNCHANGED <<registered, busy, lock, commands, events, caller, expired, started, writes, answered>>

\* The task is aborted when it next runs.
Close ==
    /\ registered
    /\ registered' = FALSE
    /\ UNCHANGED <<busy, pending, lock, commands, events, caller, worker, expired, historyVars>>

Abort ==
    /\ ~registered /\ Alive
    /\ worker' = [NoWork EXCEPT !.pc = "dead"]
    /\ UNCHANGED <<handleVars, caller, expired, historyVars>>

-----------------------------------------------------------------------------
(* The worker *)

Quiet == UNCHANGED <<registered, busy, pending, lock, caller>>
Finish(w) == [w EXCEPT !.pc = "result", !.reply = Nil]

\* A command that does not fit the mode is answered with an error at once.
Fits(w, action) == IF w.subscribed THEN action \in {"next", "unsubscribe"}
                   ELSE action \in {"insert", "query", "subscribe"}
Take ==
    LET command == Head(commands)
        w == [worker EXCEPT !.pc = "run", !.op = command.op, !.action = command.action,
                            !.round = 0, !.granted = FALSE]
    IN  /\ worker.pc = "recv" /\ commands # << >>
        /\ commands' = Tail(commands)
        /\ worker' = IF Fits(worker, command.action) THEN w ELSE Finish(w)
        /\ Quiet /\ UNCHANGED <<events, expired, historyVars>>

\* HostAuth::check_many.  An insertion asks once; a query asks for each entity,
\* a batch once, or not at all.
Ask ==
    /\ worker.pc = "run"
    /\ \/ worker.action \in {"insert", "next"} /\ worker.round = 0
       \/ worker.action = "query" /\ worker.round < MaxRounds
    /\ events = << >>
    /\ events' = <<Auth(<<worker.op, worker.round + 1>>)>>
    /\ worker' = [worker EXCEPT !.pc = "wait", !.round = @ + 1]
    /\ Quiet /\ UNCHANGED <<commands, expired, historyVars>>

\* The deadline of the request passes.
Expire ==
    /\ worker.pc = "wait" /\ Request \notin expired
    /\ expired' = expired \cup {Request}
    /\ UNCHANGED <<handleVars, caller, worker, historyVars>>

\* Mutant of Decide: a ready answer is taken without looking at the clock.
DecideLate ==
    /\ worker.pc = "wait" /\ worker.reply # Nil
    /\ worker' = IF worker.action = "insert" /\ ~worker.reply THEN Finish(worker)
                 ELSE [worker EXCEPT !.pc = "run", !.reply = Nil, !.granted = worker.reply]
    /\ Quiet /\ UNCHANGED <<commands, events, expired, historyVars>>

\* The decisions are there: they count if the deadline has not passed.
Decide ==
    /\ worker.pc = "wait" /\ worker.reply # Nil
    /\ worker' = IF Request \in expired \/ (worker.action = "insert" /\ ~worker.reply)
                 THEN Finish(worker)
                 ELSE [worker EXCEPT !.pc = "run", !.reply = Nil, !.granted = worker.reply]
    /\ Quiet /\ UNCHANGED <<commands, events, expired, historyVars>>

\* The deadline, or the sender of the answer was dropped.
GiveUp ==
    /\ worker.pc = "wait" /\ worker.reply = Nil
    /\ \/ Request \in expired
       \/ pending # Request /\ \A i \in 1..Len(events) : events[i].request # Request
    /\ worker' = Finish(worker)
    /\ Quiet /\ UNCHANGED <<commands, events, expired, historyVars>>

\* A query has a timeout of its own.
QueryTimeout ==
    /\ worker.pc \in {"run", "wait"} /\ worker.action = "query"
    /\ worker' = Finish(worker)
    /\ Quiet /\ UNCHANGED <<commands, events, expired, historyVars>>

\* The operation itself.
Run ==
    /\ worker.pc = "run"
    /\ worker.action = "insert" => worker.granted
    /\ writes' = IF worker.action = "insert" THEN writes \cup {worker.op} ELSE writes
    /\ worker' = [Finish(worker) EXCEPT !.subscribed =
                     CASE worker.action = "subscribe" -> TRUE
                       [] worker.action = "unsubscribe" -> FALSE
                       [] OTHER -> @]
    /\ Quiet /\ UNCHANGED <<commands, events, expired, started, grants, answered>>

\* The operation fails before, or in, its last step.
RunFails ==
    /\ worker.pc = "run" /\ worker.action # "unsubscribe"
    /\ worker' = Finish(worker)
    /\ Quiet /\ UNCHANGED <<commands, events, expired, historyVars>>

SendResult ==
    /\ worker.pc = "result" /\ events = << >>
    /\ events' = <<Result(worker.op)>>
    /\ worker' = [NoWork EXCEPT !.subscribed = worker.subscribed]
    /\ Quiet /\ UNCHANGED <<commands, expired, historyVars>>

WireNext ==
    \/ \E c \in Callers :
          \/ StartOp(c) \/ (\E action \in Actions : Send(c, action))
          \/ PollBusy(c) \/ PollPending(c) \/ PollLock(c)
          \/ PollTimeout(c) \/ PollClosed(c) \/ PollAuth(c) \/ PollResult(c)
    \/ \E r \in Requests, yes \in BOOLEAN : Authorize(r, yes)
    \/ Close \/ Abort
    \/ Take \/ Ask \/ Expire \/ Decide \/ GiveUp \/ QueryTimeout \/ Run \/ RunFails \/ SendResult

WireSpec == WireInit /\ [][WireNext]_wireVars

-----------------------------------------------------------------------------
(* Properties. *)

CallerStates == {"idle", "send", "pollPending", "pollLock", "poll"}
WorkerStates == [pc : {"recv", "run", "wait", "result", "dead"}, op : 0..MaxOps, action : Actions,
                 round : 0..MaxRounds, reply : BOOLEAN \cup {Nil}, granted : BOOLEAN,
                 subscribed : BOOLEAN]
Events == [type : {"auth"}, op : 1..MaxOps, request : Requests]
             \cup [type : {"result"}, op : 1..MaxOps, request : {Nil}]

\* Every variable keeps its type; neither channel ever holds two messages, and
\* the lock is held by the thread that receives.
WireTypeOK ==
    /\ registered \in BOOLEAN /\ busy \in BOOLEAN /\ pending \in Requests \cup {Nil}
    /\ caller \in [Callers -> CallerStates]
    /\ \A c \in Callers : caller[c] = "poll" <=> lock = c
    /\ commands \in Seq([op : 1..MaxOps, action : Actions]) /\ Len(commands) <= 1
    /\ events \in Seq(Events) /\ Len(events) <= 1
    /\ worker \in WorkerStates /\ expired \subseteq Requests
    /\ started \in 0..MaxOps /\ writes \subseteq 1..MaxOps /\ answered \subseteq 1..MaxOps

\* Only one operation is outstanding: whatever is on its way to the worker, in
\* it or on its way back belongs to the operation started last, and then the
\* handle is busy and no result of that operation has been returned; a thread
\* that starts one is alone, and always finds room for its command.
Outstanding == {commands[i].op : i \in 1..Len(commands)} \cup {events[i].op : i \in 1..Len(events)}
                  \cup (IF worker.pc \in {"run", "wait", "result"} THEN {worker.op} ELSE {})
Starting == {c \in Callers : caller[c] = "send"}
OneOperationOutstanding ==
    /\ \A op \in Outstanding : op = started /\ op \notin answered /\ (Alive => busy)
    /\ Alive /\ Starting # {} => busy /\ Outstanding = {} /\ Cardinality(Starting) = 1

\* Nothing is appended to the log without the host's yes to the request of that
\* very operation.
WritesAreGranted == \A op \in writes : \E r \in grants.yes : r[1] = op

\* A late grant never turns into a write: an insertion goes ahead only on an
\* answer it takes before its deadline.
NoLateGrant ==
    [][worker'.granted /\ ~worker.granted => Request \notin expired]_wireVars

\* The host polls, and answers what it is asked; the worker's steps and the
\* answers of its broker come.
WireFairness ==
    /\ \A c \in Callers :
          /\ WF_wireVars(\E action \in Actions : Send(c, action))
          /\ WF_wireVars(PollBusy(c)) /\ WF_wireVars(PollPending(c)) /\ WF_wireVars(PollLock(c))
          /\ WF_wireVars(PollTimeout(c)) /\ WF_wireVars(PollClosed(c))
    /\ SF_wireVars(\E c \in Callers : PollAuth(c) \/ PollResult(c))
    /\ WF_wireVars(\E r \in Requests, yes \in BOOLEAN : Authorize(r, yes))
    /\ WF_wireVars(Abort) /\ WF_wireVars(Take) /\ WF_wireVars(Expire)
    /\ WF_wireVars(Decide) /\ WF_wireVars(GiveUp)
    /\ WF_wireVars(Ask \/ Run \/ RunFails) /\ WF_wireVars(SendResult)
WireLiveSpec == WireSpec /\ WireFairness

\* Every operation that is started is answered, unless the handle is closed:
\* whichever of the threads polls, and whatever expires in between.
EveryOperationIsAnswered ==
    \A op \in 1..MaxOps : started = op ~> op \in answered \/ ~registered
=============================================================================
