------------------------- MODULE GraphTransactions -------------------------
(***************************************************************************)
(* What the managed graph engine promises its clients, without revisions,  *)
(* checkpoints, overlay records or caches: every session works on a copy   *)
(* of the committed graph taken when its transaction began, each statement *)
(* changes that copy as a whole, and a commit that wrote replaces the      *)
(* committed graph only when no other session has done so since.           *)
(***************************************************************************)
EXTENDS Naturals

CONSTANTS Keys, Engines, Imports

VARIABLES graph, version, session
vars == <<graph, version, session>>

NoSession == [active |-> FALSE, view |-> [k \in Keys |-> 0], base |-> 0, dirty |-> FALSE]

\* A statement: every element it touches gets its next contents.
Touch(g, K) == [k \in Keys |-> IF k \in K THEN g[k] + 1 ELSE g[k]]

Init ==
    /\ graph = [k \in Keys |-> 0]
    /\ version = 0
    /\ session = [e \in Engines |-> NoSession]

Begin(e) ==
    /\ ~session[e].active
    /\ session' = [session EXCEPT ![e] = [active |-> TRUE, view |-> graph,
                                          base |-> version, dirty |-> FALSE]]
    /\ UNCHANGED <<graph, version>>

Write(e) ==
    /\ session[e].active
    /\ \E g \in {Touch(session[e].view, K) : K \in SUBSET Keys} \cup Imports :
          session' = [session EXCEPT ![e] = [active |-> TRUE, view |-> g,
                                             base |-> session[e].base, dirty |-> TRUE]]
    /\ UNCHANGED <<graph, version>>

Commit(e) ==
    /\ session[e].active
    /\ session[e].dirty => session[e].base = version
    /\ graph' = IF session[e].dirty THEN session[e].view ELSE graph
    /\ version' = IF session[e].dirty THEN version + 1 ELSE version
    /\ session' = [session EXCEPT ![e] = NoSession]

\* Rollback, failure, cancellation, close; a crash aborts every session.
Abort(S) ==
    /\ session' = [e \in Engines |-> IF e \in S THEN NoSession ELSE session[e]]
    /\ UNCHANGED <<graph, version>>

Next ==
    \/ \E e \in Engines : Begin(e) \/ Write(e) \/ Commit(e)
    \/ \E S \in SUBSET Engines : Abort(S)

Spec == Init /\ [][Next]_vars
=============================================================================
