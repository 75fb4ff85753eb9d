-------------------------- MODULE MCManagedEngine --------------------------
(* Model-checking instance of ManagedEngine. *)
EXTENDS ManagedEngine

\* The only import is the empty graph: the one that brings old contents back.
MCImports == {EmptyGraph}
=============================================================================
