---------------------------- MODULE MCOrchidGraph ----------------------------
(* Instances of OrchidGraph for TLC. *)
EXTENDS OrchidGraph, TLC

Symmetry == Permutations(Threads)
=============================================================================
