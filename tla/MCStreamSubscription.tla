----------------------- MODULE MCStreamSubscription -----------------------
(* Model-checking instance of StreamSubscription. *)
EXTENDS StreamSubscription, TLC

MCSymmetry == Permutations(Entities) \cup Permutations(Payloads) \cup Permutations(Partitions)
=============================================================================
