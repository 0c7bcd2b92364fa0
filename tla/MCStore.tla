------------------------------ MODULE MCStore ------------------------------
(* Store for TLC: threads and keys are interchangeable. *)
EXTENDS Store, TLC

Symmetry == Permutations(Threads) \cup Permutations(Keys)
=============================================================================
