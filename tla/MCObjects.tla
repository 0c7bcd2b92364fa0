----------------------------- MODULE MCObjects -----------------------------
(* Objects for TLC.  Nothing distinguishes two threads, two addresses or two   *)
(* boxes.                                                                      *)
EXTENDS Objects, TLC

Symmetry == Permutations(Threads) \cup Permutations(Addrs) \cup Permutations(Boxes)
=============================================================================
