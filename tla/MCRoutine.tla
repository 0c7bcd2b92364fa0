----------------------------- MODULE MCRoutine -----------------------------
(* Instances of Routine for TLC: the main thread creates a, a creates b and c. *)
EXTENDS Routine

CONSTANTS a, b, c

Tree == [t \in Threads |-> IF t = a THEN Main ELSE a]
=============================================================================
