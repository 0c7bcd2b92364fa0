------------------------------ MODULE TaskLife ------------------------------
(***************************************************************************)
(* What workers promise about the items stacked on them, whoever does what *)
(* when: an item is queued on one worker, runs there at most once, in the  *)
(* order of stacking and one at a time, and can be collected only after it *)
(* ran, in the order in which the items finished.  Worker implements this. *)
(***************************************************************************)
EXTENDS Naturals, FiniteSets

CONSTANTS
  Workers,
  MaxItems    \* items are numbered in the order of stacking

Ids == 1..MaxItems

VARIABLES
  place,      \* where each item is
  count       \* how many items were stacked so far

vars == <<place, count>>

At(w, st) == [st |-> st, on |-> w]
New  == [st |-> "new"]
Out  == [st |-> "out"]      \* taken back, collected, or freed with the worker

On(w, st) == {i \in Ids : place[i] = At(w, st)}

\* i is the first item of w in that state.
First(w, st, i) == i \in On(w, st) /\ \A j \in On(w, st) : i <= j

Move(i, to) == place' = [place EXCEPT ![i] = to] /\ UNCHANGED count

Init == place = [i \in Ids |-> New] /\ count = 0

Stack(w) ==
  /\ count < MaxItems
  /\ count' = count + 1
  /\ place' = [place EXCEPT ![count + 1] = At(w, "queued")]

Withdraw(w) == \E i \in Ids : First(w, "queued", i) /\ Move(i, Out)

Begin(w) ==
  /\ On(w, "running") = {}
  /\ \E i \in Ids : First(w, "queued", i) /\ Move(i, At(w, "running"))

Finish(w) ==
  \E i \in On(w, "running") : Move(i, At(w, "finished"))

\* A collection takes every finished item up to some item i.
Collect(w) ==
  \E i \in On(w, "finished") :
    /\ place' = [j \in Ids |->
                   IF j <= i /\ j \in On(w, "finished") THEN Out ELSE place[j]]
    /\ UNCHANGED count

\* The worker is freed, which it is only while nothing runs on it.
Discard(w) ==
  /\ On(w, "running") = {}
  /\ place' = [i \in Ids |->
                 IF i \in On(w, "queued") \cup On(w, "finished") THEN Out
                                                                 ELSE place[i]]
  /\ UNCHANGED count

Next ==
  \E w \in Workers :
    Stack(w) \/ Withdraw(w) \/ Begin(w) \/ Finish(w) \/ Collect(w) \/ Discard(w)

Spec == Init /\ [][Next]_vars
=============================================================================
