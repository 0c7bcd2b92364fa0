-------------------------------- MODULE Pool --------------------------------
(***************************************************************************)
(* Pool (classes/pool.c): an array of workers indexed by number, filled    *)
(* round robin.  All calls are made by the one thread that owns the pool,  *)
(* while the workers run the tasks.                                        *)
(***************************************************************************)
EXTENDS Integers, FiniteSets

CONSTANTS
  MaxSize,    \* bound on the sizes a program asks for
  MaxTasks    \* bound on the calls of submit and submitTo

ASSUME PoolAssumption == MaxSize \in Nat \ {0} /\ MaxTasks \in Nat

VARIABLES
  size, last, \* the properties of the same name
  workers,    \* the property workers: a function on the indices in use
  pc, newsize, \* "resize" inside the loop of Pool::resize, and its argument
  submitted,  \* how many tasks were submitted
  shrunk,     \* history: the program has shrunk the pool or shut it down
  regrown,    \* history: it has grown a pool it had shrunk, or submitted to one
              \* it had emptied
  peak        \* history: the largest size the pool ever had, and at least 1

history == <<shrunk, regrown, peak>>
vars == <<size, last, workers, pc, newsize, submitted, history>>

\* A worker: whether its thread runs, the tasks not yet collected from it, and
\* how many of these are finished.
WorkerStates == {"started", "unstarted", "crashed"}
WorkerRecord == [state : WorkerStates, tasks : Nat, finished : Nat]

Empty == [i \in {} |-> 0]
Put(i, v) == [j \in DOMAIN workers \cup {i} |-> IF j = i THEN v ELSE workers[j]]
Without(i) == [j \in DOMAIN workers \ {i} |-> workers[j]]

Init ==
  /\ size \in 1..MaxSize
  /\ last = 0
  /\ workers = Empty
  /\ pc = "idle" /\ newsize = 0
  /\ submitted = 0
  /\ shrunk = FALSE /\ regrown = FALSE
  /\ peak = size

-----------------------------------------------------------------------------
\* Worker::stack refuses the task of a worker that crashed.
Stacked(w) == IF w.state = "crashed" THEN w ELSE [w EXCEPT !.tasks = @ + 1]

\* Mutants of Selected: the counter wraps at the largest size, whatever the pool
\* was resized to, or one past the size.
SelectedOfLargest == IF last >= MaxSize THEN 0 ELSE last
SelectedPast == IF last > size THEN 0 ELSE last

Selected == IF last >= size THEN 0 ELSE last

\* Pool::submit.  The worker is created on demand; a worker whose thread could
\* not be started is stored all the same, and the task is then not stacked.
Submit ==
  /\ pc = "idle" /\ submitted < MaxTasks
  /\ IF Selected \in DOMAIN workers
     THEN workers' = Put(Selected, Stacked(workers[Selected]))
     ELSE \/ workers' = Put(Selected, [state |-> "started", tasks |-> 1,
                                       finished |-> 0])
          \/ workers' = Put(Selected, [state |-> "unstarted", tasks |-> 0,
                                       finished |-> 0])
  /\ last' = Selected + 1
  /\ submitted' = submitted + 1
  /\ regrown' = (regrown \/ (shrunk /\ workers = Empty))
  /\ UNCHANGED <<size, pc, newsize, shrunk, peak>>

\* Pool::submitTo, of a worker that exists.
SubmitTo(i) ==
  /\ pc = "idle" /\ submitted < MaxTasks
  /\ i \in DOMAIN workers
  /\ workers' = Put(i, Stacked(workers[i]))
  /\ submitted' = submitted + 1
  /\ UNCHANGED <<size, last, pc, newsize, history>>

Collected(w) == [w EXCEPT !.tasks = @ - w.finished, !.finished = 0]

\* Pool::collect with the default collector, which accepts every finished task.
Collect ==
  /\ pc = "idle"
  /\ workers' = [i \in DOMAIN workers |-> Collected(workers[i])]
  /\ UNCHANGED <<size, last, pc, newsize, submitted, history>>

\* Pool::shutdown: every worker runs its tasks, ends and is removed.
Shutdown ==
  /\ pc = "idle"
  /\ workers' = Empty
  /\ shrunk' = TRUE
  /\ UNCHANGED <<size, last, pc, newsize, submitted, regrown, peak>>

\* Pool::resize, up to the loop.
Resize(n) ==
  /\ pc = "idle"
  /\ newsize' = n
  /\ shrunk' = (shrunk \/ n < size)
  /\ regrown' = (regrown \/ (shrunk /\ n > size))
  /\ peak' = IF n > peak THEN n ELSE peak
  /\ IF n < Cardinality(DOMAIN workers)
     THEN pc' = "resize" /\ UNCHANGED size
     ELSE size' = n /\ UNCHANGED pc
  /\ UNCHANGED <<last, workers, submitted>>

\* Mutants of Top: the number of workers is taken for the index of the last one,
\* or the worker started first is removed.
TopTooHigh == Cardinality(DOMAIN workers)
TopFirst == 0

Top == Cardinality(DOMAIN workers) - 1

\* A turn of its loop: the worker with that index, if there is one, is shut down
\* and removed.
ResizeTurn ==
  /\ pc = "resize"
  /\ workers' = Without(Top)
  /\ IF Cardinality(DOMAIN workers') = newsize
     THEN pc' = "idle" /\ size' = newsize
     ELSE UNCHANGED <<pc, size>>
  /\ UNCHANGED <<last, newsize, submitted, history>>

\* A task of a started worker finishes, or fails and takes the worker with it.
TaskEnds(i, state) ==
  /\ i \in DOMAIN workers
  /\ workers[i].state = "started" /\ workers[i].finished < workers[i].tasks
  /\ workers' = Put(i, [workers[i] EXCEPT !.finished = @ + 1, !.state = state])
  /\ UNCHANGED <<size, last, pc, newsize, submitted, history>>

Next ==
  \/ Submit
  \/ \E i \in DOMAIN workers : SubmitTo(i)
  \/ Collect
  \/ Shutdown
  \/ \E n \in 0..MaxSize : Resize(n)
  \/ ResizeTurn
  \/ \E i \in DOMAIN workers : \E s \in {"started", "crashed"} : TaskEnds(i, s)

Spec == Init /\ [][Next]_vars

\* The thread in the loop of resize() goes on with it: the joins in it end.
FairSpec == Spec /\ WF_vars(ResizeTurn)

-----------------------------------------------------------------------------
(* Properties.                                                             *)

\* The types of the pool's properties.
TypeOK ==
  /\ size \in 0..MaxSize
  /\ last \in 0..MaxSize
  /\ DOMAIN workers \subseteq 0..MaxSize
  /\ \A i \in DOMAIN workers : workers[i] \in WorkerRecord
  /\ pc \in {"idle", "resize"}
  /\ newsize \in 0..MaxSize
  /\ submitted \in 0..MaxTasks
  /\ shrunk \in BOOLEAN /\ regrown \in BOOLEAN
  /\ peak \in 1..MaxSize

\* The indices in use are 0 to n - 1.
Contiguous == DOMAIN workers = 0..Cardinality(DOMAIN workers) - 1

\* As long as the program has not grown a pool it had shrunk, nor submitted to
\* one it had emptied, the indices in use are contiguous: the counter of submit(),
\* which resize() and shutdown() leave alone, never points past the next free one.
ContiguousUnlessRegrown == ~regrown => Contiguous

\* As long as that is so, there are no more workers than "the maximum number of
\* Worker threads allowed in this Pool" (stubs/Pool.stub.php) between the calls; a
\* pool of size 0 still makes the worker that submit() needs.
WithinSizeUnlessRegrown ==
  ~regrown /\ pc = "idle" =>
    Cardinality(DOMAIN workers) <= (IF size = 0 THEN 1 ELSE size)

\* Whatever the program does, submit() makes no worker past the largest size the
\* pool ever had, so that their number stays within it.
WithinPeak ==
  DOMAIN workers \subseteq 0..peak - 1 /\ Cardinality(DOMAIN workers) <= peak

\* Pool::resize returns, whatever the pool went through before, if the indices
\* are contiguous when its loop begins.
ResizeTerminates == pc = "resize" /\ Contiguous ~> pc = "idle"

\* "the last workers started will be shutdown until the pool is the requested
\* size" (classes/pool.c): the loop of resize() finds the worker it is to remove,
\* without which the number of workers stays the same and the loop never ends.
RemovesLast == pc = "resize" => Top \in DOMAIN workers
=============================================================================
