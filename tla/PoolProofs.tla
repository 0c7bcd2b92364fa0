----------------------------- MODULE PoolProofs -----------------------------
(***************************************************************************)
(* The workers of a pool, for every size and number of tasks: their number *)
(* is within the largest size the pool ever had whatever the program does, *)
(* and their indices are contiguous and within the size until the program  *)
(* grows a pool it had shrunk or submits to one it had emptied.            *)
(***************************************************************************)
EXTENDS Pool, FiniteSetTheorems, TLAPS

\* The number of workers.
Count == Cardinality(DOMAIN workers)

\* A worker has finished no more tasks than it was given.
TasksFit ==
  \A i \in DOMAIN workers :
    workers[i] \in WorkerRecord /\ workers[i].finished <= workers[i].tasks

\* The counter of submit() is at most one past the last worker, as far as the next
\* submit() will use it; and resize() is in its loop only to remove workers.
LastFits ==
  /\ size = 0 => shrunk
  /\ ~shrunk => last <= Count
  /\ pc = "idle" /\ last < size /\ ~(shrunk /\ workers = Empty) => last <= Count
  /\ pc = "resize" => newsize < Count /\ shrunk

\* What holds until the program regrows a pool. That the indices are contiguous is
\* not inductive by itself: submit() takes the next index from a counter that
\* resize() and shutdown() leave alone, so the counter must be known to point into
\* the array or just past it whenever submit() will use it.
Tight ==
  /\ Count \in Nat /\ DOMAIN workers = 0..Count - 1
  /\ pc = "idle" => Count <= (IF size = 0 THEN 1 ELSE size)
  /\ LastFits

\* What holds whatever the program does: no index, and no size that is in force or
\* about to be, is beyond the largest size.
Peaks ==
  /\ DOMAIN workers \subseteq 0..peak - 1
  /\ size <= peak /\ newsize <= peak

\* The inductive invariant.
IInv == TypeOK /\ TasksFit /\ Peaks /\ (~regrown => Tight)

\* Counting from 0.
LEMMA Interval == ASSUME NEW n \in Nat PROVE Cardinality(0..n - 1) = n
  BY FS_Interval

\* The step leaves the indices in use as they are.
LEMMA SameIndices ==
  ASSUME IInv, DOMAIN workers' = DOMAIN workers, workers = Empty <=> workers' = Empty,
         UNCHANGED <<size, last, pc, newsize, history>>
  PROVE  Peaks' /\ (~regrown' => Tight')
  BY Zenon DEF IInv, Count, Peaks, Tight, LastFits, history

\* Storing a worker adds its index at most.
LEMMA PutDomain ==
  ASSUME NEW i, NEW v, workers' = Put(i, v)
  PROVE  DOMAIN workers' = DOMAIN workers \cup {i}
  BY DEF Put

\* Storing a worker with a plausible number of finished tasks.
LEMMA PutTasks ==
  ASSUME TasksFit, NEW i, NEW v \in WorkerRecord, v.finished <= v.tasks,
         workers' = Put(i, v)
  PROVE  TasksFit'
  BY DEF TasksFit, Put

\* An array with an index in use is not empty.
LEMMA NonEmpty == ASSUME NEW i \in DOMAIN workers PROVE workers # Empty
  BY DEF Empty

\* Pool::submit uses an index below the size, or 0.
LEMMA SubmitTypes ==
  ASSUME IInv, Submit
  PROVE  /\ TypeOK' /\ TasksFit' /\ Peaks'
         /\ Selected \in 0..MaxSize - 1
         /\ workers' # Empty /\ DOMAIN workers' = DOMAIN workers \cup {Selected}
<1> DEFINE w == workers[Selected]
<1>1. Selected \in 0..MaxSize - 1 /\ Selected \in 0..peak - 1
  BY PoolAssumption DEF IInv, TypeOK, Peaks, Selected, Submit
<1>2. workers' # Empty /\ DOMAIN workers' = DOMAIN workers \cup {Selected}
  <2>1. PICK v : workers' = Put(Selected, v)
    BY Zenon DEF Submit
  <2> QED
    BY <2>1 DEF Put, Empty
<1>3. TasksFit'
  <2>1. CASE Selected \in DOMAIN workers
    <3>1. Stacked(w) \in WorkerRecord /\ Stacked(w).finished <= Stacked(w).tasks
      BY <2>1 DEF IInv, TasksFit, Stacked, WorkerRecord, WorkerStates
    <3> QED
      BY <2>1, <3>1, PutTasks DEF Submit, IInv
  <2>2. CASE Selected \notin DOMAIN workers
    BY <2>2, PutTasks DEF Submit, IInv, WorkerRecord, WorkerStates
  <2> QED
    BY <2>1, <2>2, Zenon
<1>4. TypeOK'
  BY <1>1, <1>2, <1>3, PoolAssumption DEF IInv, TypeOK, TasksFit, Submit
<1>5. Peaks'
  BY <1>1, <1>2 DEF IInv, Peaks, Submit
<1> QED
  BY <1>1, <1>2, <1>3, <1>4, <1>5, Zenon

\* Until the pool is regrown, Pool::submit either finds the worker of its index or
\* adds the one just past the last.
LEMMA SubmitStep == ASSUME IInv, Submit PROVE IInv'
<1>0. TypeOK' /\ TasksFit' /\ Peaks'
  BY SubmitTypes, Zenon
<1> SUFFICES ASSUME ~regrown' PROVE Tight'
  BY <1>0, Zenon DEF IInv
<1>1. Tight /\ ~(shrunk /\ workers = Empty)
  BY DEF IInv, TypeOK, Submit
<1>2. Selected \in 0..MaxSize - 1 /\ Selected <= Count
  BY <1>1, SubmitTypes DEF IInv, TypeOK, Tight, LastFits, Selected, Submit
<1>3. workers' # Empty /\ DOMAIN workers' = DOMAIN workers \cup {Selected}
  BY SubmitTypes, Zenon
<1>4. CASE Selected \in DOMAIN workers
  <2>1. DOMAIN workers' = DOMAIN workers
    BY <1>3, <1>4
  <2>2. Count' = Count
    BY <2>1 DEF Count
  <2>3. Selected < Count
    BY <1>1, <1>2, <1>4 DEF Tight
  <2>4. last' <= Count'
    BY <1>1, <1>2, <2>2, <2>3 DEF Tight, Submit
  <2> QED
    BY <1>1, <2>1, <2>2, <2>4 DEF Tight, LastFits, Submit
<1>5. CASE Selected \notin DOMAIN workers
  <2>1. Selected = Count
    BY <1>1, <1>2, <1>5 DEF Tight
  <2>2. DOMAIN workers' = 0..(Count + 1) - 1
    BY <1>1, <1>3, <2>1 DEF Tight
  <2>3. Count' = Count + 1
    BY <1>1, <2>2, Interval DEF Tight, Count
  <2>4. Count' <= (IF size' = 0 THEN 1 ELSE size')
    BY <2>1, <2>3 DEF IInv, TypeOK, Submit, Selected
  <2> QED
    BY <1>1, <1>2, <2>1, <2>2, <2>3, <2>4 DEF Tight, IInv, TypeOK, LastFits, Submit
<1> QED
  BY <1>4, <1>5, Zenon

\* A step that replaces a worker of the pool.
LEMMA PutStep ==
  ASSUME IInv, NEW i \in DOMAIN workers, NEW v \in WorkerRecord, v.finished <= v.tasks,
         workers' = Put(i, v), submitted' \in 0..MaxTasks,
         UNCHANGED <<size, last, pc, newsize, history>>
  PROVE  IInv'
<1>1. DOMAIN workers' = DOMAIN workers
  BY PutDomain
<1>2. workers # Empty /\ workers' # Empty
  BY <1>1, NonEmpty DEF Empty
<1>3. TasksFit'
  BY PutTasks DEF IInv
<1> QED
  BY <1>1, <1>2, <1>3, SameIndices DEF IInv, TypeOK, TasksFit, history

\* Pool::submitTo gives a task to a worker that exists.
LEMMA SubmitToStep == ASSUME IInv, NEW i \in DOMAIN workers, SubmitTo(i) PROVE IInv'
<1>1. /\ Stacked(workers[i]) \in WorkerRecord
      /\ Stacked(workers[i]).finished <= Stacked(workers[i]).tasks
  BY DEF IInv, TasksFit, Stacked, WorkerRecord, WorkerStates
<1>2. submitted' \in 0..MaxTasks
  BY PoolAssumption DEF IInv, TypeOK, SubmitTo
<1> QED
  BY <1>1, <1>2, PutStep DEF SubmitTo

\* A change of one field keeps the record a record.
LEMMA FieldSet ==
  ASSUME NEW w \in WorkerRecord
  PROVE  /\ \A s \in WorkerStates : [w EXCEPT !.state = s] \in WorkerRecord
         /\ \A n \in Nat : [w EXCEPT !.tasks = n] \in WorkerRecord
         /\ \A n \in Nat : [w EXCEPT !.finished = n] \in WorkerRecord
  BY DEF WorkerRecord

\* A task of a worker ends.
LEMMA TaskEndsStep ==
  ASSUME IInv, NEW i \in DOMAIN workers, NEW s \in {"started", "crashed"}, TaskEnds(i, s)
  PROVE  IInv'
<1> DEFINE v == [workers[i] EXCEPT !.finished = @ + 1, !.state = s]
<1>1. workers[i] \in WorkerRecord /\ workers[i].finished < workers[i].tasks
  BY DEF IInv, TasksFit, TaskEnds
<1>2. v \in WorkerRecord /\ v.finished <= v.tasks
  <2>1. workers[i].finished + 1 \in Nat /\ s \in WorkerStates
    BY <1>1 DEF WorkerRecord, WorkerStates
  <2>2. [workers[i] EXCEPT !.finished = @ + 1] \in WorkerRecord
    BY <1>1, <2>1, FieldSet, Zenon
  <2>3. v \in WorkerRecord
    BY <2>1, <2>2, FieldSet, Zenon
  <2>4. v.finished <= v.tasks
    BY <1>1 DEF WorkerRecord
  <2> QED
    BY <2>3, <2>4, Zenon
<1> QED
  BY <1>2, PutStep DEF TaskEnds, IInv, TypeOK

\* Pool::collect forgets the finished tasks.
LEMMA CollectStep == ASSUME IInv, Collect PROVE IInv'
<1>1. DOMAIN workers' = DOMAIN workers
  BY DEF Collect
<1>2. TasksFit'
  <2> SUFFICES ASSUME NEW i \in DOMAIN workers
               PROVE  /\ workers'[i] \in WorkerRecord
                      /\ workers'[i].finished <= workers'[i].tasks
    BY <1>1, Zenon DEF TasksFit
  <2>1. workers'[i] = Collected(workers[i])
    BY DEF Collect
  <2>2. workers[i] \in WorkerRecord /\ workers[i].finished <= workers[i].tasks
    BY Zenon DEF IInv, TasksFit
  <2>3. workers[i].tasks - workers[i].finished \in Nat /\ 0 \in Nat
    BY <2>2 DEF WorkerRecord
  <2>4. [workers[i] EXCEPT !.tasks = @ - workers[i].finished] \in WorkerRecord
    BY <2>2, <2>3, FieldSet, Zenon
  <2>5. workers'[i] \in WorkerRecord
    BY <2>1, <2>3, <2>4, FieldSet, Zenon DEF Collected
  <2>6. workers'[i].finished <= workers'[i].tasks
    BY <2>1, <2>2 DEF Collected, WorkerRecord
  <2> QED
    BY <2>5, <2>6, Zenon
<1>3. workers = Empty <=> workers' = Empty
  <2>1. ASSUME NEW i \in DOMAIN workers PROVE workers # Empty /\ workers' # Empty
    BY <1>1, NonEmpty DEF Empty
  <2>2. CASE DOMAIN workers = {}
    BY <2>2 DEF Collect, Empty, Collected
  <2> QED
    BY <2>1, <2>2
<1> QED
  BY <1>1, <1>2, <1>3, SameIndices DEF IInv, TypeOK, TasksFit, Collect, history

\* Pool::shutdown empties the pool; the counter of submit() stays.
LEMMA ShutdownStep == ASSUME IInv, Shutdown PROVE IInv'
<1>1. DOMAIN workers' = {} /\ DOMAIN workers' = 0..0 - 1
  BY DEF Shutdown, Empty
<1>2. Count' = 0
  BY <1>1, Interval DEF Count
<1>3. TypeOK' /\ TasksFit' /\ Peaks'
  BY <1>1 DEF IInv, TypeOK, TasksFit, Peaks, Shutdown
<1> QED
  BY <1>1, <1>2, <1>3 DEF IInv, TypeOK, Tight, LastFits, Shutdown

\* Pool::resize, up to the loop.
LEMMA ResizeStep == ASSUME IInv, NEW n \in 0..MaxSize, Resize(n) PROVE IInv'
<1>1. workers' = workers /\ Count' = Count
  BY DEF Resize, Count
<1>2. TypeOK' /\ TasksFit' /\ Peaks'
  BY <1>1 DEF IInv, TypeOK, TasksFit, Peaks, Resize
<1> SUFFICES ASSUME ~regrown' PROVE Tight'
  BY <1>2, Zenon DEF IInv
<1>3. Tight /\ (shrunk => n <= size)
  BY DEF IInv, TypeOK, Resize
<1>4. CASE n < Count
  <2>1. shrunk \/ n < size
    BY <1>3, <1>4 DEF IInv, TypeOK, Tight, LastFits, Resize
  <2> QED
    BY <1>1, <1>3, <1>4, <2>1 DEF IInv, TypeOK, Tight, LastFits, Resize, Count
<1>5. CASE ~(n < Count)
  <2>1. pc' = "idle" /\ size' = n /\ (shrunk' <=> shrunk \/ n < size)
    BY <1>5 DEF Resize, Count
  <2>2. size' = 0 => shrunk'
    BY <1>3, <2>1 DEF IInv, TypeOK, Tight, LastFits
  <2>3. ~shrunk' => last <= Count
    BY <1>3, <2>1 DEF Tight, LastFits
  <2>4. last < n /\ ~(shrunk' /\ workers = Empty) => last <= Count
    BY <1>3, <2>1 DEF IInv, TypeOK, Tight, LastFits, Resize
  <2>5. Count' <= (IF size' = 0 THEN 1 ELSE size')
    BY <1>1, <1>3, <1>5, <2>1 DEF Tight
  <2> QED
    BY <1>1, <1>3, <2>1, <2>2, <2>3, <2>4, <2>5 DEF Tight, LastFits, Resize
<1> QED
  BY <1>4, <1>5, Zenon

\* A turn of the loop of Pool::resize removes the worker with the highest index,
\* if the indices are contiguous.
LEMMA ResizeTurnStep == ASSUME IInv, ResizeTurn PROVE IInv'
<1>1. TypeOK' /\ TasksFit' /\ Peaks'
  BY DEF IInv, TypeOK, TasksFit, Peaks, ResizeTurn, Without, history
<1> SUFFICES ASSUME ~regrown' PROVE Tight'
  BY <1>1, Zenon DEF IInv
<1>2. Tight
  BY DEF IInv, ResizeTurn, history
<1>3. Count > 0
  BY <1>2 DEF IInv, TypeOK, Tight, LastFits, ResizeTurn
<1>4. DOMAIN workers' = 0..(Count - 1) - 1
  BY <1>2, <1>3 DEF Tight, ResizeTurn, Without, Top, Count
<1>5. Count' = Count - 1
  BY <1>2, <1>3, <1>4, Interval DEF Tight, Count
<1> QED
  BY <1>2, <1>3, <1>4, <1>5
  DEF IInv, TypeOK, Tight, LastFits, ResizeTurn, Count, history

\* A new pool has no worker.
LEMMA InitInv == Init => IInv
<1> SUFFICES ASSUME Init PROVE IInv
  OBVIOUS
<1>1. DOMAIN workers = {} /\ DOMAIN workers = 0..0 - 1
  BY DEF Init, Empty
<1>2. Count = 0
  BY <1>1, Interval DEF Count
<1>3. TasksFit /\ \A i \in DOMAIN workers : workers[i] \in WorkerRecord
  BY <1>1, Zenon DEF TasksFit
<1>4. /\ size \in Nat /\ size \in 0..MaxSize /\ size \in 1..MaxSize
      /\ 0 \in 0..MaxSize /\ 0 \in 0..MaxTasks
  BY PoolAssumption DEF Init
<1>5. TypeOK
  BY <1>1, <1>3, <1>4, Zenon DEF Init, TypeOK
<1>6. Peaks
  BY <1>1, <1>4 DEF Init, Peaks
<1>7. Tight
  BY <1>1, <1>2, <1>4 DEF Init, Tight, LastFits
<1> QED
  BY <1>3, <1>5, <1>6, <1>7, Zenon DEF IInv

\* Every step of the pool and of its workers keeps the strengthened invariant.
THEOREM PoolInductive == Spec => []IInv
<1>1. IInv /\ [Next]_vars => IInv'
  <2> SUFFICES ASSUME IInv, [Next]_vars PROVE IInv'
    OBVIOUS
  <2>1. CASE UNCHANGED vars
    BY <2>1 DEF vars, history, IInv, TypeOK, TasksFit, Peaks, Tight, LastFits, Count
  <2> QED
    BY <2>1, SubmitStep, SubmitToStep, TaskEndsStep, CollectStep, ShutdownStep,
       ResizeStep, ResizeTurnStep, Zenon
    DEF Next
<1> QED
  BY <1>1, InitInv, PTL DEF Spec

\* Until the program regrows the pool, the indices in use are 0 to n - 1, so that
\* the loop of Pool::resize (pool.c) finds a worker to remove at each turn.
THEOREM AlwaysContiguous == Spec => []ContiguousUnlessRegrown
<1>1. IInv => ContiguousUnlessRegrown
  BY Zenon DEF IInv, Tight, Count, Contiguous, ContiguousUnlessRegrown
<1> QED
  BY <1>1, PoolInductive, PTL

\* Until then a pool has never more workers than its size, apart from the single
\* worker of a pool of size 0 (Pool::submit in pool.c).
THEOREM AlwaysWithinSize == Spec => []WithinSizeUnlessRegrown
<1>1. IInv => WithinSizeUnlessRegrown
  BY Zenon DEF IInv, Tight, Count, WithinSizeUnlessRegrown
<1> QED
  BY <1>1, PoolInductive, PTL

\* Whatever the program does, a pool has never more workers than the largest size
\* it was ever given (Pool::submit in pool.c wraps its counter at the size).
THEOREM AlwaysWithinPeak == Spec => []WithinPeak
<1>1. IInv => WithinPeak
  <2> SUFFICES ASSUME IInv PROVE WithinPeak
    OBVIOUS
  <2>1. DOMAIN workers \subseteq 0..peak - 1 /\ peak \in Nat
    BY DEF IInv, TypeOK, Peaks
  <2>2. IsFiniteSet(0..peak - 1) /\ Cardinality(0..peak - 1) = peak
    BY <2>1, FS_Interval
  <2>3. Cardinality(DOMAIN workers) <= Cardinality(0..peak - 1)
    BY <2>1, <2>2, FS_Subset
  <2> QED
    BY <2>1, <2>2, <2>3 DEF WithinPeak
<1> QED
  BY <1>1, PoolInductive, PTL
=============================================================================
