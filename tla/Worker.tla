------------------------------- MODULE Worker -------------------------------
(***************************************************************************)
(* Workers and the tasks stacked on them (src/worker.c, src/routine.c,     *)
(* classes/worker.c, and the destructor in src/object.c).                  *)
(*                                                                         *)
(* A creator thread owns the worker objects: only it may start, stack,     *)
(* unstack, collect, join and free.  Each started worker is a thread of    *)
(* its own.  A step is one critical section of the worker's monitor (see   *)
(* Monitor) or one stretch of code outside it; wherever the code lets the  *)
(* monitor go, the other threads may step.                                 *)
(*                                                                         *)
(* A call of stack() makes a queue item: its number, in order of the       *)
(* calls, and the Runnable it refers to.  One Runnable may be stacked many *)
(* times, also on several workers.                                         *)
(***************************************************************************)
EXTENDS Naturals, Sequences, Functions

CONSTANTS
  Workers,    \* the worker objects
  Tasks,      \* the Runnables that may be stacked
  NoItem,     \* a null pmmpthread_queue_item_t pointer
  NoWorker,   \* the creator is not working on any worker
  MaxItems    \* bound on the calls of stack()

Item == [id : Nat \ {0}, task : Tasks]

ASSUME WorkerAssumption ==
  /\ Workers \cap Tasks = {}
  /\ NoItem \notin Item
  /\ NoWorker \notin Workers
  /\ MaxItems \in Nat

VARIABLES
  mon,        \* the bits set in the monitor of each worker and of each task
  queue, gc,  \* worker_data->queue and worker_data->gc
  running,    \* worker_data->running
  tasks_collected, \* worker_data->tasks_collected
  alive,      \* the creator's object and its worker_data are allocated
  pc,         \* where each worker's thread is in pmmpthread_routine
  cur,        \* the item whose connection the worker's thread holds
  failed,     \* the last run_function result was FAILURE
  done,       \* done_tasks_cache: the connections the worker's thread keeps
  cpc, cw,    \* where the creator is, and on which worker
  dropping,   \* the creator joins from the object's destructor
  stacked,    \* how many items stack() has made
  synced,     \* items whose properties the creator has copied
  released,   \* items whose connection the worker's thread has let go
  crashed     \* items whose run failed

taskVars    == <<queue, gc, running, tasks_collected>>
threadVars  == <<pc, cur, failed, done>>
creatorVars == <<cpc, cw, dropping>>
history     == <<synced, released, crashed>>
vars == <<mon, taskVars, alive, threadVars, creatorVars, stacked, history>>

Bits == {"STARTED", "RUNNING", "JOINED", "ERROR", "COLLECT_GARBAGE", "EXIT",
         "AWAIT_JOIN"}

\* The places of the worker's thread: "boot" in pmmpthread_prepared_startup;
\* "check", "begin", "body" and "end" in pmmpthread_routine_run_function;
\* "error", "garbage" and "cache" between a task and the next; "next" and
\* "parked" in pmmpthread_worker_next_task; "finish" before AWAIT_JOIN,
\* "await" before EXIT.
Places == {"none", "boot", "check", "begin", "body", "end", "error", "garbage",
           "cache", "next", "parked", "finish", "await", "gone"}

\* The places of the creator: "create" and "ready" in pmmpthread_start; "stack"
\* between the check and the push of Worker::stack; "loop" and "parked" in
\* while($w->collect() > 0) $w->wait(); "await", "exit" and "join" in
\* pmmpthread_join.
CreatorPlaces == {"idle", "create", "ready", "stack", "loop", "parked",
                  "await", "exit", "join"}

\* No worker is started yet; some of the Runnables may have failed before, on other workers.
Init ==
  /\ \E F \in SUBSET Tasks :
       mon = [o \in Workers \cup Tasks |-> IF o \in F THEN {"ERROR"} ELSE {}]
  /\ queue = [w \in Workers |-> <<>>]
  /\ gc = [w \in Workers |-> <<>>]
  /\ running = [w \in Workers |-> NoItem]
  /\ tasks_collected = [w \in Workers |-> 0]
  /\ alive = [w \in Workers |-> TRUE]
  /\ pc = [w \in Workers |-> "none"]
  /\ cur = [w \in Workers |-> NoItem]
  /\ failed = [w \in Workers |-> FALSE]
  /\ done = [w \in Workers |-> <<>>]
  /\ cpc = "idle"
  /\ cw = NoWorker
  /\ dropping = FALSE
  /\ stacked = 0
  /\ synced = {}
  /\ released = {}
  /\ crashed = {}

-----------------------------------------------------------------------------
(* Monitor operations on a worker or a task.                               *)

Add(o, b)    == mon' = [mon EXCEPT ![o] = @ \cup {b}]
Remove(o, b) == mon' = [mon EXCEPT ![o] = @ \ {b}]

\* A broadcast on the monitor of w by the creator: the worker's thread leaves
\* the wait in next_task and takes another turn of its loop.
WakeWorker(w) == pc' = [pc EXCEPT ![w] = IF @ = "parked" THEN "next" ELSE @]

\* A broadcast on the monitor of w by its thread: the creator leaves the wait
\* on w and calls collect() again.
WakeCreator(w) == cpc' = IF cpc = "parked" /\ cw = w THEN "loop" ELSE cpc

\* The first n elements are shifted off.
DropFirst(s, n) == SubSeq(s, n + 1, Len(s))

-----------------------------------------------------------------------------
(* The creator.  It is "idle" while it runs PHP code of its own.           *)

\* pmmpthread_start up to pthread_create.
Start(w) ==
  /\ cpc = "idle" /\ alive[w]
  /\ "STARTED" \notin mon[w]
  /\ Add(w, "STARTED")
  /\ cpc' = "create" /\ cw' = w
  /\ UNCHANGED <<taskVars, alive, threadVars, dropping, stacked, history>>

\* pthread_create succeeds; the creator waits for READY.
Create(w) ==
  /\ cpc = "create" /\ cw = w
  /\ pc' = [pc EXCEPT ![w] = "boot"]
  /\ cpc' = "ready"
  /\ UNCHANGED <<mon, taskVars, alive, cur, failed, done, cw, dropping, stacked,
                 history>>

\* pthread_create fails: pmmpthread_routine_free takes STARTED back and an
\* exception is thrown.
CreateFails(w) ==
  /\ cpc = "create" /\ cw = w
  /\ Remove(w, "STARTED")
  /\ cpc' = "idle" /\ cw' = NoWorker
  /\ UNCHANGED <<taskVars, alive, threadVars, dropping, stacked, history>>

\* pmmpthread_prepared_startup has set READY and start() returns.
StartReturns(w) ==
  /\ cpc = "ready" /\ cw = w
  /\ pc[w] # "boot"
  /\ cpc' = "idle" /\ cw' = NoWorker
  /\ UNCHANGED <<mon, taskVars, alive, threadVars, dropping, stacked, history>>

\* Worker::stack, the check that the worker still takes tasks.
StackCheck(w) ==
  /\ cpc = "idle" /\ alive[w]
  /\ stacked < MaxItems
  /\ mon[w] \cap {"ERROR", "AWAIT_JOIN", "JOINED"} = {}
  /\ cpc' = "stack" /\ cw' = w
  /\ UNCHANGED <<mon, taskVars, alive, threadVars, dropping, stacked, history>>

\* Mutant of NotifyIfEmpty: off by one.
NotifyIfSingle(w, s) == IF Len(s) = 1 THEN WakeWorker(w) ELSE UNCHANGED pc

\* Only a push on an empty queue notifies.
NotifyIfEmpty(w, s) == IF Len(s) = 0 THEN WakeWorker(w) ELSE UNCHANGED pc

\* Worker::stack, pmmpthread_worker_add_task: a critical section of its own.
StackAdd(w, t) ==
  /\ cpc = "stack" /\ cw = w
  /\ stacked' = stacked + 1
  /\ queue' = [queue EXCEPT ![w] = Append(@, [id |-> stacked + 1, task |-> t])]
  /\ NotifyIfEmpty(w, queue[w])
  /\ cpc' = "idle" /\ cw' = NoWorker
  /\ UNCHANGED <<mon, gc, running, tasks_collected, alive, cur, failed, done,
                 dropping, history>>

\* Worker::unstack, pmmpthread_worker_dequeue_task: the oldest waiting task is
\* taken back.
Unstack(w) ==
  /\ cpc = "idle" /\ alive[w]
  /\ queue[w] # <<>>
  /\ queue' = [queue EXCEPT ![w] = Tail(@)]
  /\ UNCHANGED <<mon, gc, running, tasks_collected, alive, threadVars,
                 creatorVars, stacked, history>>

\* pmmpthread_worker_collect_tasks, when the collector accepts the first n
\* finished tasks and refuses the next: each task shown to the collector has
\* its properties copied first.
CollectTasks(w, n) ==
  /\ synced' = synced \cup
       {gc[w][i] : i \in 1..(IF n < Len(gc[w]) THEN n + 1 ELSE n)}
  /\ gc' = [gc EXCEPT ![w] = DropFirst(@, n)]
  /\ IF n = 0
     THEN UNCHANGED <<mon, tasks_collected, pc>>
     ELSE /\ tasks_collected' = [tasks_collected EXCEPT ![w] = @ + n]
          /\ Add(w, "COLLECT_GARBAGE")
          /\ WakeWorker(w)

\* What collect() returns: the tasks left on the worker.
TasksLeft(w) ==
  Len(queue[w]) + Len(gc'[w]) + (IF running[w] # NoItem THEN 1 ELSE 0)

\* Worker::collect.
Collect(w) ==
  /\ cpc = "idle" /\ alive[w]
  /\ \E n \in 0..Len(gc[w]) : CollectTasks(w, n)
  /\ UNCHANGED <<queue, running, alive, cur, failed, done, creatorVars, stacked,
                 released, crashed>>

\* synchronized(fn() => while($w->collect() > 0) $w->wait()) with the default
\* collector: a turn of the loop holds the monitor until wait() gives it up.
CollectWait(w) ==
  /\ cpc = "idle" /\ alive[w]
  /\ "STARTED" \in mon[w]
  /\ cpc' = "loop" /\ cw' = w
  /\ UNCHANGED <<mon, taskVars, alive, threadVars, dropping, stacked, history>>

CollectTurn(w) ==
  /\ cpc = "loop" /\ cw = w
  /\ CollectTasks(w, Len(gc[w]))
  /\ IF TasksLeft(w) = 0
     THEN cpc' = "idle" /\ cw' = NoWorker
     ELSE cpc' = "parked" /\ cw' = cw
  /\ UNCHANGED <<queue, running, alive, cur, failed, done, dropping, stacked,
                 released, crashed>>

\* pmmpthread_join by the creator, up to the wait for AWAIT_JOIN; called from
\* PHP code or, when the last reference goes, from pmmpthread_base_dtor.
Join(w, drop) ==
  /\ cpc = "idle" /\ alive[w]
  /\ "STARTED" \in mon[w] /\ "JOINED" \notin mon[w]
  /\ Add(w, "JOINED")
  /\ WakeWorker(w)
  /\ cpc' = "await" /\ cw' = w /\ dropping' = drop
  /\ UNCHANGED <<taskVars, alive, cur, failed, done, stacked, history>>

\* Mutant of SyncCollectable: the finished tasks are not synchronized.
SyncNothing(w) == UNCHANGED synced

\* pmmpthread_worker_sync_collectable_tasks.
SyncCollectable(w) == synced' = synced \cup Range(gc[w])

\* The worker's thread runs no more PHP code: copy what it assigned.
JoinSync(w) ==
  /\ cpc = "await" /\ cw = w
  /\ "AWAIT_JOIN" \in mon[w]
  /\ SyncCollectable(w)
  /\ cpc' = "exit"
  /\ UNCHANGED <<mon, taskVars, alive, threadVars, cw, dropping, stacked,
                 released, crashed>>

\* Mutant of LetExit: the thread is not told.
KeepWaiting(w) == UNCHANGED mon

LetExit(w) == Add(w, "EXIT")

JoinExit(w) ==
  /\ cpc = "exit" /\ cw = w
  /\ LetExit(w)
  /\ cpc' = "join"
  /\ UNCHANGED <<taskVars, alive, threadVars, cw, dropping, stacked, history>>

\* pmmpthread_base_free and pmmpthread_worker_data_free.
FreeData(w) ==
  /\ queue' = [queue EXCEPT ![w] = <<>>]
  /\ gc' = [gc EXCEPT ![w] = <<>>]
  /\ alive' = [alive EXCEPT ![w] = FALSE]

\* pthread_join returns; the destructor goes on to free the object.
JoinReturns(w) ==
  /\ cpc = "join" /\ cw = w
  /\ pc[w] = "gone"
  /\ cpc' = "idle" /\ cw' = NoWorker /\ dropping' = FALSE
  /\ IF dropping THEN FreeData(w) ELSE UNCHANGED <<queue, gc, alive>>
  /\ UNCHANGED <<mon, running, tasks_collected, threadVars, stacked, history>>

\* Mutant of NeedsJoin: the destructor joins only workers with tasks waiting.
NeedsJoinIfQueued(w) ==
  "STARTED" \in mon[w] /\ "JOINED" \notin mon[w] /\ queue[w] # <<>>

\* pmmpthread_base_dtor joins a thread that was started and never joined.
NeedsJoin(w) == "STARTED" \in mon[w] /\ "JOINED" \notin mon[w]

\* The last reference goes and nothing is left to join.
Free(w) ==
  /\ cpc = "idle" /\ alive[w]
  /\ ~NeedsJoin(w)
  /\ FreeData(w)
  /\ UNCHANGED <<mon, running, tasks_collected, threadVars, creatorVars,
                 stacked, history>>

-----------------------------------------------------------------------------
(* The worker's thread.                                                    *)

\* pmmpthread_prepared_startup sets READY, which lets start() return.
Boot(w) ==
  /\ pc[w] = "boot"
  /\ pc' = [pc EXCEPT ![w] = "check"]
  /\ UNCHANGED <<mon, taskVars, alive, cur, failed, done, creatorVars, stacked,
                 history>>

\* The object whose run() is called: the worker itself, then each task.
Subject(w) == IF cur[w] = NoItem THEN w ELSE cur[w].task

\* Mutant of AfterRun: a task that failed is tried again.
AfterRunAgain(w, fails) ==
  IF cur[w] = NoItem THEN (IF fails THEN "finish" ELSE "next")
                     ELSE (IF fails THEN "check" ELSE "garbage")

\* Where pmmpthread_routine goes on when run_function returns.
AfterRun(w, fails) ==
  IF cur[w] = NoItem THEN (IF fails THEN "finish" ELSE "next")
                     ELSE (IF fails THEN "error" ELSE "garbage")

RecordCrash(w) ==
  crashed' = IF cur[w] = NoItem THEN crashed ELSE crashed \cup {cur[w]}

\* run_function returns FAILURE at once for a Runnable that failed before.
RunRefused(w) ==
  /\ pc[w] = "check"
  /\ "ERROR" \in mon[Subject(w)]
  /\ failed' = [failed EXCEPT ![w] = TRUE]
  /\ RecordCrash(w)
  /\ pc' = [pc EXCEPT ![w] = AfterRun(w, TRUE)]
  /\ UNCHANGED <<mon, taskVars, alive, cur, done, creatorVars, stacked, synced,
                 released>>

RunCheck(w) ==
  /\ pc[w] = "check"
  /\ "ERROR" \notin mon[Subject(w)]
  /\ pc' = [pc EXCEPT ![w] = "begin"]
  /\ UNCHANGED <<mon, taskVars, alive, cur, failed, done, creatorVars, stacked,
                 history>>

RunBegin(w) ==
  /\ pc[w] = "begin"
  /\ Add(Subject(w), "RUNNING")
  /\ WakeCreator(Subject(w))
  /\ pc' = [pc EXCEPT ![w] = "body"]
  /\ UNCHANGED <<taskVars, alive, cur, failed, done, cw, dropping, stacked,
                 history>>

\* run() returns.
RunReturns(w) ==
  /\ pc[w] = "body"
  /\ failed' = [failed EXCEPT ![w] = FALSE]
  /\ pc' = [pc EXCEPT ![w] = "end"]
  /\ UNCHANGED <<mon, taskVars, alive, cur, done, creatorVars, stacked, history>>

\* run() throws an exception nobody catches, or bails out.
RunFails(w) ==
  /\ pc[w] = "body"
  /\ Add(Subject(w), "ERROR")
  /\ WakeCreator(Subject(w))
  /\ failed' = [failed EXCEPT ![w] = TRUE]
  /\ RecordCrash(w)
  /\ pc' = [pc EXCEPT ![w] = "end"]
  /\ UNCHANGED <<taskVars, alive, cur, done, cw, dropping, stacked, synced,
                 released>>

RunEnd(w) ==
  /\ pc[w] = "end"
  /\ Remove(Subject(w), "RUNNING")
  /\ WakeCreator(Subject(w))
  /\ pc' = [pc EXCEPT ![w] = AfterRun(w, failed[w])]
  /\ UNCHANGED <<taskVars, alive, cur, failed, done, cw, dropping, stacked,
                 history>>

\* Mutant of MarkCrash: the worker is not marked.
MarkNothing(w) == UNCHANGED mon

\* The worker itself is marked before its crashed task can be collected.
MarkCrash(w) == Add(w, "ERROR")

WorkerError(w) ==
  /\ pc[w] = "error"
  /\ MarkCrash(w)
  /\ WakeCreator(w)
  /\ pc' = [pc EXCEPT ![w] = "garbage"]
  /\ UNCHANGED <<taskVars, alive, cur, failed, done, cw, dropping, stacked,
                 history>>

\* Mutant of NotifyGarbage: nobody is told.
NotifyNobody(w) == UNCHANGED cpc

\* "in case the main thread is waiting for a task".
NotifyGarbage(w) == WakeCreator(w)

Garbage(w) == running[w]

\* pmmpthread_worker_add_garbage, under the monitor.
AddGarbage(w) ==
  /\ pc[w] = "garbage"
  /\ gc' = [gc EXCEPT ![w] = Append(@, Garbage(w))]
  /\ running' = [running EXCEPT ![w] = NoItem]
  /\ NotifyGarbage(w)
  /\ pc' = [pc EXCEPT ![w] = "cache"]
  /\ UNCHANGED <<mon, queue, tasks_collected, alive, cur, failed, done, cw,
                 dropping, stacked, history>>

\* Its last line, after the monitor is unlocked: the thread keeps a connection
\* of its own.  A crashed task ends the worker's loop.
CacheDone(w) ==
  /\ pc[w] = "cache"
  /\ done' = [done EXCEPT ![w] = Append(@, cur[w])]
  /\ cur' = [cur EXCEPT ![w] = NoItem]
  /\ pc' = [pc EXCEPT ![w] = IF failed[w] THEN "finish" ELSE "next"]
  /\ UNCHANGED <<mon, taskVars, alive, failed, creatorVars, stacked, history>>

\* Mutant of ReleaseCount: one connection too many.
ReleaseOneMore(w) == tasks_collected[w] + 1

\* How many connections the creator's collections let the thread give up.
ReleaseCount(w) == tasks_collected[w]

\* The start of every turn of the loop in pmmpthread_worker_next_task: when the
\* creator has collected tasks, let as many of the oldest connections go.
ReleaseCollected(w) ==
  IF "COLLECT_GARBAGE" \in mon[w]
  THEN /\ done' = [done EXCEPT ![w] = DropFirst(@, ReleaseCount(w))]
       /\ released' = released \cup
            {done[w][i] : i \in {j \in DOMAIN done[w] : j <= ReleaseCount(w)}}
       /\ tasks_collected' = [tasks_collected EXCEPT ![w] = 0]
       /\ Remove(w, "COLLECT_GARBAGE")
       /\ WakeCreator(w)
  ELSE UNCHANGED <<done, released, tasks_collected, mon, cpc>>

\* Mutant of LoopEnds: JOINED is looked at before the queue.
LoopEndsOnJoin(w) == "JOINED" \in mon[w]

\* The loop ends when the creator joins and the queue is empty.
LoopEnds(w) == queue[w] = <<>> /\ "JOINED" \in mon[w]

\* Mutant of NextItem: the task stacked last.
LastItem(w) == queue[w][Len(queue[w])]

NextItem(w) == Head(queue[w])

\* A turn that finds a task: it becomes the running one.
NextTask(w) ==
  /\ pc[w] = "next"
  /\ ReleaseCollected(w)
  /\ queue[w] # <<>> /\ ~LoopEnds(w)
  /\ running' = [running EXCEPT ![w] = NextItem(w)]
  /\ cur' = [cur EXCEPT ![w] = NextItem(w)]
  /\ queue' = [queue EXCEPT ![w] = Tail(@)]
  /\ pc' = [pc EXCEPT ![w] = "check"]
  /\ UNCHANGED <<gc, alive, failed, cw, dropping, stacked, synced, crashed>>

\* A turn that finds none: the loop ends if the creator joins, else it waits.
NoNextTask(w) ==
  /\ pc[w] = "next"
  /\ ReleaseCollected(w)
  /\ queue[w] = <<>> \/ LoopEnds(w)
  /\ pc' = [pc EXCEPT ![w] = IF LoopEnds(w) THEN "finish" ELSE "parked"]
  /\ UNCHANGED <<queue, gc, running, alive, cur, failed, cw, dropping, stacked,
                 synced, crashed>>

\* The shutdown functions have run; no PHP code runs on this thread any more.
Finish(w) ==
  /\ pc[w] = "finish"
  /\ Add(w, "AWAIT_JOIN")
  /\ WakeCreator(w)
  /\ pc' = [pc EXCEPT ![w] = "await"]
  /\ UNCHANGED <<taskVars, alive, cur, failed, done, cw, dropping, stacked,
                 history>>

\* pmmpthread_monitor_wait_until(EXIT).
MayExit(w) == "EXIT" \in mon[w]

\* The creator has copied everything: let every connection go and end.
Exit(w) ==
  /\ pc[w] = "await"
  /\ MayExit(w)
  /\ released' = released \cup Range(done[w])
  /\ done' = [done EXCEPT ![w] = <<>>]
  /\ pc' = [pc EXCEPT ![w] = "gone"]
  /\ UNCHANGED <<mon, taskVars, alive, cur, failed, creatorVars, stacked, synced,
                 crashed>>

-----------------------------------------------------------------------------
CreatorStep(w) ==
  \/ Create(w) \/ CreateFails(w) \/ StartReturns(w)
  \/ \E t \in Tasks : StackAdd(w, t)
  \/ CollectTurn(w)
  \/ JoinSync(w) \/ JoinExit(w) \/ JoinReturns(w)

CreatorCalls(w) ==
  \/ Start(w) \/ StackCheck(w) \/ Unstack(w) \/ Collect(w) \/ CollectWait(w)
  \/ \E drop \in BOOLEAN : Join(w, drop)
  \/ Free(w)

WorkerStep(w) ==
  \/ Boot(w)
  \/ RunRefused(w) \/ RunCheck(w) \/ RunBegin(w) \/ RunReturns(w)
  \/ RunFails(w) \/ RunEnd(w)
  \/ WorkerError(w) \/ AddGarbage(w) \/ CacheDone(w)
  \/ NextTask(w) \/ NoNextTask(w)
  \/ Finish(w) \/ Exit(w)

Next == \E w \in Workers : CreatorStep(w) \/ CreatorCalls(w) \/ WorkerStep(w)

Spec == Init /\ [][Next]_vars

\* A thread that can go on does: the scheduler runs every thread, critical
\* sections are short, and run() of a task ends.  The creator need not call
\* anything, but finishes the calls it makes.
Fairness ==
  \A w \in Workers : WF_vars(WorkerStep(w)) /\ WF_vars(CreatorStep(w))

FairSpec == Spec /\ Fairness

-----------------------------------------------------------------------------
(* Properties.                                                             *)

\* The types of the worker data, the threads and the histories.
TypeOK ==
  /\ mon \in [Workers \cup Tasks -> SUBSET Bits]
  /\ queue \in [Workers -> Seq(Item)]
  /\ gc \in [Workers -> Seq(Item)]
  /\ running \in [Workers -> Item \cup {NoItem}]
  /\ tasks_collected \in [Workers -> Nat]
  /\ alive \in [Workers -> BOOLEAN]
  /\ pc \in [Workers -> Places]
  /\ cur \in [Workers -> Item \cup {NoItem}]
  /\ failed \in [Workers -> BOOLEAN]
  /\ done \in [Workers -> Seq(Item)]
  /\ cpc \in CreatorPlaces
  /\ cw \in Workers \cup {NoWorker}
  /\ dropping \in BOOLEAN
  /\ stacked \in Nat
  /\ synced \in SUBSET Item
  /\ released \in SUBSET Item
  /\ crashed \in SUBSET Item

\* A worker never sleeps over work (worker.c:165-195 against add_task, which
\* notifies only when the queue was empty): while it waits in next_task there is
\* no task, no pending release and no join.
NoStrandedTask ==
  \A w \in Workers : pc[w] = "parked" =>
    /\ queue[w] = <<>>
    /\ mon[w] \cap {"COLLECT_GARBAGE", "JOINED"} = {}

\* The connections a worker's thread holds: those in done_tasks_cache and the
\* one that add_garbage has published in gc and not yet put there.
Held(w) == done[w] \o (IF pc[w] = "cache" THEN <<cur[w]>> ELSE <<>>)

\* The worker's done_tasks_cache, which is not under the monitor, mirrors the
\* creator's gc queue, which is: it holds the tasks_collected oldest ones that
\* the creator has collected, then exactly the tasks of gc in the same order.
CacheMirrorsGc ==
  \A w \in Workers : alive[w] /\ pc[w] # "gone" =>
    /\ Len(Held(w)) = tasks_collected[w] + Len(gc[w])
    /\ \A i \in 1..Len(gc[w]) : gc[w][i] = Held(w)[tasks_collected[w] + i]
    /\ tasks_collected[w] > 0 <=> "COLLECT_GARBAGE" \in mon[w]

\* A worker's thread lets its connection to a finished task go only after the
\* creator has copied the task's properties, in collect() or in join().
ReleasedAfterSync == released \subseteq synced

\* "this needs to happen before we put the crashed task on the GC queue so that
\* waiting on collect() can reliably detect errors" (routine.c:129-130): once a
\* failed task has left the worker's hands, the worker shows ERROR.
CrashVisible ==
  \A w \in Workers : \A i \in Range(gc[w]) \cup Range(Held(w)) :
    i \in crashed => "ERROR" \in mon[w]

\* The thread stops only when no task is left, or because run() failed: a task
\* that Worker::stack pushes in a critical section of its own, after its check, is
\* never left behind by a worker that ends in good order.
DrainedUnlessCrashed ==
  \A w \in Workers :
    pc[w] \in {"finish", "await", "gone"} /\ "ERROR" \notin mon[w] =>
      queue[w] = <<>> /\ running[w] = NoItem

\* "we should never be freeing worker_data for a worker with active tasks"
\* (worker.c:61): when the creator's object is freed, no thread uses it.
FreedUnused ==
  \A w \in Workers : ~alive[w] => pc[w] \in {"none", "gone"} /\ running[w] = NoItem

\* join() returns: the worker runs what is stacked, stops, is released and ends.
JoinTerminates == cpc \in {"await", "exit", "join"} ~> cpc = "idle"

\* "it's desirable to wait on a worker for a task to be completed. This should be
\* achievable by using collect() and wait() inside a synchronized() block"
\* (tests/worker-collect-wait.phpt): that loop ends, unless the worker crashed.
CollectWaitEnds ==
  \A w \in Workers :
    (cpc \in {"loop", "parked"} /\ cw = w) ~> (cpc = "idle" \/ "ERROR" \in mon[w])

\* A stacked task does not wait for ever on a worker that runs.
TasksStart ==
  \A w \in Workers : \A n \in 1..MaxItems :
    (pc[w] # "none" /\ \E i \in Range(queue[w]) : i.id = n)
      ~> ((\A i \in Range(queue[w]) : i.id # n) \/ "ERROR" \in mon[w])

-----------------------------------------------------------------------------
(* The abstract life of an item, read off the queues.                      *)

PlaceOf(n) ==
  LET Is(i) == i # NoItem /\ i.id = n
  IN  IF n > stacked THEN [st |-> "new"]
      ELSE IF \E w \in Workers : \E i \in Range(queue[w]) : Is(i)
      THEN [st |-> "queued",
            on |-> CHOOSE w \in Workers : \E i \in Range(queue[w]) : Is(i)]
      ELSE IF \E w \in Workers : Is(running[w])
      THEN [st |-> "running", on |-> CHOOSE w \in Workers : Is(running[w])]
      ELSE IF \E w \in Workers : \E i \in Range(gc[w]) : Is(i)
      THEN [st |-> "finished",
            on |-> CHOOSE w \in Workers : \E i \in Range(gc[w]) : Is(i)]
      ELSE [st |-> "out"]

Life == INSTANCE TaskLife WITH
          place <- [n \in 1..MaxItems |-> PlaceOf(n)],
          count <- stacked

\* Every behaviour of the workers, their creator and their threads is one that
\* TaskLife allows: each item runs at most once, on the worker it was stacked on,
\* first come first served, and is collected after it ran.
ImplementsTaskLife == Life!Spec
=============================================================================
