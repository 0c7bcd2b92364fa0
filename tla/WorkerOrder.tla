---------------------------- MODULE WorkerOrder ----------------------------
(***************************************************************************)
(* The order in which a worker's items run, for any number of workers,     *)
(* tasks and items: that a failed task is visible as such, and that Worker *)
(* implements TaskLife.  Both rest on a stronger invariant, that every     *)
(* item is known to one worker only and is in one place there, in the      *)
(* order of stacking.                                                      *)
(***************************************************************************)
EXTENDS WorkerProofs

-----------------------------------------------------------------------------
(* The order of items.                                                     *)

\* The items that wait, run and can be collected; those that ran, as far as the
\* worker or its thread still knows them; and all of them.
Queued(w) == Range(queue[w])
Current(w) == {running[w]} \ {NoItem}
Finished(w) == Range(gc[w])
Ran(w) == Finished(w) \cup Range(Held(w))
Known(w) == Ran(w) \cup Current(w) \cup Queued(w)

\* The items are in the order of stacking.
Ascending(s) == \A i, j \in DOMAIN s : i < j => s[i].id < s[j].id
\* The items of I were stacked before those of J.
Before(I, J) == \A i \in I : \A j \in J : i.id < j.id

\* The numbers are those given out by stack().
Numbered ==
  /\ stacked <= MaxItems /\ (cpc = "stack" => stacked < MaxItems)
  /\ \A w \in Workers : \A i \in Known(w) : i \in Item /\ i.id <= stacked

\* The items of a worker run in the order in which they were stacked.
Ordered(w) ==
  /\ Ascending(queue[w]) /\ Ascending(gc[w])
  /\ Before(Ran(w), Current(w)) /\ Before(Ran(w), Queued(w))
  /\ Before(Current(w), Queued(w))

\* Each item is known to one worker at most, which runs its items in order.
InOrder ==
  /\ \A w \in Workers : Ordered(w)
  /\ \A v, w \in Workers : v # w =>
       \A i \in Known(v) : \A j \in Known(w) : i.id # j.id

\* An item that failed is not queued any more, and until it has left the worker's
\* hands, the thread knows that it failed.
CrashTraced ==
  /\ \A i \in crashed : i.id <= stacked
  /\ \A w \in Workers :
       /\ Queued(w) \cap crashed = {}
       /\ running[w] \in crashed => failed[w] /\ pc[w] \in {"end", "error", "garbage"}

-----------------------------------------------------------------------------
(* Sequences of items.                                                     *)

\* No items.
LEMMA EmptyItems == Range(<<>>) = {} /\ Ascending(<<>>)
  BY DEF Range, Ascending

\* An item put at the end, as stack() and pmmpthread_worker_add_garbage do.
LEMMA AppendItems ==
  ASSUME NEW s \in Seq(Item), NEW i \in Item
  PROVE  /\ Range(Append(s, i)) = Range(s) \cup {i}
         /\ Ascending(s) /\ Before(Range(s), {i}) => Ascending(Append(s, i))
<1> DEFINE a == Append(s, i)
<1>1. /\ DOMAIN s = 1..Len(s) /\ Len(s) \in Nat
      /\ DOMAIN a = 1..Len(s) + 1 /\ a[Len(s) + 1] = i
      /\ \A k \in 1..Len(s) : a[k] = s[k]
  OBVIOUS
<1> HIDE DEF a
<1>2. \A k \in DOMAIN a : k = Len(s) + 1 \/ k \in DOMAIN s
  BY <1>1
<1>3. DOMAIN s \subseteq DOMAIN a /\ Len(s) + 1 \in DOMAIN a
  BY <1>1
<1>4. Range(a) = Range(s) \cup {i}
  BY <1>1, <1>2, <1>3, Zenon DEF Range
<1>5. ASSUME Ascending(s), Before(Range(s), {i}) PROVE Ascending(a)
  <2> SUFFICES ASSUME NEW k \in DOMAIN a, NEW l \in DOMAIN a, k < l
               PROVE  a[k].id < a[l].id
    BY Zenon DEF Ascending
  <2>1. k \in DOMAIN s
    BY <1>1
  <2>2. CASE l \in DOMAIN s
    <3>1. a[k] = s[k] /\ a[l] = s[l]
      BY <1>1, <2>1, <2>2
    <3> QED
      BY <1>5, <2>1, <2>2, <3>1, Zenon DEF Ascending
  <2>3. CASE l = Len(s) + 1
    <3>1. s[k] \in Range(s) /\ a[k] = s[k] /\ a[l] = i
      BY <1>1, <2>1, <2>3 DEF Range
    <3> QED
      BY <1>5, <3>1, Zenon DEF Before
  <2> QED
    BY <1>2, <2>2, <2>3, Zenon
<1> QED
  BY <1>4, <1>5, Zenon DEF a

\* The oldest item taken, as unstack() and pmmpthread_worker_next_task do.
LEMMA TailItems ==
  ASSUME NEW s \in Seq(Item), s # <<>>
  PROVE  /\ Head(s) \in Item /\ Tail(s) \in Seq(Item)
         /\ Range(s) = Range(Tail(s)) \cup {Head(s)}
         /\ Ascending(s) => Ascending(Tail(s)) /\ Before({Head(s)}, Range(Tail(s)))
<1> DEFINE u == Tail(s)
           h == Head(s)
<1>1. /\ h \in Item
      /\ u \in Seq(Item)
      /\ h = s[1]
      /\ DOMAIN s = 1..Len(s)
      /\ Len(s) \in Nat
      /\ DOMAIN u = 1..Len(s) - 1 /\ \A k \in 1..Len(s) - 1 : u[k] = s[k + 1]
  OBVIOUS
<1>0. 1 \in DOMAIN s
  BY <1>1
<1> HIDE DEF u, h
<1>2. \A k \in DOMAIN s : k = 1 \/ (k - 1 \in DOMAIN u /\ u[k - 1] = s[k])
  BY <1>1
<1>3. \A k \in DOMAIN u : k + 1 \in DOMAIN s /\ u[k] = s[k + 1] /\ 1 < k + 1
  BY <1>1
<1>4. \A k, l \in DOMAIN u : k < l => k + 1 < l + 1
  BY <1>1
<1>5. Range(s) = Range(u) \cup {h}
  <2>1. ASSUME NEW x \in Range(s) PROVE x \in Range(u) \cup {h}
    <3>1. PICK k \in DOMAIN s : x = s[k]
      BY <2>1, Zenon DEF Range
    <3>2. k = 1 \/ (k - 1 \in DOMAIN u /\ u[k - 1] = s[k])
      BY <1>2, Zenon
    <3> QED
      BY <1>1, <3>1, <3>2, Zenon DEF Range
  <2>2. ASSUME NEW x \in Range(u) PROVE x \in Range(s)
    BY <1>3, <2>2, Zenon DEF Range
  <2>3. h \in Range(s)
    BY <1>0, <1>1, Zenon DEF Range
  <2> QED
    BY <2>1, <2>2, <2>3, Zenon
<1>6. ASSUME Ascending(s) PROVE Ascending(u) /\ Before({h}, Range(u))
  <2>1. Ascending(u)
    BY <1>3, <1>4, <1>6, Zenon DEF Ascending
  <2>2. Before({h}, Range(u))
    <3>1. \A k \in DOMAIN u : h.id < u[k].id
      BY <1>0, <1>1, <1>3, <1>6, Zenon DEF Ascending
    <3> QED
      BY <3>1, Zenon DEF Before, Range
  <2> QED
    BY <2>1, <2>2, Zenon
<1> QED
  BY <1>1, <1>5, <1>6, Zenon DEF u, h

\* The first n items taken, as pmmpthread_worker_collect_tasks does.
LEMMA DropItems ==
  ASSUME NEW s \in Seq(Item), NEW n \in 0..Len(s)
  PROVE  /\ Range(DropFirst(s, n)) \subseteq Range(s)
         /\ Ascending(s) => Ascending(DropFirst(s, n))
         /\ n > 0 /\ Ascending(s) =>
              /\ s[n] \in Range(s)
              /\ Range(DropFirst(s, n)) = {j \in Range(s) : s[n].id < j.id}
<1> DEFINE u == DropFirst(s, n)
<1>0. /\ u \in Seq(Item) /\ Len(u) = Len(s) - n
      /\ \A i \in 1..(Len(s) - n) : u[i] = s[n + i]
  BY ONLY DropFirstSeq, s \in Seq(Item), n \in 0..Len(s), Zenon
<1> HIDE DEF u
<1>1. /\ DOMAIN s = 1..Len(s) /\ Len(s) \in Nat /\ n \in Nat /\ n <= Len(s)
      /\ DOMAIN u = 1..(Len(s) - n)
  BY <1>0
<1>2. \A k \in DOMAIN u : n + k \in DOMAIN s /\ u[k] = s[n + k] /\ n < n + k
  BY <1>0, <1>1
<1>3. \A k, l \in DOMAIN u : k < l => n + k < n + l
  BY <1>1
<1>4. Range(u) \subseteq Range(s)
  BY <1>2, Zenon DEF Range
<1>5. Ascending(s) => Ascending(u)
  BY <1>2, <1>3, Zenon DEF Ascending
<1>6. ASSUME n > 0, Ascending(s)
      PROVE  s[n] \in Range(s) /\ Range(u) = {j \in Range(s) : s[n].id < j.id}
  <2>1. n \in DOMAIN s
    BY <1>1, <1>6
  <2>2. ASSUME NEW j \in Range(u) PROVE s[n].id < j.id
    BY <1>2, <1>6, <2>1, Zenon DEF Ascending, Range
  <2>3. ASSUME NEW j \in Range(s), s[n].id < j.id PROVE j \in Range(u)
    <3>1. PICK k \in DOMAIN s : j = s[k]
      BY Zenon DEF Range
    <3>2. s[k] \in Item /\ s[n] \in Item
      BY <2>1
    <3>3. ~(k <= n)
      <4>1. k < n => s[k].id < s[n].id
        BY <1>6, <2>1, <3>1, Zenon DEF Ascending
      <4> QED
        BY <1>1, <2>3, <3>1, <3>2, <4>1 DEF Item
    <3>4. k - n \in DOMAIN u /\ n + (k - n) = k
      BY <1>1, <3>1, <3>3
    <3> QED
      BY <1>2, <3>1, <3>4, Zenon DEF Range
  <2> QED
    BY <1>4, <2>1, <2>2, <2>3, Zenon DEF Range
<1> QED
  BY <1>4, <1>5, <1>6, Zenon DEF u

-----------------------------------------------------------------------------
(* What the steps do to the items.                                         *)

\* A thread that has just published a task holds it besides those in its cache.
LEMMA HeldItems ==
  ASSUME TypeOK, RunningItem, NEW v \in Workers
  PROVE  /\ done[v] \in Seq(Item)
         /\ pc[v] # "cache" => Held(v) = done[v]
         /\ pc[v] = "cache" => Held(v) = Append(done[v], cur[v]) /\ cur[v] \in Item
         /\ Held(v) \in Seq(Item)
<1>1. done[v] \in Seq(Item) /\ (pc[v] = "cache" => cur[v] \in Item)
  BY Zenon DEF TypeOK, RunningItem
<1>2. CASE pc[v] = "cache"
  BY <1>1, <1>2 DEF Held
<1>3. CASE pc[v] # "cache"
  BY <1>1, <1>3 DEF Held
<1> QED
  BY <1>1, <1>2, <1>3, Zenon

\* The step leaves the queues as they are; the threads let go of items at most.
Quiet ==
  /\ UNCHANGED <<queue, running, gc, stacked>>
  /\ \A v \in Workers : Range(Held(v))' \subseteq Range(Held(v))

\* The thread drops from its cache what was collected.
LEMMA ReleaseHeld ==
  ASSUME IInv, IInv', NEW w \in Workers, NextTask(w) \/ NoNextTask(w), NEW v \in Workers
  PROVE  Range(Held(v))' \subseteq Range(Held(v))
<1>0. TypeOK /\ RunningItem /\ TypeOK' /\ RunningItem' /\ CacheMirrorsGc /\ Control
  BY Zenon DEF IInv
<1>1. CASE v # w
  BY <1>0, <1>1, WorkerSame, Zenon DEF Same
<1>2. CASE v = w
  <2>1. /\ pc[w] = "next"
        /\ pc'[w] \notin {"cache", "gone"}
        /\ ReleaseCollected(w)
        /\ pc \in [Workers -> Places]
    BY <1>0, Zenon DEF NextTask, NoNextTask, TypeOK
  <2>2. Held(w) = done[w] /\ done[w] \in Seq(Item)
    BY <1>0, <2>1, HeldItems
  <2>3. Held(w)' = done'[w]
    <3>1. done'[w] \in Seq(Item)
      BY <1>0, Zenon DEF TypeOK
    <3>2. Held(w)' = done'[w] \o <<>>
      BY <2>1, Zenon DEF Held
    <3> QED
      BY <3>1, <3>2
  <2>4. alive[w]
    BY <1>0, <2>1, Zenon DEF Control
  <2>5. /\ Len(done[w]) = tasks_collected[w] + Len(gc[w])
        /\ tasks_collected[w] \in Nat
        /\ gc[w] \in Seq(Item)
    BY <1>0, <2>1, <2>2, <2>4, Zenon DEF CacheMirrorsGc, TypeOK
  <2>6. tasks_collected[w] \in 0..Len(done[w])
    BY <2>2, <2>5
  <2>7. done'[w] = done[w] \/ done'[w] = DropFirst(done[w], tasks_collected[w])
    BY <1>0, <2>1, Zenon DEF ReleaseCollected, ReleaseCount, TypeOK
  <2>8. Range(DropFirst(done[w], tasks_collected[w])) \subseteq Range(done[w])
    BY <2>2, <2>6, DropItems
  <2> QED
    BY <1>2, <2>2, <2>3, <2>7, <2>8, Zenon
<1> QED
  BY <1>1, <1>2, Zenon

\* The calls of the creator that move no item.
LEMMA QuietCreator ==
  ASSUME IInv, NEW w \in Workers,
         \/ Start(w) \/ Create(w) \/ CreateFails(w) \/ StartReturns(w)
         \/ StackCheck(w) \/ CollectWait(w) \/ (\E drop \in BOOLEAN : Join(w, drop))
         \/ JoinSync(w) \/ JoinExit(w)
  PROVE  Quiet
<1>1. UNCHANGED <<queue, running, gc, stacked>>
  BY Zenon
  DEF Start, Create, CreateFails, StartReturns, StackCheck, CollectWait, Join,
      JoinSync, JoinExit, taskVars
<1>2. CASE JoinSync(w)
  BY <1>1, <1>2, Zenon DEF Quiet, JoinSync, Held, threadVars
<1>3. CASE ~JoinSync(w)
  BY <1>1, <1>3, CreatorSame, Zenon DEF Quiet, Same, IInv
<1> QED
  BY <1>2, <1>3, Zenon

\* The steps of the thread that move no item.
LEMMA QuietWorker ==
  ASSUME IInv, IInv', NEW w \in Workers, WorkerStep(w), ~NextTask(w), ~AddGarbage(w)
  PROVE  Quiet
<1>0. TypeOK /\ RunningItem /\ TypeOK' /\ RunningItem'
  BY Zenon DEF IInv
<1>1. UNCHANGED <<queue, running, gc, stacked>>
  BY Zenon
  DEF WorkerStep, Boot, RunRefused, RunCheck, RunBegin, RunReturns, RunFails,
      RunEnd, WorkerError, CacheDone, NoNextTask, Finish, Exit, taskVars
<1>2. ASSUME NEW v \in Workers PROVE Range(Held(v))' \subseteq Range(Held(v))
  <2>1. CASE NoNextTask(w)
    BY <2>1, ReleaseHeld, Zenon
  <2>2. CASE CacheDone(w) /\ v = w
    <3>1. Held(w) = Append(done[w], cur[w])
      BY <1>0, <2>2, HeldItems DEF CacheDone
    <3>2. /\ done'[w] = Append(done[w], cur[w])
          /\ pc'[w] # "cache"
          /\ done'[w] \in Seq(Item)
      BY <1>0, <2>2, Zenon DEF CacheDone, TypeOK
    <3>3. Held(w)' = done'[w]
      BY <3>2 DEF Held
    <3> QED
      BY <2>2, <3>1, <3>2, <3>3, Zenon
  <2>3. CASE Exit(w) /\ v = w
    <3>1. done'[w] = <<>> /\ pc'[w] # "cache"
      BY <1>0, <2>3, Zenon DEF Exit, TypeOK
    <3>2. Held(w)' = <<>>
      BY <3>1 DEF Held
    <3> QED
      BY <2>3, <3>2, EmptyItems, Zenon
  <2>4. CASE ~NoNextTask(w) /\ ~(CacheDone(w) /\ v = w) /\ ~(Exit(w) /\ v = w)
    <3>1. Same(v)
      BY <1>0, <2>4, WorkerSame, Zenon DEF WorkerStep
    <3> QED
      BY <3>1, Zenon DEF Same
  <2> QED
    BY <2>1, <2>2, <2>3, <2>4, Zenon
<1> QED
  BY <1>1, <1>2, Zenon DEF Quiet

-----------------------------------------------------------------------------
(* Every step keeps the order.                                             *)

\* A step that tells no worker of an item it did not know keeps the numbering.
LEMMA KnownKept ==
  ASSUME Numbered, InOrder, stacked' = stacked,
         \A v \in Workers : Known(v)' \subseteq Known(v)
  PROVE  /\ \A w \in Workers : \A i \in Known(w)' : i \in Item /\ i.id <= stacked'
         /\ \A v, w \in Workers : v # w =>
              \A i \in Known(v)' : \A j \in Known(w)' : i.id # j.id
  BY Zenon DEF Numbered, InOrder

\* The step takes items of v away at most, and leaves the rest in order.
Shrinks(v) ==
  /\ Ran(v)' \subseteq Ran(v)
  /\ Current(v)' \subseteq Current(v)
  /\ Queued(v)' \subseteq Queued(v)
  /\ Ascending(queue[v])' /\ Ascending(gc[v])'

\* Such a step leaves v in order.
LEMMA ShrinksOrdered ==
  ASSUME InOrder, NEW v \in Workers, Shrinks(v)
  PROVE  Ordered(v)' /\ Known(v)' \subseteq Known(v)
  BY Zenon DEF InOrder, Shrinks, Ordered, Before, Known

\* A step that moves no item is such a step.
LEMMA QuietShrinks == ASSUME InOrder, Quiet, NEW v \in Workers PROVE Shrinks(v)
  BY Zenon DEF InOrder, Ordered, Quiet, Shrinks, Ran, Finished, Current, Queued

\* So is unstack().
LEMMA UnstackShrinks ==
  ASSUME IInv, InOrder, NEW w \in Workers, Unstack(w), NEW v \in Workers
  PROVE  Shrinks(v) /\ stacked' = stacked
<1>0. TypeOK /\ Control
  BY Zenon DEF IInv
<1>1. Held(v)' = Held(v)
  BY <1>0, CreatorSame, Zenon DEF Same
<1>2. /\ UNCHANGED <<running, gc, stacked>>
      /\ queue' = [queue EXCEPT ![w] = Tail(queue[w])]
      /\ queue[w] # <<>>
  BY Zenon DEF Unstack
<1>3. queue \in [Workers -> Seq(Item)] /\ queue[w] \in Seq(Item)
  BY <1>0, Zenon DEF TypeOK
<1>4. Range(Tail(queue[w])) \subseteq Range(queue[w]) /\ Ascending(Tail(queue[w]))
  BY <1>2, <1>3, TailItems DEF InOrder, Ordered
<1>5. Queued(v)' \subseteq Queued(v) /\ Ascending(queue[v])'
  BY <1>2, <1>3, <1>4, Zenon DEF Queued, InOrder, Ordered
<1> QED
  BY <1>1, <1>2, <1>5, Zenon
  DEF InOrder, Ordered, Shrinks, Ran, Finished, Current

\* So is a turn of collect().
LEMMA CollectShrinks ==
  ASSUME IInv, InOrder, NEW w \in Workers, Collect(w) \/ CollectTurn(w), NEW v \in Workers
  PROVE  Shrinks(v) /\ stacked' = stacked
<1>0. TypeOK /\ Control
  BY Zenon DEF IInv
<1>1. PICK n \in 0..Len(gc[w]) : CollectTasks(w, n)
  <2>1. gc[w] \in Seq(Item)
    BY <1>0, Zenon DEF TypeOK
  <2>2. Len(gc[w]) \in 0..Len(gc[w])
    BY <2>1
  <2> QED
    BY <2>2, Zenon DEF Collect, CollectTurn
<1>2. UNCHANGED <<queue, running, stacked, cur, done>>
  BY Zenon DEF Collect, CollectTurn
<1>3. /\ gc \in [Workers -> Seq(Item)]
      /\ gc[w] \in Seq(Item)
      /\ pc \in [Workers -> Places]
  BY <1>0, Zenon DEF TypeOK
<1>4. Held(v)' = Held(v)
  <2>1. pc'[v] = "cache" <=> pc[v] = "cache"
    BY <1>1, <1>3, Zenon DEF CollectTasks, WakeWorker
  <2> QED
    BY <1>2, <2>1, Zenon DEF Held
<1>5. gc' = [gc EXCEPT ![w] = DropFirst(gc[w], n)]
  BY <1>1, Zenon DEF CollectTasks
<1>6. /\ Range(DropFirst(gc[w], n)) \subseteq Range(gc[w])
      /\ Ascending(DropFirst(gc[w], n))
  BY <1>1, <1>3, DropItems DEF InOrder, Ordered
<1>7. Finished(v)' \subseteq Finished(v) /\ Ascending(gc[v])'
  BY <1>3, <1>5, <1>6, Zenon DEF Finished, InOrder, Ordered
<1> QED
  BY <1>2, <1>4, <1>7, Zenon DEF InOrder, Ordered, Shrinks, Ran, Current, Queued

\* So is the end of join() or of the object, which frees the queues.
LEMMA FreeShrinks ==
  ASSUME IInv, InOrder, NEW w \in Workers, JoinReturns(w) \/ Free(w), NEW v \in Workers
  PROVE  Shrinks(v) /\ stacked' = stacked
<1>1. /\ UNCHANGED <<running, stacked, pc, cur, done>>
      /\ (UNCHANGED <<queue, gc>> \/ FreeData(w))
  BY Zenon DEF JoinReturns, Free, threadVars
<1>2. gc \in [Workers -> Seq(Item)] /\ queue \in [Workers -> Seq(Item)]
  BY Zenon DEF IInv, TypeOK
<1>3. /\ queue'[v] = queue[v] \/ queue'[v] = <<>>
      /\ gc'[v] = gc[v] \/ gc'[v] = <<>>
  BY <1>1, <1>2, Zenon DEF FreeData
<1>4. Held(v)' = Held(v)
  BY <1>1, Zenon DEF Held
<1>5. /\ Queued(v)' \subseteq Queued(v)
      /\ Ascending(queue[v])'
      /\ Finished(v)' \subseteq Finished(v)
      /\ Ascending(gc[v])'
  BY <1>3, EmptyItems, Zenon DEF InOrder, Ordered, Queued, Finished
<1> QED
  BY <1>1, <1>4, <1>5, Zenon DEF Shrinks, Ran, Current

\* A step leaves no worker out of order and tells none of an item it did not know.
Orderly ==
  /\ stacked' = stacked
  /\ \A v \in Workers : Ordered(v)' /\ Known(v)' \subseteq Known(v)

\* pmmpthread_worker_next_task makes the oldest queued item the running one.
LEMMA NextTaskItems ==
  ASSUME IInv, IInv', InOrder, NEW w \in Workers, NextTask(w), NEW v \in Workers
  PROVE  /\ v # w => Shrinks(v)
         /\ v = w =>
              /\ Current(w) = {} /\ Current(w)' = {Head(queue[w])}
              /\ Head(queue[w]) \in Item
              /\ Queued(w) = Queued(w)' \cup {Head(queue[w])}
              /\ Before({Head(queue[w])}, Queued(w)') /\ Ascending(queue[w])'
              /\ Ran(w)' \subseteq Ran(w)
         /\ gc' = gc /\ stacked' = stacked
<1>0. TypeOK /\ RunningItem
  BY Zenon DEF IInv
<1>1. /\ pc[w] = "next" /\ queue[w] # <<>> /\ UNCHANGED <<gc, stacked>>
      /\ running' = [running EXCEPT ![w] = Head(queue[w])]
      /\ queue' = [queue EXCEPT ![w] = Tail(queue[w])]
  BY Zenon DEF NextTask, NextItem
<1>2. /\ queue \in [Workers -> Seq(Item)] /\ queue[w] \in Seq(Item)
      /\ running \in [Workers -> Item \cup {NoItem}] /\ running[w] = NoItem
  BY <1>0, <1>1, Zenon DEF TypeOK, RunningItem, Busy
<1>3. Range(Held(v))' \subseteq Range(Held(v))
  BY ReleaseHeld, Zenon
<1>4. CASE v # w
  BY <1>1, <1>2, <1>3, <1>4, Zenon
  DEF Shrinks, InOrder, Ordered, Ran, Finished, Current, Queued
<1>5. CASE v = w
  <2>1. /\ Head(queue[w]) \in Item
        /\ Range(queue[w]) = Range(Tail(queue[w])) \cup {Head(queue[w])}
        /\ Ascending(Tail(queue[w]))
        /\ Before({Head(queue[w])}, Range(Tail(queue[w])))
    BY <1>1, <1>2, TailItems, Zenon DEF InOrder, Ordered
  <2>2. /\ running'[w] = Head(queue[w])
        /\ queue'[w] = Tail(queue[w])
        /\ Head(queue[w]) # NoItem
    BY <1>1, <1>2, <2>1, WorkerAssumption, Zenon
  <2>3. Current(w) = {} /\ Current(w)' = {Head(queue[w])}
    BY <1>2, <2>2, Zenon DEF Current
  <2>4. Ran(w)' \subseteq Ran(w)
    BY <1>1, <1>3, <1>5, Zenon DEF Ran, Finished
  <2> QED
    BY <1>1, <1>5, <2>1, <2>2, <2>3, <2>4, Zenon DEF Queued
<1> QED
  BY <1>1, <1>4, <1>5, Zenon

\* It keeps the order: what ran was stacked before all that is queued.
LEMMA NextTaskOrderly ==
  ASSUME IInv, IInv', InOrder, NEW w \in Workers, NextTask(w)
  PROVE  Orderly
<1> SUFFICES ASSUME NEW v \in Workers
             PROVE  Ordered(v)' /\ Known(v)' \subseteq Known(v)
  BY NextTaskItems, Zenon DEF Orderly
<1>1. CASE v # w
  BY <1>1, NextTaskItems, ShrinksOrdered, Zenon
<1>2. CASE v = w
  <2>1. /\ Current(w)' = {Head(queue[w])}
        /\ Queued(w) = Queued(w)' \cup {Head(queue[w])}
        /\ Before({Head(queue[w])}, Queued(w)') /\ Ascending(queue[w])'
        /\ Ran(w)' \subseteq Ran(w) /\ gc' = gc
    BY NextTaskItems, Zenon
  <2>2. Ascending(gc[w]) /\ Before(Ran(w), Queued(w))
    BY Zenon DEF InOrder, Ordered
  <2> QED
    BY <1>2, <2>1, <2>2, Zenon DEF Ordered, Known, Before
<1> QED
  BY <1>1, <1>2, Zenon

\* pmmpthread_worker_add_garbage makes the running item the last that ran.
LEMMA GarbageItems ==
  ASSUME IInv, IInv', InOrder, NEW w \in Workers, AddGarbage(w), NEW v \in Workers
  PROVE  /\ v # w => Shrinks(v)
         /\ v = w =>
              /\ running[w] \in Item /\ cur[w] = running[w]
              /\ Current(w) = {running[w]} /\ Current(w)' = {}
              /\ Finished(w)' = Finished(w) \cup {running[w]}
              /\ Ran(w)' = Ran(w) \cup {running[w]}
              /\ Ascending(gc[w])'
         /\ queue' = queue /\ stacked' = stacked
<1>0. TypeOK /\ RunningItem /\ TypeOK' /\ RunningItem'
  BY Zenon DEF IInv
<1>1. /\ pc[w] = "garbage" /\ UNCHANGED <<queue, stacked, cur, done>>
      /\ gc' = [gc EXCEPT ![w] = Append(gc[w], running[w])]
      /\ running' = [running EXCEPT ![w] = NoItem]
      /\ pc' = [pc EXCEPT ![w] = "cache"]
  BY Zenon DEF AddGarbage, Garbage
<1>2. /\ gc \in [Workers -> Seq(Item)]
      /\ gc[w] \in Seq(Item)
      /\ pc \in [Workers -> Places]
      /\ running \in [Workers -> Item \cup {NoItem}]
      /\ running[w] \in Item
      /\ running[w] # NoItem
      /\ cur[w] = running[w] /\ done[w] \in Seq(Item)
  <2>1. running[w] # NoItem /\ cur[w] = running[w]
    BY <1>0, <1>1, Zenon DEF RunningItem, Busy
  <2> QED
    BY <1>0, <2>1, Zenon DEF TypeOK
<1>4. CASE v # w
  <2>1. Held(v)' = Held(v)
    BY <1>0, <1>4, WorkerSame, Zenon DEF Same
  <2> QED
    BY <1>1, <1>2, <1>4, <2>1, Zenon
    DEF Shrinks, InOrder, Ordered, Ran, Finished, Current, Queued
<1>5. CASE v = w
  <2>1. Current(w) = {running[w]} /\ Current(w)' = {}
    BY <1>1, <1>2, Zenon DEF Current
  <2>2. /\ gc'[w] = Append(gc[w], running[w])
        /\ pc'[w] = "cache"
        /\ done'[w] = done[w]
        /\ cur'[w] = cur[w]
    BY <1>1, <1>2, Zenon
  <2>3. Held(w) = done[w] /\ Held(w)' = Append(done[w], running[w])
    <3>1. pc[w] # "cache" => Held(w) = done[w]
      BY <1>0, HeldItems, Zenon
    <3>2. Held(w)' = done'[w] \o <<cur'[w]>>
      BY <2>2, Zenon DEF Held
    <3>3. \A s \in Seq(Item) : \A i \in Item : s \o <<i>> = Append(s, i)
      OBVIOUS
    <3> QED
      BY <1>1, <1>2, <2>2, <3>1, <3>2, <3>3, Zenon
  <2>4. Range(Append(done[w], running[w])) = Range(done[w]) \cup {running[w]}
    BY <1>2, AppendItems, Zenon
  <2>5. Before(Range(gc[w]), {running[w]})
    BY <2>1, Zenon DEF InOrder, Ordered, Before, Ran, Finished
  <2>6. /\ Range(Append(gc[w], running[w])) = Range(gc[w]) \cup {running[w]}
        /\ Ascending(Append(gc[w], running[w]))
    BY <1>2, <2>5, AppendItems, Zenon DEF InOrder, Ordered
  <2> QED
    BY <1>1, <1>2, <1>5, <2>1, <2>2, <2>3, <2>4, <2>6, Zenon DEF Ran, Finished
<1> QED
  BY <1>1, <1>4, <1>5, Zenon

\* It keeps the order: the running item was stacked after what ran before.
LEMMA GarbageOrderly ==
  ASSUME IInv, IInv', InOrder, NEW w \in Workers, AddGarbage(w)
  PROVE  Orderly
<1> SUFFICES ASSUME NEW v \in Workers
             PROVE  Ordered(v)' /\ Known(v)' \subseteq Known(v)
  BY GarbageItems, Zenon DEF Orderly
<1>1. CASE v # w
  BY <1>1, GarbageItems, ShrinksOrdered, Zenon
<1>2. CASE v = w
  <2>1. /\ Current(w) = {running[w]} /\ Current(w)' = {} /\ queue' = queue
        /\ Ran(w)' = Ran(w) \cup {running[w]} /\ Ascending(gc[w])'
    BY GarbageItems, Zenon
  <2>2. /\ Ascending(queue[w])
        /\ Before(Ran(w), Queued(w)) /\ Before(Current(w), Queued(w))
    BY Zenon DEF InOrder, Ordered
  <2> QED
    BY <1>2, <2>1, <2>2, Zenon DEF Ordered, Known, Before, Queued
<1> QED
  BY <1>1, <1>2, Zenon

\* stack() adds an item with a new number to the end of one queue.
LEMMA StackItems ==
  ASSUME IInv, InOrder, Numbered, NEW w \in Workers, NEW t \in Tasks,
         StackAdd(w, t), NEW v \in Workers
  PROVE  /\ stacked' = stacked + 1 /\ stacked < MaxItems /\ cpc' = "idle"
         /\ Ran(v)' = Ran(v)
         /\ Current(v)' = Current(v)
         /\ Finished(v)' = Finished(v)
         /\ Queued(v)' = IF v = w THEN Queued(v) \cup {[id |-> stacked + 1, task |-> t]}
                                  ELSE Queued(v)
         /\ Ordered(v)'
<1> DEFINE i == [id |-> stacked + 1, task |-> t]
<1>0. TypeOK /\ Control /\ stacked \in Nat
  BY Zenon DEF IInv, TypeOK
<1>1. /\ cpc = "stack"
      /\ cpc' = "idle"
      /\ stacked' = stacked + 1
      /\ UNCHANGED <<gc, running>>
      /\ queue' = [queue EXCEPT ![w] = Append(queue[w], i)]
  BY Zenon DEF StackAdd
<1>2. i \in Item /\ i.id = stacked + 1
  BY <1>0 DEF Item
<1> HIDE DEF i
<1>3. /\ queue \in [Workers -> Seq(Item)]
      /\ queue[w] \in Seq(Item)
      /\ queue[v] \in Seq(Item)
  BY <1>0, Zenon DEF TypeOK
<1>4. Ran(v)' = Ran(v) /\ Current(v)' = Current(v) /\ Finished(v)' = Finished(v)
  <2>1. Held(v)' = Held(v)
    BY <1>0, CreatorSame, Zenon DEF Same
  <2> QED
    BY <1>1, <2>1, Zenon DEF Ran, Current, Finished
<1>5. Before(Known(v), {i})
  <2>1. \A j \in Known(v) : j.id \in Nat /\ j.id <= stacked
    BY Zenon DEF Numbered, Item
  <2> QED
    BY <1>0, <1>2, <2>1 DEF Before
<1>6. Before(Queued(v), {i}) /\ Before(Ran(v), {i}) /\ Before(Current(v), {i})
  BY <1>5, Zenon DEF Before, Known
<1>7. /\ Range(Append(queue[v], i)) = Queued(v) \cup {i}
      /\ Ascending(Append(queue[v], i))
  BY <1>2, <1>3, <1>6, AppendItems, Zenon DEF Queued, InOrder, Ordered
<1>8. /\ queue'[v] = IF v = w THEN Append(queue[v], i) ELSE queue[v]
      /\ Queued(v)' = IF v = w THEN Queued(v) \cup {i} ELSE Queued(v)
  BY <1>1, <1>3, <1>7, Zenon DEF Queued
<1>9. Ordered(v)'
  <2>1. Ascending(queue[v])' /\ Ascending(gc[v])' /\ Before(Ran(v), Current(v))'
    BY <1>1, <1>4, <1>7, <1>8, Zenon DEF InOrder, Ordered, Ascending, Before
  <2>2. Before(Ran(v), Queued(v))' /\ Before(Current(v), Queued(v))'
    BY <1>4, <1>6, <1>8, Zenon DEF InOrder, Ordered, Before
  <2> QED
    BY <2>1, <2>2, Zenon DEF Ordered
<1> QED
  BY <1>0, <1>1, <1>4, <1>8, <1>9, Zenon DEF Numbered, i

\* Every other step only takes items away.
LEMMA OthersShrink ==
  ASSUME IInv, IInv', InOrder, NEW w \in Workers, NEW v \in Workers,
         CreatorStep(w) \/ CreatorCalls(w) \/ WorkerStep(w),
         ~(\E t \in Tasks : StackAdd(w, t)), ~NextTask(w), ~AddGarbage(w)
  PROVE  Shrinks(v) /\ stacked' = stacked
<1>1. CASE WorkerStep(w)
  BY <1>1, QuietWorker, QuietShrinks, Zenon DEF Quiet
<1>2. CASE \/ Start(w) \/ Create(w) \/ CreateFails(w) \/ StartReturns(w)
           \/ StackCheck(w) \/ CollectWait(w) \/ (\E drop \in BOOLEAN : Join(w, drop))
           \/ JoinSync(w) \/ JoinExit(w)
  BY <1>2, QuietCreator, QuietShrinks, Zenon DEF Quiet
<1>3. CASE Unstack(w)
  BY <1>3, UnstackShrinks, Zenon
<1>4. CASE Collect(w) \/ CollectTurn(w)
  BY <1>4, CollectShrinks, Zenon
<1>5. CASE JoinReturns(w) \/ Free(w)
  BY <1>5, FreeShrinks, Zenon
<1> QED
  BY <1>1, <1>2, <1>3, <1>4, <1>5, Zenon DEF CreatorStep, CreatorCalls

\* stack() is called no more than MaxItems times.
LEMMA StackedFits ==
  ASSUME IInv, Numbered, NEW w \in Workers,
         CreatorStep(w) \/ CreatorCalls(w) \/ WorkerStep(w)
  PROVE  stacked' <= MaxItems /\ (cpc' = "stack" => stacked' < MaxItems)
<1>0. stacked \in Nat /\ MaxItems \in Nat /\ stacked <= MaxItems
  BY WorkerAssumption, Zenon DEF IInv, TypeOK, Numbered
<1>1. CASE \E t \in Tasks : StackAdd(w, t)
  <2>1. stacked' = stacked + 1 /\ cpc = "stack" /\ cpc' = "idle"
    BY <1>1, Zenon DEF StackAdd
  <2>2. stacked < MaxItems
    BY <2>1, Zenon DEF Numbered
  <2> QED
    BY <1>0, <2>1, <2>2
<1>2. CASE StackCheck(w)
  BY <1>0, <1>2, Zenon DEF StackCheck
<1>3. CASE ~(\E t \in Tasks : StackAdd(w, t)) /\ ~StackCheck(w)
  <2>1. stacked' = stacked /\ (cpc' = "stack" => cpc = "stack")
    <3>1. CASE CreatorStep(w) \/ CreatorCalls(w)
      BY <1>3, <3>1, Zenon
      DEF CreatorStep, CreatorCalls, Start, Create, CreateFails, StartReturns,
          Unstack, Collect, CollectWait, CollectTurn, Join, JoinSync, JoinExit,
          JoinReturns, Free, creatorVars
    <3>2. CASE WorkerStep(w)
      BY <3>2, Zenon
      DEF WorkerStep, Boot, RunRefused, RunCheck, RunBegin, RunReturns,
          RunFails, RunEnd, WorkerError, AddGarbage, NotifyGarbage, CacheDone,
          NextTask, NoNextTask, ReleaseCollected, Finish, Exit, WakeCreator,
          creatorVars
    <3> QED
      BY <3>1, <3>2, Zenon
  <2> QED
    BY <1>0, <2>1, Zenon DEF Numbered
<1> QED
  BY <1>1, <1>2, <1>3, Zenon

\* Every step keeps the numbering and the order of the items.
LEMMA OrderNext ==
  ASSUME IInv, IInv', Numbered, InOrder, NEW w \in Workers,
         CreatorStep(w) \/ CreatorCalls(w) \/ WorkerStep(w)
  PROVE  Numbered' /\ InOrder'
<1>1. CASE \E t \in Tasks : StackAdd(w, t)
  <2>1. PICK t \in Tasks : StackAdd(w, t)
    BY <1>1, Zenon
  <2> DEFINE i == [id |-> stacked + 1, task |-> t]
  <2>2. i \in Item /\ i.id = stacked + 1 /\ stacked \in Nat
    BY DEF IInv, TypeOK, Item
  <2>3. /\ stacked' = stacked + 1
        /\ \A v \in Workers :
             /\ Ordered(v)'
             /\ Known(v)' = IF v = w THEN Known(v) \cup {i} ELSE Known(v)
    BY <2>1, StackItems, Zenon DEF Known
  <2> HIDE DEF i
  <2>4. \A v \in Workers : \A j \in Known(v) : j \in Item /\ j.id \in Nat /\ j.id <= stacked
    BY Zenon DEF Numbered, Item
  <2>5. \A n \in Nat : n <= stacked => n <= stacked + 1 /\ n # stacked + 1
    BY <2>2
  <2>6. stacked + 1 <= stacked + 1
    BY <2>2
  <2>7. Numbered'
    BY <2>2, <2>3, <2>4, <2>5, <2>6, StackedFits, Zenon DEF Numbered
  <2>8. InOrder'
    <3> SUFFICES ASSUME NEW u \in Workers, NEW v \in Workers, u # v,
                        NEW j \in Known(u)', NEW k \in Known(v)'
                 PROVE  j.id # k.id
      BY <2>3, Zenon DEF InOrder
    <3>1. j \in Known(u) \/ (u = w /\ j = i)
      BY <2>3, Zenon
    <3>2. k \in Known(v) \/ (v = w /\ k = i)
      BY <2>3, Zenon
    <3> QED
      BY <2>2, <2>4, <2>5, <3>1, <3>2, Zenon DEF InOrder
  <2> QED
    BY <2>7, <2>8, Zenon
<1>2. CASE ~(\E t \in Tasks : StackAdd(w, t))
  <2>1. Orderly
    <3>1. CASE ~NextTask(w) /\ ~AddGarbage(w)
      BY <1>2, <3>1, OthersShrink, ShrinksOrdered, Zenon DEF Orderly
    <3> QED
      BY <3>1, NextTaskOrderly, GarbageOrderly, Zenon
  <2>2. /\ \A v \in Workers : \A i \in Known(v)' : i \in Item /\ i.id <= stacked'
        /\ \A u, v \in Workers : u # v =>
             \A i \in Known(u)' : \A j \in Known(v)' : i.id # j.id
    BY <2>1, KnownKept, Zenon DEF Orderly
  <2> QED
    BY <2>1, <2>2, StackedFits, Zenon DEF Orderly, Numbered, InOrder
<1> QED
  BY <1>1, <1>2, Zenon

-----------------------------------------------------------------------------
(* A failed task is seen to have failed.                                   *)

\* The mark of an error on a worker stays.
LEMMA ErrorStays ==
  ASSUME IInv, NEW w \in Workers, NEW v \in Workers,
         CreatorStep(w) \/ CreatorCalls(w) \/ WorkerStep(w), "ERROR" \in mon[v]
  PROVE  "ERROR" \in mon'[v]
<1>0. TypeOK /\ Control /\ mon \in [Workers \cup Tasks -> SUBSET Bits]
  BY Zenon DEF IInv, TypeOK
<1>1. CASE CreatorStep(w) \/ CreatorCalls(w)
  BY <1>0, <1>1, CreatorEffect, CreatorMayDo, Zenon
<1>2. CASE WorkerStep(w)
  <2>1. \/ UNCHANGED mon
        \/ \E o \in Workers \cup Tasks, b \in Bits \ {"ERROR"} :
             Add(o, b) \/ Remove(o, b)
        \/ \E o \in Workers \cup Tasks : Add(o, "ERROR")
    BY <1>0, <1>2, SubjectType, Zenon
    DEF WorkerStep, Boot, RunRefused, RunCheck, RunBegin, RunReturns, RunFails,
        RunEnd, WorkerError, MarkCrash, AddGarbage, CacheDone, NextTask,
        NoNextTask, ReleaseCollected, Finish, Exit, Bits
  <2> QED
    BY <1>0, <2>1, Zenon DEF Add, Remove
<1> QED
  BY <1>1, <1>2, Zenon

\* A task fails only while it is the running one.
LEMMA CrashedGrows ==
  ASSUME IInv, Numbered, InOrder, NEW w \in Workers,
         CreatorStep(w) \/ CreatorCalls(w) \/ WorkerStep(w)
  PROVE  \/ crashed' = crashed
         \/ /\ RunRefused(w) \/ RunFails(w)
            /\ crashed' = crashed \cup Current(w)
<1>1. CASE RunRefused(w) \/ RunFails(w)
  <2>1. cur[w] = running[w]
    BY <1>1, Zenon DEF IInv, RunningItem, Busy, RunRefused, RunFails
  <2> QED
    BY <1>1, <2>1, Zenon DEF RunRefused, RunFails, RecordCrash, Current
<1>2. CASE ~(RunRefused(w) \/ RunFails(w))
  BY <1>2, Zenon
  DEF CreatorStep, CreatorCalls, Start, Create, CreateFails, StartReturns,
      StackCheck, StackAdd, Unstack, Collect, CollectWait, CollectTurn, Join,
      JoinSync, JoinExit, JoinReturns, Free, history, WorkerStep, Boot,
      RunCheck, RunBegin, RunReturns, RunEnd, WorkerError, AddGarbage,
      CacheDone, NextTask, NoNextTask, Finish, Exit
<1> QED
  BY <1>1, <1>2, Zenon

\* An item is in one place only.
LEMMA OnePlace ==
  ASSUME Numbered, InOrder, NEW v \in Workers, NEW w \in Workers
  PROVE  /\ Current(w) \cap Ran(v) = {} /\ Current(w) \cap Queued(v) = {}
         /\ Ran(w) \cap Queued(v) = {}
         /\ v # w => Current(w) \cap Current(v) = {}
<1>1. \A i \in Item : ~(i.id < i.id)
  BY DEF Item
<1>2. CASE v = w
  BY <1>1, <1>2, Zenon DEF Numbered, InOrder, Ordered, Before, Known
<1>3. CASE v # w
  BY <1>3, Zenon DEF InOrder, Known
<1> QED
  BY <1>2, <1>3, Zenon

\* An item that is new to a queue is new.
LEMMA QueuedNext ==
  ASSUME IInv, IInv', Numbered, InOrder, NEW w \in Workers, NEW v \in Workers,
         CreatorStep(w) \/ CreatorCalls(w) \/ WorkerStep(w)
  PROVE  Queued(v)' \subseteq Queued(v) \cup {i \in Item : i.id > stacked}
<1>1. CASE \E t \in Tasks : StackAdd(w, t)
  <2>1. PICK t \in Tasks : StackAdd(w, t)
    BY <1>1, Zenon
  <2> DEFINE i == [id |-> stacked + 1, task |-> t]
  <2>2. i \in Item /\ i.id > stacked
    BY DEF IInv, TypeOK, Item
  <2>3. Queued(v)' = IF v = w THEN Queued(v) \cup {i} ELSE Queued(v)
    BY <2>1, StackItems, Zenon
  <2> QED
    BY <2>2, <2>3, Zenon
<1>2. CASE NextTask(w)
  BY <1>2, NextTaskItems, Zenon DEF Shrinks
<1>3. CASE AddGarbage(w)
  BY <1>3, GarbageItems, Zenon DEF Queued
<1>4. CASE ~(\E t \in Tasks : StackAdd(w, t)) /\ ~NextTask(w) /\ ~AddGarbage(w)
  BY <1>4, OthersShrink, Zenon DEF Shrinks
<1> QED
  BY <1>1, <1>2, <1>3, <1>4, Zenon

\* Only the task that was running joins those that ran.
LEMMA RanNext ==
  ASSUME IInv, IInv', Numbered, InOrder, NEW w \in Workers, NEW v \in Workers,
         CreatorStep(w) \/ CreatorCalls(w) \/ WorkerStep(w)
  PROVE  \/ Ran(v)' \subseteq Ran(v)
         \/ AddGarbage(w) /\ v = w /\ Ran(v)' = Ran(v) \cup Current(v)
<1>1. CASE \E t \in Tasks : StackAdd(w, t)
  BY <1>1, StackItems, Zenon
<1>2. CASE NextTask(w)
  BY <1>2, NextTaskItems, Zenon DEF Shrinks
<1>3. CASE AddGarbage(w)
  BY <1>3, GarbageItems, Zenon DEF Shrinks
<1>4. CASE ~(\E t \in Tasks : StackAdd(w, t)) /\ ~NextTask(w) /\ ~AddGarbage(w)
  BY <1>4, OthersShrink, Zenon DEF Shrinks
<1> QED
  BY <1>1, <1>2, <1>3, <1>4, Zenon

\* Only a queued task becomes the running one.
LEMMA RunningNext ==
  ASSUME IInv, IInv', Numbered, InOrder, NEW w \in Workers, NEW v \in Workers,
         CreatorStep(w) \/ CreatorCalls(w) \/ WorkerStep(w), running'[v] # NoItem
  PROVE  \/ running'[v] = running[v] /\ running[v] \in Current(v)
         \/ NextTask(w) /\ v = w /\ running'[v] \in Queued(v)
<1>1. CASE \E t \in Tasks : StackAdd(w, t)
  BY <1>1, Zenon DEF StackAdd, Current
<1>2. CASE NextTask(w)
  BY <1>2, NextTaskItems, Zenon DEF Shrinks, Current
<1>3. CASE AddGarbage(w)
  <2>1. /\ running' = [running EXCEPT ![w] = NoItem]
        /\ running \in [Workers -> Item \cup {NoItem}]
    BY <1>3, Zenon DEF AddGarbage, IInv, TypeOK
  <2> QED
    BY <2>1, Zenon DEF Current
<1>4. CASE ~(\E t \in Tasks : StackAdd(w, t)) /\ ~NextTask(w) /\ ~AddGarbage(w)
  BY <1>4, OthersShrink, Zenon DEF Shrinks, Current
<1> QED
  BY <1>1, <1>2, <1>3, <1>4, Zenon

\* Every step keeps CrashVisible: add_garbage is reached with a failed task only
\* through the step that sets ERROR, and the mark stays.
LEMMA CrashVisibleNext ==
  ASSUME IInv, IInv', Numbered, InOrder, CrashTraced, CrashVisible, NEW w \in Workers,
         CreatorStep(w) \/ CreatorCalls(w) \/ WorkerStep(w)
  PROVE  CrashVisible'
<1> SUFFICES ASSUME NEW v \in Workers, NEW i \in Ran(v)', i \in crashed'
             PROVE  "ERROR" \in mon'[v]
  BY Zenon DEF CrashVisible, Ran, Finished
<1>1. CASE i \in Ran(v)
  <2>1. i \in crashed
    BY <1>1, CrashedGrows, OnePlace, Zenon
  <2>2. "ERROR" \in mon[v]
    BY <1>1, <2>1, Zenon DEF CrashVisible, Ran, Finished
  <2> QED
    BY <2>2, ErrorStays, Zenon
<1>2. CASE i \notin Ran(v)
  <2>1. AddGarbage(w) /\ v = w /\ i \in Current(v)
    BY <1>2, RanNext, Zenon
  <2>2. crashed' = crashed /\ i = running[w]
    BY <2>1, Zenon DEF AddGarbage, history, Current
  <2>3. failed[w] /\ pc[w] = "garbage"
    BY <2>1, <2>2, Zenon DEF CrashTraced, AddGarbage
  <2>4. "ERROR" \in mon[w]
    BY <2>3, Zenon DEF IInv, FailureMarked
  <2> QED
    BY <2>1, <2>4, ErrorStays, Zenon
<1> QED
  BY <1>1, <1>2, Zenon

\* Every step keeps track of the failed items: a task that fails is the running
\* one, hence not queued, and a new item has a new number.
LEMMA CrashTracedNext ==
  ASSUME IInv, IInv', Numbered, InOrder, CrashTraced, NEW w \in Workers,
         CreatorStep(w) \/ CreatorCalls(w) \/ WorkerStep(w)
  PROVE  CrashTraced'
<1>0. TypeOK /\ Control /\ RunningItem /\ stacked \in Nat /\ crashed \in SUBSET Item
  BY Zenon DEF IInv, TypeOK
<1>1. \A i \in crashed' : i \in Item /\ i.id <= stacked
  BY <1>0, CrashedGrows, Zenon DEF Numbered, Known, CrashTraced
<1>2. \A i \in crashed' : i.id <= stacked'
  <2>1. stacked' = stacked \/ stacked' = stacked + 1
    BY OthersShrink, NextTaskItems, GarbageItems, Zenon DEF StackAdd
  <2> QED
    BY <1>0, <1>1, <2>1 DEF Item
<1>3. ASSUME NEW v \in Workers PROVE Queued(v)' \cap crashed' = {}
  <2>1. \A i \in Item : i.id <= stacked => ~(i.id > stacked)
    BY <1>0 DEF Item
  <2>2. Queued(v) \cap crashed' = {}
    BY CrashedGrows, OnePlace, Zenon DEF CrashTraced
  <2> QED
    BY <1>1, <2>1, <2>2, QueuedNext, Zenon
<1>4. ASSUME NEW v \in Workers, running'[v] \in crashed'
      PROVE  failed'[v] /\ pc'[v] \in {"end", "error", "garbage"}
  <2>1. running'[v] # NoItem
    BY <1>1, <1>4, WorkerAssumption, Zenon
  <2>2. running'[v] \notin Queued(v)
    BY <1>4, CrashedGrows, OnePlace, Zenon DEF CrashTraced
  <2>3. running'[v] = running[v] /\ running[v] \in Current(v)
    BY <2>1, <2>2, RunningNext, Zenon
  <2>4. CASE (RunRefused(w) \/ RunFails(w)) /\ v = w
    <3>1. cur[w] = running[w]
      BY <1>0, <2>4, Zenon DEF RunningItem, Busy, RunRefused, RunFails
    <3> QED
      BY <1>0, <2>1, <2>3, <2>4, <3>1, Zenon
      DEF RunRefused, RunFails, AfterRun, TypeOK
  <2>5. CASE ~((RunRefused(w) \/ RunFails(w)) /\ v = w)
    <3>0. crashed' = crashed \/ (crashed' = crashed \cup Current(w) /\ v # w)
      BY <2>5, CrashedGrows, Zenon
    <3>6. v # w => running[v] \notin Current(w)
      BY <2>3, OnePlace, Zenon
    <3>7. running[v] \in crashed'
      BY <1>4, <2>3, Zenon
    <3>1. running[v] \in crashed
      BY <3>0, <3>6, <3>7, Zenon
    <3>2. failed[v] /\ pc[v] \in {"end", "error", "garbage"}
      BY <3>1, Zenon DEF CrashTraced
    <3>3. CASE CreatorStep(w) \/ CreatorCalls(w)
      BY <1>0, <3>2, <3>3, CreatorEffect, CreatorMayDo, Zenon
    <3>4. CASE WorkerStep(w) /\ v # w
      <4>1. failed'[v] = failed[v] /\ pc'[v] = pc[v]
        BY <1>0, <3>4, Zenon
        DEF WorkerStep, Boot, RunRefused, RunCheck, RunBegin, RunReturns,
            RunFails, RunEnd, WorkerError, AddGarbage, CacheDone, NextTask,
            NoNextTask, Finish, Exit, TypeOK
      <4> QED
        BY <3>2, <4>1, Zenon
    <3>5. CASE WorkerStep(w) /\ v = w
      <4>1. RunEnd(w) \/ WorkerError(w) \/ AddGarbage(w)
        BY <3>2, <3>5, Zenon
        DEF WorkerStep, Boot, RunRefused, RunCheck, RunBegin, RunReturns,
            RunFails, CacheDone, NextTask, NoNextTask, Finish, Exit
      <4>2. cur[w] = running[w] /\ running[w] # NoItem
        BY <1>0, <2>1, <2>3, <3>2, <3>5, Zenon DEF RunningItem, Busy
      <4>3. ~AddGarbage(w)
        BY <1>0, <2>1, <3>5, Zenon DEF AddGarbage, TypeOK
      <4> QED
        BY <1>0, <3>2, <3>5, <4>1, <4>2, <4>3, Zenon
        DEF RunEnd, WorkerError, AfterRun, TypeOK
    <3> QED
      BY <3>3, <3>4, <3>5, Zenon
  <2> QED
    BY <2>4, <2>5, Zenon
<1> QED
  BY <1>2, <1>3, <1>4, Zenon DEF CrashTraced

-----------------------------------------------------------------------------
(* The order and the failures, always.                                     *)

\* The strengthening.
OInv == IInv /\ Numbered /\ InOrder /\ CrashTraced /\ CrashVisible

\* At first there are no items.
LEMMA InitOInv == Init => OInv
<1> SUFFICES ASSUME Init PROVE OInv
  BY Zenon
<1>1. IInv
  BY InitIInv, Zenon
<1>2. \A w \in Workers : Held(w) = <<>>
  BY DEF Init, Held
<1>3. \A w \in Workers : Known(w) = {} /\ Ran(w) = {} /\ Current(w) = {} /\ Queued(w) = {}
  BY <1>2, EmptyItems, Zenon DEF Init, Known, Ran, Current, Queued, Finished
<1>4. stacked = 0 /\ 0 <= MaxItems /\ cpc # "stack"
  BY WorkerAssumption DEF Init
<1>5. Numbered
  BY <1>3, <1>4, Zenon DEF Numbered
<1>6. InOrder
  BY <1>3, EmptyItems, Zenon DEF Init, InOrder, Ordered, Before
<1>7. CrashTraced /\ CrashVisible
  BY Zenon DEF Init, CrashTraced, CrashVisible
<1> QED
  BY <1>1, <1>5, <1>6, <1>7, Zenon DEF OInv

\* Every step keeps the strengthened invariant.
LEMMA NextOInv == OInv /\ [Next]_vars => OInv'
<1> SUFFICES ASSUME OInv, [Next]_vars PROVE OInv'
  BY Zenon
<1>1. IInv'
  BY NextIInv, Zenon DEF OInv
<1>2. CASE UNCHANGED vars
  <2>1. UNCHANGED <<queue, gc, running, pc, cur, done, stacked, cpc, mon, failed, crashed>>
    BY <1>2, Zenon DEF vars, taskVars, threadVars, creatorVars, history
  <2>2. \A w \in Workers : UNCHANGED <<Held(w), Known(w), Ran(w), Current(w), Queued(w)>>
    BY <2>1, Zenon DEF Held, Known, Ran, Current, Queued, Finished
  <2>3. Numbered' /\ InOrder'
    BY <2>1, <2>2, Zenon DEF OInv, Numbered, InOrder, Ordered
  <2>4. CrashTraced' /\ CrashVisible'
    BY <2>1, <2>2, Zenon DEF OInv, CrashTraced, CrashVisible
  <2> QED
    BY <1>1, <2>3, <2>4, Zenon DEF OInv
<1>3. ASSUME NEW w \in Workers, CreatorStep(w) \/ CreatorCalls(w) \/ WorkerStep(w)
      PROVE  OInv'
  <2>1. IInv /\ Numbered /\ InOrder /\ CrashTraced /\ CrashVisible
    BY Zenon DEF OInv
  <2> QED
    BY <1>1, <1>3, <2>1, OrderNext, CrashTracedNext, CrashVisibleNext, Zenon
    DEF OInv
<1> QED
  BY <1>2, <1>3, Zenon DEF Next

\* For any number of workers and items, a worker's items run and finish in the
\* order in which stack() numbered them, no item is known to two workers, and a
\* failed item is traced until its error shows.
THEOREM WorkerOrdered == Spec => []OInv
  BY InitOInv, NextOInv, PTL DEF Spec

\* For any number of workers and items, a failed task can be collected, or is
\* held by the thread, only when the worker shows ERROR, as the comment in
\* routine.c:129-130 requires for waiting on collect().
THEOREM CrashVisibleAlways == Spec => []CrashVisible
<1>1. OInv => CrashVisible
  BY Zenon DEF OInv
<1> QED
  BY <1>1, WorkerOrdered, PTL

-----------------------------------------------------------------------------
(* The refinement.                                                         *)

\* An item of that number is among I.
Has(I, n) == \E i \in I : i.id = n

\* A place of TaskLife.
At(w, st) == [st |-> st, on |-> w]

\* Where an item is in TaskLife, from the sets it is in.
Fits(n) ==
  /\ n > stacked => PlaceOf(n) = [st |-> "new"]
  /\ \A w \in Workers :
       /\ PlaceOf(n) = At(w, "queued") <=> Has(Queued(w), n)
       /\ PlaceOf(n) = At(w, "running") <=> Has(Current(w), n)
       /\ PlaceOf(n) = At(w, "finished") <=> Has(Finished(w), n)
  /\ \/ n > stacked
     \/ \E w \in Workers : Has(Queued(w), n) \/ Has(Current(w), n) \/ Has(Finished(w), n)
     \/ PlaceOf(n) = [st |-> "out"]

\* An item number is in one place.
LEMMA HasOne ==
  ASSUME stacked \in Nat, Numbered, InOrder,
         NEW n \in 1..MaxItems, NEW v \in Workers, NEW w \in Workers
  PROVE  /\ Has(Known(w), n) => ~(n > stacked)
         /\ Has(Known(v), n) /\ Has(Known(w), n) => v = w
         /\ Has(Queued(w), n) => ~Has(Current(w), n) /\ ~Has(Finished(w), n)
         /\ Has(Current(w), n) => ~Has(Finished(w), n)
<1>1. Has(Known(w), n) => ~(n > stacked)
  <2> SUFFICES ASSUME NEW i \in Known(w), i.id = n PROVE ~(n > stacked)
    BY Zenon DEF Has
  <2>1. i.id <= stacked
    BY Zenon DEF Numbered
  <2> QED
    BY <2>1
<1>2. Has(Known(v), n) /\ Has(Known(w), n) => v = w
  BY Zenon DEF Has, InOrder
<1>3. ~(n < n)
  OBVIOUS
<1>4. /\ Has(Queued(w), n) => ~Has(Current(w), n) /\ ~Has(Finished(w), n)
      /\ Has(Current(w), n) => ~Has(Finished(w), n)
  BY <1>3, Zenon DEF Has, InOrder, Ordered, Before, Ran
<1> QED
  BY <1>1, <1>2, <1>4, Zenon

\* PlaceOf, which chooses the worker, finds the one there is: an item is known
\* to one worker and is in one of its three places.
LEMMA PlacesFit == IInv /\ Numbered /\ InOrder => \A n \in 1..MaxItems : Fits(n)
<1> SUFFICES ASSUME IInv, Numbered, InOrder, NEW n \in 1..MaxItems PROVE Fits(n)
  BY Zenon
<1>0. stacked \in Nat
  BY Zenon DEF IInv, TypeOK
<1> DEFINE Is(i) == i # NoItem /\ i.id = n
           q == CHOOSE w \in Workers : \E i \in Range(queue[w]) : Is(i)
           r == CHOOSE w \in Workers : Is(running[w])
           f == CHOOSE w \in Workers : \E i \in Range(gc[w]) : Is(i)
<1>1. PlaceOf(n) = IF n > stacked THEN [st |-> "new"]
      ELSE IF \E w \in Workers : \E i \in Range(queue[w]) : Is(i)
        THEN [st |-> "queued", on |-> q]
      ELSE IF \E w \in Workers : Is(running[w]) THEN [st |-> "running", on |-> r]
      ELSE IF \E w \in Workers : \E i \in Range(gc[w]) : Is(i)
        THEN [st |-> "finished", on |-> f]
      ELSE [st |-> "out"]
  BY Zenon DEF PlaceOf
<1>2. ASSUME NEW w \in Workers
      PROVE  /\ (\E i \in Range(queue[w]) : Is(i)) <=> Has(Queued(w), n)
             /\ Is(running[w]) <=> Has(Current(w), n)
             /\ (\E i \in Range(gc[w]) : Is(i)) <=> Has(Finished(w), n)
  <2>1. \A i \in Known(w) : i # NoItem
    BY WorkerAssumption, Zenon DEF Numbered
  <2> QED
    BY <2>1, Zenon DEF Has, Queued, Current, Finished, Known, Ran
<1>3. (\E w \in Workers : \E i \in Range(queue[w]) : Is(i)) =>
        q \in Workers /\ Has(Queued(q), n)
  BY <1>2, Zenon
<1>4. (\E w \in Workers : Is(running[w])) => r \in Workers /\ Has(Current(r), n)
  BY <1>2, Zenon
<1>5. (\E w \in Workers : \E i \in Range(gc[w]) : Is(i)) =>
        f \in Workers /\ Has(Finished(f), n)
  BY <1>2, Zenon
<1> HIDE DEF Is, q, r, f
<1>6. \A w \in Workers :
        Has(Queued(w), n) \/ Has(Current(w), n) \/ Has(Finished(w), n) => Has(Known(w), n)
  BY Zenon DEF Has, Known, Ran
<1>7. PlaceOf(n) = IF n > stacked THEN [st |-> "new"]
      ELSE IF \E w \in Workers : Has(Queued(w), n) THEN At(q, "queued")
      ELSE IF \E w \in Workers : Has(Current(w), n) THEN At(r, "running")
      ELSE IF \E w \in Workers : Has(Finished(w), n) THEN At(f, "finished")
      ELSE [st |-> "out"]
  BY <1>1, <1>2, Zenon DEF At
<1>8. \A v, w \in Workers :
        At(v, "queued") # At(w, "running") /\ At(v, "queued") # At(w, "finished")
                            /\ At(v, "running") # At(w, "finished")
  BY DEF At
<1>9. \A v, w : \A st : At(v, st) = At(w, st) => v = w
  BY DEF At
<1>10. \A v, st : st \in {"queued", "running", "finished"} =>
         At(v, st) # [st |-> "new"] /\ At(v, st) # [st |-> "out"]
  BY DEF At
<1>11. CASE n > stacked
  BY <1>6, <1>7, <1>10, <1>0, <1>11, HasOne, Zenon DEF Fits
<1>12. CASE ~(n > stacked) /\ \E w \in Workers : Has(Queued(w), n)
  <2>1. PlaceOf(n) = At(q, "queued") /\ q \in Workers /\ Has(Queued(q), n)
    BY <1>2, <1>3, <1>7, <1>12, Zenon
  <2> QED
    BY <2>1, <1>6, <1>8, <1>9, <1>0, <1>12, HasOne, Zenon DEF Fits
<1>13. CASE /\ ~(n > stacked) /\ ~(\E w \in Workers : Has(Queued(w), n))
            /\ \E w \in Workers : Has(Current(w), n)
  <2>1. PlaceOf(n) = At(r, "running") /\ r \in Workers /\ Has(Current(r), n)
    BY <1>2, <1>4, <1>7, <1>13, Zenon
  <2> QED
    BY <2>1, <1>6, <1>8, <1>9, <1>0, <1>13, HasOne, Zenon DEF Fits
<1>14. CASE /\ ~(n > stacked) /\ ~(\E w \in Workers : Has(Queued(w), n))
            /\ ~(\E w \in Workers : Has(Current(w), n))
            /\ \E w \in Workers : Has(Finished(w), n)
  <2>1. PlaceOf(n) = At(f, "finished") /\ f \in Workers /\ Has(Finished(f), n)
    BY <1>2, <1>5, <1>7, <1>14, Zenon
  <2> QED
    BY <2>1, <1>6, <1>8, <1>9, <1>0, <1>14, HasOne, Zenon DEF Fits
<1>15. CASE /\ ~(n > stacked)
            /\ ~\E w \in Workers :
                  Has(Queued(w), n) \/ Has(Current(w), n) \/ Has(Finished(w), n)
  BY <1>7, <1>10, <1>15, Zenon DEF Fits
<1> QED
  BY <1>11, <1>12, <1>13, <1>14, <1>15, Zenon

\* The same after a step.
LEMMA PlacesFitNext == (IInv /\ Numbered /\ InOrder)' => \A n \in 1..MaxItems : Fits(n)'
<1>1. (IInv /\ Numbered /\ InOrder => \A n \in 1..MaxItems : Fits(n))'
  BY PlacesFit, PTL
<1> QED
  BY <1>1, Zenon

\* A step that moves no item numbered n.
Kept(n) ==
  /\ n > stacked' <=> n > stacked
  /\ \A w \in Workers :
       /\ Has(Queued(w), n)' <=> Has(Queued(w), n)
       /\ Has(Current(w), n)' <=> Has(Current(w), n)
       /\ Has(Finished(w), n)' <=> Has(Finished(w), n)

\* An item that the step does not move keeps its place.
LEMMA KeptPlace ==
  ASSUME NEW n, Fits(n), Fits(n)', Kept(n) PROVE PlaceOf(n)' = PlaceOf(n)
<1>1. CASE n > stacked
  BY <1>1, Zenon DEF Fits, Kept
<1>2. CASE /\ ~(n > stacked)
           /\ \E w \in Workers :
                Has(Queued(w), n) \/ Has(Current(w), n) \/ Has(Finished(w), n)
  BY <1>2, Zenon DEF Fits, Kept
<1>3. CASE /\ ~(n > stacked)
           /\ ~\E w \in Workers :
                 Has(Queued(w), n) \/ Has(Current(w), n) \/ Has(Finished(w), n)
  BY <1>3, Zenon DEF Fits, Kept
<1> QED
  BY <1>1, <1>2, <1>3, Zenon

\* The items of a worker in TaskLife.
LEMMA LifeOn ==
  ASSUME NEW w \in Workers, \A n \in 1..MaxItems : Fits(n)
  PROVE  /\ Life!On(w, "queued") = {n \in 1..MaxItems : Has(Queued(w), n)}
         /\ Life!On(w, "running") = {n \in 1..MaxItems : Has(Current(w), n)}
         /\ Life!On(w, "finished") = {n \in 1..MaxItems : Has(Finished(w), n)}
  BY Zenon DEF Life!On, Life!At, Life!Ids, Fits, At

\* A step that moves one item.
LEMMA MoveOne ==
  ASSUME \A n \in 1..MaxItems : Fits(n) /\ Fits(n)',
         NEW m \in 1..MaxItems, stacked' = stacked,
         \A n \in 1..MaxItems : n # m => Kept(n), NEW to, PlaceOf(m)' = to
  PROVE  Life!Move(m, to)
<1>1. \A n \in 1..MaxItems : n # m => PlaceOf(n)' = PlaceOf(n)
  BY KeptPlace, Zenon
<1> QED
  BY <1>1, Zenon DEF Life!Move, Life!Ids

\* The oldest queued item leaves the queue.
LEMMA HeadLeaves ==
  ASSUME IInv, Numbered, InOrder, NEW w \in Workers, queue[w] # <<>>,
         queue' = [queue EXCEPT ![w] = Tail(queue[w])], stacked' = stacked
  PROVE  \E m \in 1..MaxItems :
             /\ m = Head(queue[w]).id /\ ~(m > stacked)
             /\ Has(Queued(w), m) /\ ~Has(Queued(w), m)'
             /\ \A n \in 1..MaxItems : Has(Queued(w), n) => m <= n
             /\ \A v \in Workers : \A n \in 1..MaxItems :
                  v # w \/ n # m => (Has(Queued(v), n)' <=> Has(Queued(v), n))
<1>0. /\ queue \in [Workers -> Seq(Item)]
      /\ queue[w] \in Seq(Item)
      /\ stacked \in Nat
      /\ MaxItems \in Nat
  BY WorkerAssumption, Zenon DEF IInv, TypeOK
<1>1. PICK h \in Item : /\ h = Head(queue[w])
                        /\ Range(queue[w]) = Range(Tail(queue[w])) \cup {h}
                        /\ Before({h}, Range(Tail(queue[w])))
  BY <1>0, TailItems, Zenon DEF InOrder, Ordered
<1>2. /\ Queued(w) = Queued(w)' \cup {h} /\ Before({h}, Queued(w)')
      /\ \A v \in Workers : v # w => Queued(v)' = Queued(v)
  BY <1>0, <1>1, Zenon DEF Queued
<1>3. h.id \in 1..MaxItems /\ ~(h.id > stacked)
  <2>1. h.id <= stacked /\ stacked <= MaxItems
    BY <1>2, Zenon DEF Numbered, Known
  <2> QED
    BY <1>0, <1>1, <2>1 DEF Item
<1>4. \A n \in 1..MaxItems : (h.id < n => h.id <= n) /\ h.id <= h.id /\ ~(h.id < h.id)
  BY <1>3
<1>5. Has(Queued(w), h.id) /\ ~Has(Queued(w), h.id)'
  BY <1>2, <1>3, <1>4, Zenon DEF Has, Before
<1>6. \A n \in 1..MaxItems : Has(Queued(w), n) => h.id <= n
  BY <1>2, <1>4, Zenon DEF Has, Before
<1>7. \A v \in Workers : \A n \in 1..MaxItems :
        v # w \/ n # h.id => (Has(Queued(v), n)' <=> Has(Queued(v), n))
  <2> SUFFICES ASSUME NEW v \in Workers, NEW n \in 1..MaxItems, v # w \/ n # h.id
               PROVE  Has(Queued(v), n)' <=> Has(Queued(v), n)
    BY Zenon
  <2>1. CASE v = w
    BY <1>2, <2>1, Zenon DEF Has
  <2>2. CASE v # w
    BY <1>2, <2>2, Zenon DEF Has
  <2> QED
    BY <2>1, <2>2, Zenon
<1> QED
  BY <1>1, <1>3, <1>5, <1>6, <1>7, Zenon

\* unstack() withdraws the first queued item.
LEMMA UnstackLife ==
  ASSUME OInv, OInv', NEW w \in Workers, Unstack(w)
  PROVE  Life!Withdraw(w)
<1>0. /\ IInv
      /\ Numbered
      /\ InOrder
      /\ stacked \in Nat
      /\ (IInv /\ Numbered /\ InOrder)'
  BY Zenon DEF OInv, IInv, TypeOK
<1>1. /\ queue[w] # <<>> /\ queue' = [queue EXCEPT ![w] = Tail(queue[w])]
      /\ UNCHANGED <<gc, running, stacked>>
  BY Zenon DEF Unstack
<1>2. \A n \in 1..MaxItems : Fits(n) /\ Fits(n)'
  BY <1>0, PlacesFit, PlacesFitNext, Zenon
<1>3. PICK m \in 1..MaxItems :
      /\ ~(m > stacked)
      /\ Has(Queued(w), m) /\ ~Has(Queued(w), m)'
      /\ \A n \in 1..MaxItems : Has(Queued(w), n) => m <= n
      /\ \A v \in Workers : \A n \in 1..MaxItems :
           v # w \/ n # m => (Has(Queued(v), n)' <=> Has(Queued(v), n))
  BY <1>0, <1>1, HeadLeaves, Zenon
<1>4. \A v \in Workers : \A n \in 1..MaxItems :
        /\ Has(Current(v), n)' <=> Has(Current(v), n)
        /\ Has(Finished(v), n)' <=> Has(Finished(v), n)
  BY <1>1, Zenon DEF Current, Finished, Has
<1>5. \A n \in 1..MaxItems : n # m => Kept(n)
  BY <1>1, <1>3, <1>4, Zenon DEF Kept
<1>6. \A v \in Workers :
        ~Has(Queued(v), m)' /\ ~Has(Current(v), m)' /\ ~Has(Finished(v), m)'
  <2>1. \A v \in Workers : v # w => ~Has(Queued(v), m)
    BY <1>0, <1>3, HasOne, Zenon DEF Has, Known
  <2>2. \A v \in Workers : ~Has(Current(v), m) /\ ~Has(Finished(v), m)
    <3> TAKE v \in Workers
    <3>1. Has(Current(v), m) \/ Has(Finished(v), m) => Has(Known(v), m)
      BY Zenon DEF Has, Known, Ran
    <3>2. Has(Known(w), m)
      BY <1>3, Zenon DEF Has, Known
    <3> QED
      BY <1>0, <1>3, <3>1, <3>2, HasOne, Zenon
  <2> QED
    BY <1>3, <1>4, <2>1, <2>2, Zenon
<1>7. PlaceOf(m)' = [st |-> "out"]
  BY <1>1, <1>2, <1>3, <1>6, Zenon DEF Fits
<1>8. Life!Move(m, Life!Out)
  BY <1>1, <1>2, <1>3, <1>5, <1>7, MoveOne, Zenon DEF Life!Out
<1>9. Life!First(w, "queued", m)
  BY <1>2, <1>3, LifeOn, Zenon DEF Life!First
<1> QED
  BY <1>3, <1>8, <1>9, Zenon DEF Life!Withdraw, Life!Ids

\* pmmpthread_worker_next_task begins the first queued item, and none runs then.
LEMMA NextTaskLife ==
  ASSUME OInv, OInv', NEW w \in Workers, NextTask(w)
  PROVE  Life!Begin(w)
<1>0. /\ IInv
      /\ Numbered
      /\ InOrder
      /\ stacked \in Nat
      /\ (IInv /\ Numbered /\ InOrder)'
  BY Zenon DEF OInv, IInv, TypeOK
<1>1. /\ queue[w] # <<>> /\ queue' = [queue EXCEPT ![w] = Tail(queue[w])]
      /\ UNCHANGED <<gc, stacked>>
      /\ running' = [running EXCEPT ![w] = Head(queue[w])]
  BY Zenon DEF NextTask, NextItem
<1>2. \A n \in 1..MaxItems : Fits(n) /\ Fits(n)'
  BY <1>0, PlacesFit, PlacesFitNext, Zenon
<1>3. PICK m \in 1..MaxItems :
      /\ m = Head(queue[w]).id
      /\ Has(Queued(w), m) /\ ~Has(Queued(w), m)'
      /\ \A n \in 1..MaxItems : Has(Queued(w), n) => m <= n
      /\ \A v \in Workers : \A n \in 1..MaxItems :
           v # w \/ n # m => (Has(Queued(v), n)' <=> Has(Queued(v), n))
  BY <1>0, <1>1, HeadLeaves, Zenon
<1>4. Current(w) = {} /\ Current(w)' = {Head(queue[w])}
  BY <1>0, NextTaskItems, Zenon
<1>5. Has(Current(w), m)' /\ \A n \in 1..MaxItems : n # m => ~Has(Current(w), n)'
  BY <1>3, <1>4, Zenon DEF Has
<1>6. \A v \in Workers : \A n \in 1..MaxItems :
        /\ v # w => (Has(Current(v), n)' <=> Has(Current(v), n))
        /\ Has(Finished(v), n)' <=> Has(Finished(v), n)
  <2>1. \A v \in Workers : v # w => running'[v] = running[v]
    BY <1>0, <1>1, Zenon DEF IInv, TypeOK
  <2> QED
    BY <1>1, <2>1, Zenon DEF Current, Finished, Has
<1>7. \A n \in 1..MaxItems : ~Has(Current(w), n)
  BY <1>4, Zenon DEF Has
<1>8. \A n \in 1..MaxItems : n # m => Kept(n)
  BY <1>1, <1>3, <1>5, <1>6, <1>7, Zenon DEF Kept
<1>9. PlaceOf(m)' = At(w, "running")
  BY <1>2, <1>3, <1>5, Zenon DEF Fits
<1>10. Life!Move(m, Life!At(w, "running"))
  BY <1>1, <1>2, <1>3, <1>8, <1>9, MoveOne, Zenon DEF Life!At, At
<1>11. Life!First(w, "queued", m) /\ Life!On(w, "running") = {}
  BY <1>2, <1>3, <1>7, LifeOn, Zenon DEF Life!First
<1> QED
  BY <1>3, <1>10, <1>11, Zenon DEF Life!Begin, Life!Ids

\* pmmpthread_worker_add_garbage finishes the item that runs.
LEMMA GarbageLife ==
  ASSUME OInv, OInv', NEW w \in Workers, AddGarbage(w)
  PROVE  Life!Finish(w)
<1>0. /\ IInv
      /\ Numbered
      /\ InOrder
      /\ stacked \in Nat
      /\ (IInv /\ Numbered /\ InOrder)'
      /\ MaxItems \in Nat
  BY WorkerAssumption, Zenon DEF OInv, IInv, TypeOK
<1>1. /\ UNCHANGED <<queue, stacked>>
      /\ gc' = [gc EXCEPT ![w] = Append(gc[w], running[w])]
      /\ running' = [running EXCEPT ![w] = NoItem]
  BY Zenon DEF AddGarbage, Garbage
<1>2. \A n \in 1..MaxItems : Fits(n) /\ Fits(n)'
  BY <1>0, PlacesFit, PlacesFitNext, Zenon
<1>3. /\ running[w] \in Item /\ Current(w) = {running[w]} /\ Current(w)' = {}
      /\ Finished(w)' = Finished(w) \cup {running[w]}
  BY <1>0, GarbageItems, Zenon
<1>4. PICK m \in 1..MaxItems : m = running[w].id
  <2>1. running[w].id <= stacked /\ stacked <= MaxItems
    BY <1>0, <1>3, Zenon DEF Numbered, Known
  <2> QED
    BY <1>0, <1>3, <2>1 DEF Item
<1>5. /\ Has(Current(w), m) /\ Has(Finished(w), m)'
      /\ \A n \in 1..MaxItems : n # m =>
           /\ ~Has(Current(w), n) /\ ~Has(Current(w), n)'
           /\ Has(Finished(w), n)' <=> Has(Finished(w), n)
  BY <1>3, <1>4, Zenon DEF Has
<1>6. \A v \in Workers : \A n \in 1..MaxItems :
        /\ Has(Queued(v), n)' <=> Has(Queued(v), n)
        /\ v # w => (Has(Current(v), n)' <=> Has(Current(v), n))
        /\ v # w => (Has(Finished(v), n)' <=> Has(Finished(v), n))
  <2>1. \A v \in Workers : v # w => running'[v] = running[v] /\ gc'[v] = gc[v]
    BY <1>0, <1>1, Zenon DEF IInv, TypeOK
  <2> QED
    BY <1>1, <2>1, Zenon DEF Queued, Current, Finished, Has
<1>8. \A n \in 1..MaxItems : n # m => Kept(n)
  BY <1>1, <1>5, <1>6, Zenon DEF Kept
<1>9. PlaceOf(m)' = At(w, "finished")
  BY <1>2, <1>4, <1>5, Zenon DEF Fits
<1>10. Life!Move(m, Life!At(w, "finished"))
  BY <1>1, <1>2, <1>4, <1>8, <1>9, MoveOne, Zenon DEF Life!At, At
<1>11. m \in Life!On(w, "running")
  BY <1>2, <1>4, <1>5, LifeOn, Zenon
<1> QED
  BY <1>10, <1>11, Zenon DEF Life!Finish

\* stack() gives the next number to a new item and queues it.
LEMMA StackLife ==
  ASSUME OInv, OInv', NEW w \in Workers, NEW t \in Tasks, StackAdd(w, t)
  PROVE  Life!Stack(w)
<1>0. /\ IInv
      /\ Numbered
      /\ InOrder
      /\ stacked \in Nat
      /\ (IInv /\ Numbered /\ InOrder)'
      /\ MaxItems \in Nat
  BY WorkerAssumption, Zenon DEF OInv, IInv, TypeOK
<1>1. \A n \in 1..MaxItems : Fits(n) /\ Fits(n)'
  BY <1>0, PlacesFit, PlacesFitNext, Zenon
<1>2. stacked' = stacked + 1 /\ stacked < MaxItems
  BY <1>0, StackItems, Zenon
<1>3. PICK m \in 1..MaxItems : m = stacked + 1
  BY <1>0, <1>2
<1>4. PICK i : i = [id |-> stacked + 1, task |-> t]
  BY Zenon
<1>5. i.id = m
  BY <1>3, <1>4
<1>6. \A v \in Workers :
        /\ Current(v)' = Current(v) /\ Finished(v)' = Finished(v)
        /\ Queued(v)' = IF v = w THEN Queued(v) \cup {i} ELSE Queued(v)
  BY <1>0, <1>4, StackItems, Zenon
<1>7. \A n \in 1..MaxItems : n # m => (n > stacked' <=> n > stacked)
  BY <1>0, <1>2, <1>3
<1>8. \A n \in 1..MaxItems : n # m => Kept(n)
  <2> SUFFICES ASSUME NEW n \in 1..MaxItems, n # m, NEW v \in Workers
               PROVE  /\ Has(Queued(v), n)' <=> Has(Queued(v), n)
                      /\ Has(Current(v), n)' <=> Has(Current(v), n)
                      /\ Has(Finished(v), n)' <=> Has(Finished(v), n)
    BY <1>7, Zenon DEF Kept
  <2>1. Has(Queued(v), n)' <=> Has(Queued(v), n)
    BY <1>5, <1>6, Zenon DEF Has
  <2> QED
    BY <1>6, <2>1, Zenon DEF Has
<1>9. PlaceOf(m)' = At(w, "queued")
  <2>1. Has(Queued(w), m)'
    BY <1>5, <1>6, Zenon DEF Has
  <2> QED
    BY <1>1, <2>1, Zenon DEF Fits
<1>10. \A n \in 1..MaxItems : n # m => PlaceOf(n)' = PlaceOf(n)
  BY <1>1, <1>8, KeptPlace, Zenon
<1> QED
  BY <1>2, <1>3, <1>9, <1>10, Zenon DEF Life!Stack, Life!At, Life!Ids, At

\* A step that takes the items numbered in D away.
LEMMA MoveOut ==
  ASSUME \A n \in 1..MaxItems : Fits(n) /\ Fits(n)', stacked' = stacked, NEW D,
         \A n \in 1..MaxItems : n \notin D => Kept(n),
         \A n \in 1..MaxItems : n \in D =>
           /\ ~(n > stacked)
           /\ \A v \in Workers :
                ~Has(Queued(v), n)' /\ ~Has(Current(v), n)' /\ ~Has(Finished(v), n)'
  PROVE  \A n \in 1..MaxItems : PlaceOf(n)' = IF n \in D THEN [st |-> "out"] ELSE PlaceOf(n)
<1> TAKE n \in 1..MaxItems
<1>1. CASE n \in D
  BY <1>1, Zenon DEF Fits
<1>2. CASE n \notin D
  BY <1>2, KeptPlace, Zenon
<1> QED
  BY <1>1, <1>2, Zenon

\* Whom worker w has queued or finished is nowhere else.
LEMMA HasOnly ==
  ASSUME stacked \in Nat, Numbered, InOrder, NEW n \in 1..MaxItems, NEW w \in Workers,
         Has(Queued(w), n) \/ Has(Finished(w), n)
  PROVE  /\ ~(n > stacked)
         /\ \A v \in Workers :
              /\ ~Has(Current(v), n)
              /\ v # w \/ Has(Finished(w), n) => ~Has(Queued(v), n)
              /\ v # w \/ Has(Queued(w), n) => ~Has(Finished(v), n)
<1>1. \A v \in Workers :
        Has(Queued(v), n) \/ Has(Current(v), n) \/ Has(Finished(v), n) => Has(Known(v), n)
  BY Zenon DEF Has, Known, Ran
<1> QED
  BY <1>1, HasOne, Zenon

\* A turn of collect() collects first what finished first, or changes nothing.
LEMMA CollectLife ==
  ASSUME OInv, OInv', NEW w \in Workers, Collect(w) \/ CollectTurn(w)
  PROVE  Life!Collect(w) \/ UNCHANGED <<queue, gc, running, stacked>>
<1>0. /\ IInv
      /\ Numbered
      /\ InOrder
      /\ stacked \in Nat
      /\ (IInv /\ Numbered /\ InOrder)'
      /\ MaxItems \in Nat /\ gc \in [Workers -> Seq(Item)] /\ gc[w] \in Seq(Item)
  BY WorkerAssumption, Zenon DEF OInv, IInv, TypeOK
<1>1. PICK k \in 0..Len(gc[w]) : gc' = [gc EXCEPT ![w] = DropFirst(gc[w], k)]
  <2>1. Len(gc[w]) \in 0..Len(gc[w])
    BY <1>0
  <2> QED
    BY <2>1, Zenon DEF Collect, CollectTurn, CollectTasks
<1>2. UNCHANGED <<queue, running, stacked>>
  BY Zenon DEF Collect, CollectTurn
<1>3. CASE k = 0
  <2>1. DropFirst(gc[w], 0) = gc[w]
    BY <1>0 DEF DropFirst
  <2>2. gc' = gc
    BY <1>0, <1>1, <1>3, <2>1, Zenon
  <2> QED
    BY <1>2, <2>2, Zenon
<1>4. CASE k # 0
  <2>0. k > 0
    BY <1>4
  <2>1. PICK i : /\ i = gc[w][k]
                 /\ i \in Finished(w)
                 /\ Finished(w)' = {j \in Finished(w) : i.id < j.id}
    <3>1. gc'[w] = DropFirst(gc[w], k)
      BY <1>0, <1>1, Zenon
    <3> QED
      BY <1>0, <2>0, <3>1, DropItems, Zenon DEF InOrder, Ordered, Finished
  <2>2. PICK m \in 1..MaxItems : m = i.id
    <3>1. i \in Item /\ i.id <= stacked /\ stacked <= MaxItems
      BY <1>0, <2>1, Zenon DEF Numbered, Known, Ran
    <3> QED
      BY <1>0, <3>1 DEF Item
  <2>3. \A v \in Workers :
          /\ Queued(v)' = Queued(v) /\ Current(v)' = Current(v)
          /\ v # w => Finished(v)' = Finished(v)
    BY <1>0, <1>1, <1>2, Zenon DEF Queued, Current, Finished
  <2>4. \A n \in 1..MaxItems : Has(Finished(w), n)' <=> Has(Finished(w), n) /\ m < n
    BY <2>1, <2>2, Zenon DEF Has
  <2>5. \A n \in 1..MaxItems : m < n <=> ~(n <= m)
    OBVIOUS
  <2> DEFINE D == {n \in 1..MaxItems : n <= m /\ Has(Finished(w), n)}
  <2>6. PICK E : E = D
    BY Zenon
  <2>7. ASSUME NEW n \in 1..MaxItems, n \notin E PROVE Kept(n)
    <3>1. Has(Finished(w), n)' <=> Has(Finished(w), n)
      BY <2>4, <2>5, <2>6, <2>7, Zenon
    <3>2. ASSUME NEW v \in Workers
          PROVE  /\ Has(Queued(v), n)' <=> Has(Queued(v), n)
                 /\ Has(Current(v), n)' <=> Has(Current(v), n)
                 /\ v # w => (Has(Finished(v), n)' <=> Has(Finished(v), n))
      BY <2>3, Zenon DEF Has
    <3> QED
      BY <1>2, <3>1, <3>2, Zenon DEF Kept
  <2>8. ASSUME NEW n \in 1..MaxItems, n \in E
        PROVE  /\ ~(n > stacked)
               /\ \A v \in Workers :
                    ~Has(Queued(v), n)' /\ ~Has(Current(v), n)' /\ ~Has(Finished(v), n)'
    <3>1. Has(Finished(w), n) /\ ~Has(Finished(w), n)'
      BY <2>4, <2>5, <2>6, <2>8, Zenon
    <3>2. /\ ~(n > stacked)
          /\ \A v \in Workers : /\ ~Has(Current(v), n) /\ ~Has(Queued(v), n)
                                /\ v # w => ~Has(Finished(v), n)
      BY <1>0, <3>1, HasOnly, Zenon
    <3> QED
      BY <2>3, <3>1, <3>2, Zenon DEF Has
  <2>9. \A n \in 1..MaxItems : Fits(n) /\ Fits(n)'
    BY <1>0, PlacesFit, PlacesFitNext, Zenon
  <2>10. \A n \in 1..MaxItems : PlaceOf(n)' = IF n \in E THEN [st |-> "out"] ELSE PlaceOf(n)
    BY <1>2, <2>7, <2>8, <2>9, MoveOut, Zenon
  <2>11. Life!On(w, "finished") = {n \in 1..MaxItems : Has(Finished(w), n)}
    BY <2>9, LifeOn, Zenon
  <2>12. m \in Life!On(w, "finished")
    BY <2>1, <2>2, <2>11, Zenon DEF Has
  <2>13. \A n \in 1..MaxItems : n \in E <=> n <= m /\ n \in Life!On(w, "finished")
    BY <2>6, <2>11, Zenon
  <2> QED
    BY <1>2, <2>10, <2>12, <2>13, Zenon DEF Life!Collect, Life!Ids, Life!Out
<1> QED
  BY <1>3, <1>4, Zenon

\* Freeing the worker's data discards what it has, or there was nothing to free.
LEMMA FreeLife ==
  ASSUME OInv, OInv', NEW w \in Workers, JoinReturns(w) \/ Free(w)
  PROVE  Life!Discard(w) \/ UNCHANGED <<queue, gc, running, stacked>>
<1>0. /\ IInv
      /\ Numbered
      /\ InOrder
      /\ stacked \in Nat
      /\ (IInv /\ Numbered /\ InOrder)'
      /\ gc \in [Workers -> Seq(Item)] /\ queue \in [Workers -> Seq(Item)]
  BY Zenon DEF OInv, IInv, TypeOK
<1>1. UNCHANGED <<running, stacked>> /\ (UNCHANGED <<queue, gc>> \/ FreeData(w))
  BY Zenon DEF JoinReturns, Free
<1>2. CASE UNCHANGED <<queue, gc>>
  BY <1>1, <1>2, Zenon
<1>3. CASE FreeData(w)
  <2>1. running[w] = NoItem
    <3>1. pc[w] \in {"none", "gone"}
      BY <1>0, Zenon DEF JoinReturns, Free, NeedsJoin, IInv, Control
    <3> QED
      BY <1>0, <3>1, Zenon DEF IInv, RunningItem, Busy
  <2>2. \A v \in Workers :
          /\ Current(v)' = Current(v)
          /\ v # w => Queued(v)' = Queued(v) /\ Finished(v)' = Finished(v)
    BY <1>0, <1>1, <1>3, Zenon DEF FreeData, Queued, Current, Finished
  <2>3. Queued(w)' = {} /\ Finished(w)' = {} /\ Current(w) = {}
    BY <1>0, <1>3, <2>1, EmptyItems, Zenon
    DEF FreeData, Queued, Current, Finished
  <2>4. PICK E : E = {n \in 1..MaxItems : Has(Queued(w), n) \/ Has(Finished(w), n)}
    BY Zenon
  <2>5. ASSUME NEW n \in 1..MaxItems, n \notin E PROVE Kept(n)
    <3>1. /\ ~Has(Queued(w), n) /\ ~Has(Queued(w), n)'
          /\ ~Has(Finished(w), n) /\ ~Has(Finished(w), n)'
      BY <2>3, <2>4, <2>5, Zenon DEF Has
    <3>2. ASSUME NEW v \in Workers
          PROVE  /\ v # w => (Has(Queued(v), n)' <=> Has(Queued(v), n))
                 /\ Has(Current(v), n)' <=> Has(Current(v), n)
                 /\ v # w => (Has(Finished(v), n)' <=> Has(Finished(v), n))
      BY <2>2, Zenon DEF Has
    <3> QED
      BY <1>1, <3>1, <3>2, Zenon DEF Kept
  <2>6. ASSUME NEW n \in 1..MaxItems, n \in E
        PROVE  /\ ~(n > stacked)
               /\ \A v \in Workers :
                    ~Has(Queued(v), n)' /\ ~Has(Current(v), n)' /\ ~Has(Finished(v), n)'
    <3>1. Has(Queued(w), n) \/ Has(Finished(w), n)
      BY <2>4, <2>6, Zenon
    <3>2. /\ ~(n > stacked)
          /\ \A v \in Workers : /\ ~Has(Current(v), n)
                                /\ v # w => ~Has(Queued(v), n) /\ ~Has(Finished(v), n)
      BY <1>0, <3>1, HasOnly, Zenon
    <3>3. ~Has(Queued(w), n)' /\ ~Has(Finished(w), n)'
      BY <2>3, Zenon DEF Has
    <3> QED
      BY <2>2, <3>2, <3>3, Zenon DEF Has
  <2>7. \A n \in 1..MaxItems : Fits(n) /\ Fits(n)'
    BY <1>0, PlacesFit, PlacesFitNext, Zenon
  <2>8. \A n \in 1..MaxItems : PlaceOf(n)' = IF n \in E THEN [st |-> "out"] ELSE PlaceOf(n)
    BY <1>1, <2>5, <2>6, <2>7, MoveOut, Zenon
  <2>9. /\ Life!On(w, "queued") = {n \in 1..MaxItems : Has(Queued(w), n)}
        /\ Life!On(w, "running") = {n \in 1..MaxItems : Has(Current(w), n)}
        /\ Life!On(w, "finished") = {n \in 1..MaxItems : Has(Finished(w), n)}
    BY <2>7, LifeOn, Zenon
  <2>10. Life!On(w, "running") = {}
    BY <2>3, <2>9, Zenon DEF Has
  <2>11. \A n \in 1..MaxItems :
           n \in E <=> n \in Life!On(w, "queued") \cup Life!On(w, "finished")
    BY <2>4, <2>9, Zenon
  <2> QED
    BY <1>1, <2>8, <2>10, <2>11, Zenon DEF Life!Discard, Life!Ids, Life!Out
<1> QED
  BY <1>1, <1>2, <1>3, Zenon

\* The queues alone decide where the items are.
LEMMA SamePlaces ==
  ASSUME UNCHANGED <<queue, gc, running, stacked>>
  PROVE  UNCHANGED Life!vars
  BY Zenon DEF Life!vars, PlaceOf

\* Every step of creator, worker or thread is a step of TaskLife or leaves its
\* variables alone.
LEMMA LifeNext == OInv /\ OInv' /\ [Next]_vars => [Life!Next]_(Life!vars)
<1> SUFFICES ASSUME OInv, OInv', [Next]_vars PROVE Life!Next \/ UNCHANGED Life!vars
  BY Zenon
<1>1. CASE UNCHANGED vars
  BY <1>1, SamePlaces, Zenon DEF vars, taskVars
<1>2. ASSUME NEW w \in Workers, CreatorStep(w) \/ CreatorCalls(w) \/ WorkerStep(w)
      PROVE  Life!Next \/ UNCHANGED <<queue, gc, running, stacked>>
  <2>0. IInv /\ IInv' /\ InOrder
    BY Zenon DEF OInv
  <2>1. CASE \E t \in Tasks : StackAdd(w, t)
    BY <2>1, StackLife, Zenon DEF Life!Next
  <2>2. CASE Unstack(w)
    BY <2>2, UnstackLife, Zenon DEF Life!Next
  <2>3. CASE NextTask(w)
    BY <2>3, NextTaskLife, Zenon DEF Life!Next
  <2>4. CASE AddGarbage(w)
    BY <2>4, GarbageLife, Zenon DEF Life!Next
  <2>5. CASE Collect(w) \/ CollectTurn(w)
    BY <2>5, CollectLife, Zenon DEF Life!Next
  <2>6. CASE JoinReturns(w) \/ Free(w)
    BY <2>6, FreeLife, Zenon DEF Life!Next
  <2>7. CASE WorkerStep(w) /\ ~NextTask(w) /\ ~AddGarbage(w)
    BY <2>0, <2>7, QuietWorker, Zenon DEF Quiet
  <2>8. CASE \/ Start(w) \/ Create(w) \/ CreateFails(w) \/ StartReturns(w)
             \/ StackCheck(w) \/ CollectWait(w) \/ (\E drop \in BOOLEAN : Join(w, drop))
             \/ JoinSync(w) \/ JoinExit(w)
    BY <2>0, <2>8, QuietCreator, Zenon DEF Quiet
  <2> QED
    BY <1>2, <2>1, <2>2, <2>3, <2>4, <2>5, <2>6, <2>7, <2>8, Zenon
    DEF CreatorStep, CreatorCalls
<1> QED
  BY <1>1, <1>2, SamePlaces, Zenon DEF Next

\* The initial states are initial states of TaskLife.
LEMMA LifeInit == Init => Life!Init
<1> SUFFICES ASSUME Init PROVE Life!Init
  BY Zenon
<1>1. stacked = 0 /\ \A n \in 1..MaxItems : n > stacked
  BY DEF Init
<1> QED
  BY <1>1, Zenon DEF Life!Init, Life!Ids, Life!New, PlaceOf

\* For any number of workers and items, Worker implements TaskLife under
\* PlaceOf: each item runs at most once, on the worker it was stacked on, first
\* come first served, one at a time, and is collected after it ran.
THEOREM WorkerImplements == Spec => ImplementsTaskLife
<1>1. Spec => []OInv
  BY WorkerOrdered
<1> QED
  BY <1>1, LifeInit, LifeNext, PTL DEF Spec, ImplementsTaskLife, Life!Spec
=============================================================================
