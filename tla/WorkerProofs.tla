---------------------------- MODULE WorkerProofs ----------------------------
(***************************************************************************)
(* The safety theorems of Worker, for any number of workers, tasks and     *)
(* items: the inductive invariant, that every step keeps it conjunct by    *)
(* conjunct, and what it implies.                                          *)
(***************************************************************************)
EXTENDS Worker, TLAPS

-----------------------------------------------------------------------------
(* The inductive invariant.                                                *)

Busy == {"check", "begin", "body", "end", "error", "garbage"}

\* The bits of a worker's monitor, the place of its thread and the place of its
\* creator agree.
Control ==
  /\ cpc = "idle" => cw = NoWorker
  /\ \A w \in Workers :
       /\ "STARTED" \in mon[w] <=> pc[w] # "none" \/ (cpc = "create" /\ cw = w)
       /\ cpc = "create" /\ cw = w => pc[w] = "none"
       /\ cpc = "stack" /\ cw = w => "JOINED" \notin mon[w]
       /\ cpc \in {"await", "exit", "join"} /\ cw = w => "JOINED" \in mon[w]
       /\ cpc = "exit" /\ cw = w => "AWAIT_JOIN" \in mon[w]
       /\ cw = w => alive[w]
       /\ "JOINED" \in mon[w] =>
            \/ pc[w] = "gone"
            \/ cpc \in {"await", "exit", "join"} /\ cw = w
       /\ "AWAIT_JOIN" \in mon[w] => pc[w] \in {"await", "gone"}
       /\ "EXIT" \in mon[w] => "AWAIT_JOIN" \in mon[w]
       /\ pc[w] = "gone" => "JOINED" \in mon[w]
       /\ "EXIT" \in mon[w] => "JOINED" \in mon[w]
       /\ ~alive[w] => pc[w] \in {"none", "gone"}

\* The item a thread works on is the running one until it is put in gc.
RunningItem ==
  \A w \in Workers :
    /\ pc[w] \in Busy => cur[w] = running[w]
    /\ pc[w] \notin Busy => running[w] = NoItem
    /\ pc[w] \in {"error", "garbage"} => running[w] # NoItem
    /\ pc[w] = "cache" => cur[w] # NoItem
    /\ pc[w] \notin Busy \cup {"cache"} => cur[w] = NoItem

\* A failed run is never without its mark on the worker once it matters.
FailureMarked ==
  \A w \in Workers :
    /\ failed[w] /\ pc[w] = "end" /\ cur[w] = NoItem => "ERROR" \in mon[w]
    /\ failed[w] /\ pc[w] \in {"garbage", "cache"} => "ERROR" \in mon[w]

\* A thread that stopped without an error found the queue empty after JOINED,
\* when nothing is stacked any more.
Drained ==
  \A w \in Workers :
    pc[w] \in {"finish", "await", "gone"} /\ "ERROR" \notin mon[w] =>
      queue[w] = <<>> /\ "JOINED" \in mon[w]

\* The oldest tasks_collected connections are to tasks that collect() copied, and
\* once join() has copied the rest, so are all.
CollectedSynced ==
  \A w \in Workers : alive[w] /\ pc[w] # "gone" =>
    /\ \A i \in 1..tasks_collected[w] : Held(w)[i] \in synced
    /\ (cpc = "exit" /\ cw = w) \/ "EXIT" \in mon[w] =>
         \A i \in 1..Len(gc[w]) : gc[w][i] \in synced

IInv == TypeOK /\ Control /\ RunningItem /\ FailureMarked /\ Drained
          /\ NoStrandedTask /\ CacheMirrorsGc /\ CollectedSynced
          /\ ReleasedAfterSync

-----------------------------------------------------------------------------
(* Operators.                                                              *)

\* A task is put at the end of a sequence, whose elements stay where they are.
LEMMA AppendSeq ==
  ASSUME NEW S, NEW s \in Seq(S), NEW e \in S
  PROVE  /\ Append(s, e) \in Seq(S) /\ Len(Append(s, e)) = Len(s) + 1
         /\ \A i \in 1..Len(s) : Append(s, e)[i] = s[i]
         /\ Append(s, e)[Len(s) + 1] = e
  OBVIOUS

\* The items shifted off the front leave a sequence of the rest.
LEMMA DropFirstSeq ==
  ASSUME NEW S, NEW s \in Seq(S), NEW n \in 0..Len(s)
  PROVE  /\ DropFirst(s, n) \in Seq(S)
         /\ Len(DropFirst(s, n)) = Len(s) - n
         /\ \A i \in 1..(Len(s) - n) : DropFirst(s, n)[i] = s[n + i]
  BY DEF DropFirst

\* Shifting more than there is leaves a sequence too.
LEMMA DropFirstType ==
  ASSUME NEW S, NEW s \in Seq(S), NEW n \in Nat
  PROVE  DropFirst(s, n) \in Seq(S)
<1>1. CASE n <= Len(s) BY <1>1, DropFirstSeq
<1>2. CASE n > Len(s) BY <1>2 DEF DropFirst
<1> QED BY <1>1, <1>2

\* The object whose run() is called has a monitor; it is the worker only for the
\* worker's own run().
LEMMA SubjectType ==
  ASSUME TypeOK, NEW w \in Workers
  PROVE  /\ Subject(w) \in Workers \cup Tasks
         /\ cur[w] = NoItem => Subject(w) = w
         /\ cur[w] # NoItem => Subject(w) \in Tasks
  BY Zenon DEF TypeOK, Subject, Item

-----------------------------------------------------------------------------
(* Types.                                                                  *)

\* The types hold at the start.
LEMMA TypeInit == Init => TypeOK
<1>1. <<>> \in Seq(Item) /\ {} \in SUBSET Item /\ {} \in SUBSET Bits OBVIOUS
<1>2. "none" \in Places /\ "idle" \in CreatorPlaces BY Zenon DEF Places, CreatorPlaces
<1> SUFFICES ASSUME Init PROVE TypeOK BY Zenon
<1>3. /\ queue \in [Workers -> Seq(Item)] /\ gc \in [Workers -> Seq(Item)]
      /\ done \in [Workers -> Seq(Item)]
  BY <1>1, Zenon DEF Init
<1>5. mon \in [Workers \cup Tasks -> SUBSET Bits]
  BY SMT DEF Init, Bits
<1>4. /\ running \in [Workers -> Item \cup {NoItem}]
      /\ cur \in [Workers -> Item \cup {NoItem}]
      /\ tasks_collected \in [Workers -> Nat]
      /\ alive \in [Workers -> BOOLEAN] /\ failed \in [Workers -> BOOLEAN]
      /\ pc \in [Workers -> Places]
  BY <1>2, Zenon DEF Init
<1> QED BY <1>1, <1>2, <1>3, <1>4, <1>5, Zenon DEF Init, TypeOK

\* The monitor operations keep the types.
LEMMA MonitorTypes ==
  ASSUME TypeOK
  PROVE  /\ \A o \in Workers \cup Tasks : \A b \in Bits :
              Add(o, b) => mon' \in [Workers \cup Tasks -> SUBSET Bits]
         /\ \A o \in Workers \cup Tasks : \A b \in Bits :
              Remove(o, b) => mon' \in [Workers \cup Tasks -> SUBSET Bits]
         /\ \A w \in Workers : WakeWorker(w) => pc' \in [Workers -> Places]
         /\ \A o \in Workers \cup Tasks : WakeCreator(o) => cpc' \in CreatorPlaces
<1>1. \A o \in Workers \cup Tasks : \A b \in Bits :
        Add(o, b) => mon' \in [Workers \cup Tasks -> SUBSET Bits]
  BY DEF TypeOK, Add
<1>2. \A o \in Workers \cup Tasks : \A b \in Bits :
        Remove(o, b) => mon' \in [Workers \cup Tasks -> SUBSET Bits]
  BY DEF TypeOK, Remove
<1>3. \A w \in Workers : WakeWorker(w) => pc' \in [Workers -> Places]
  BY Zenon DEF TypeOK, WakeWorker, Places
<1>4. \A o \in Workers \cup Tasks : WakeCreator(o) => cpc' \in CreatorPlaces
  BY Zenon DEF TypeOK, WakeCreator, CreatorPlaces
<1> QED BY <1>1, <1>2, <1>3, <1>4, Zenon

\* What collect() does keeps the types.
LEMMA TypeCollectTasks ==
  ASSUME TypeOK, NEW w \in Workers, NEW n \in 0..Len(gc[w]), CollectTasks(w, n)
  PROVE  /\ gc' \in [Workers -> Seq(Item)]
         /\ synced' \in SUBSET Item
         /\ tasks_collected' \in [Workers -> Nat]
         /\ mon' \in [Workers \cup Tasks -> SUBSET Bits]
         /\ pc' \in [Workers -> Places]
<1>1. gc[w] \in Seq(Item) BY Zenon DEF TypeOK
<1>2. DropFirst(gc[w], n) \in Seq(Item) BY <1>1, DropFirstSeq, Zenon
<1>3. gc' \in [Workers -> Seq(Item)] BY <1>2, Zenon DEF TypeOK, CollectTasks
<1>4. \A i \in 1..Len(gc[w]) : gc[w][i] \in Item BY <1>1
<1>5. synced' \in SUBSET Item BY <1>4, <1>1 DEF TypeOK, CollectTasks
<1>6. CASE n = 0 BY <1>3, <1>5, <1>6, Zenon DEF TypeOK, CollectTasks
<1>7. CASE n # 0
  <2>1. Add(w, "COLLECT_GARBAGE") /\ WakeWorker(w) BY <1>7, Zenon DEF CollectTasks
  <2>2. tasks_collected' \in [Workers -> Nat]
    <3>1. tasks_collected \in [Workers -> Nat] /\ n \in Nat BY DEF TypeOK
    <3>2. tasks_collected' = [tasks_collected EXCEPT ![w] = @ + n]
      BY <1>7, Zenon DEF CollectTasks
    <3> QED BY <3>1, <3>2
  <2> QED BY <1>3, <1>5, <2>1, <2>2, MonitorTypes, Zenon DEF Bits
<1> QED BY <1>6, <1>7, Zenon

\* Every step of the creator keeps the types.
LEMMA TypeCreator ==
  ASSUME TypeOK, NEW w \in Workers, CreatorStep(w) \/ CreatorCalls(w)
  PROVE  TypeOK'
<1> USE WorkerAssumption DEF TypeOK, taskVars, threadVars, creatorVars, history
<1>1. CASE Start(w) BY <1>1, Zenon DEF Start, Add, Bits, CreatorPlaces
<1>2. CASE Create(w) BY <1>2, Zenon DEF Create, Places, CreatorPlaces
<1>3. CASE CreateFails(w) BY <1>3, Zenon DEF CreateFails, Remove, CreatorPlaces
<1>4. CASE StartReturns(w) BY <1>4, Zenon DEF StartReturns, CreatorPlaces
<1>5. CASE StackCheck(w) BY <1>5, Zenon DEF StackCheck, CreatorPlaces
<1>6. ASSUME NEW t \in Tasks, StackAdd(w, t) PROVE TypeOK'
  <2>1. [id |-> stacked + 1, task |-> t] \in Item BY DEF Item
  <2>2. queue' \in [Workers -> Seq(Item)] BY <1>6, <2>1 DEF StackAdd
  <2>3. pc' \in [Workers -> Places]
    BY <1>6, MonitorTypes, Zenon DEF StackAdd, NotifyIfEmpty
  <2> QED BY <1>6, <2>2, <2>3 DEF StackAdd, CreatorPlaces
<1>7. CASE Unstack(w) BY <1>7 DEF Unstack
<1>8. CASE Collect(w)
  <2>1. PICK n \in 0..Len(gc[w]) : CollectTasks(w, n) BY <1>8, Zenon DEF Collect
  <2> QED BY <1>8, <2>1, TypeCollectTasks, Zenon DEF Collect
<1>9. CASE CollectWait(w) BY <1>9, Zenon DEF CollectWait, CreatorPlaces
<1>10. CASE CollectTurn(w)
  <2>1. Len(gc[w]) \in 0..Len(gc[w]) /\ CollectTasks(w, Len(gc[w]))
    BY <1>10 DEF CollectTurn
  <2>2. cpc' \in CreatorPlaces /\ cw' \in Workers \cup {NoWorker}
    BY <1>10, Zenon DEF CollectTurn, CreatorPlaces
  <2> QED BY <1>10, <2>1, <2>2, TypeCollectTasks, Zenon DEF CollectTurn
<1>11. ASSUME NEW drop \in BOOLEAN, Join(w, drop) PROVE TypeOK'
  BY <1>11, Zenon DEF Join, Add, WakeWorker, Bits, Places, CreatorPlaces
<1>12. CASE JoinSync(w)
  BY <1>12 DEF JoinSync, SyncCollectable, Range, CreatorPlaces
<1>13. CASE JoinExit(w) BY <1>13, Zenon DEF JoinExit, LetExit, Add, Bits, CreatorPlaces
<1>14. CASE JoinReturns(w)
  <2>1. CASE dropping
    <3>1. FreeData(w) BY <1>14, <2>1, Zenon DEF JoinReturns
    <3>0. <<>> \in Seq(Item) OBVIOUS
    <3>2. queue' \in [Workers -> Seq(Item)] /\ gc' \in [Workers -> Seq(Item)]
      BY <3>0, <3>1, Zenon DEF FreeData
    <3>3. alive' \in [Workers -> BOOLEAN] BY <3>1, Zenon DEF FreeData
    <3> QED BY <1>14, <3>2, <3>3, Zenon DEF JoinReturns, CreatorPlaces
  <2>2. CASE ~dropping BY <1>14, <2>2, Zenon DEF JoinReturns, CreatorPlaces
  <2> QED BY <2>1, <2>2, Zenon
<1>15. CASE Free(w) BY <1>15 DEF Free, FreeData
<1> QED
  BY <1>1, <1>2, <1>3, <1>4, <1>5, <1>6, <1>7, <1>8, <1>9, <1>10, <1>11, <1>12,
     <1>13, <1>14, <1>15, ZenonT(30)
  DEF CreatorStep, CreatorCalls

\* What a turn of next_task releases keeps the types.
LEMMA TypeReleaseCollected ==
  ASSUME TypeOK, NEW w \in Workers, ReleaseCollected(w)
  PROVE  /\ done' \in [Workers -> Seq(Item)]
         /\ released' \in SUBSET Item
         /\ tasks_collected' \in [Workers -> Nat]
         /\ mon' \in [Workers \cup Tasks -> SUBSET Bits]
         /\ cpc' \in CreatorPlaces
<1>1. done[w] \in Seq(Item) /\ ReleaseCount(w) \in Nat
  BY Zenon DEF TypeOK, ReleaseCount
<1>2. DropFirst(done[w], ReleaseCount(w)) \in Seq(Item) BY <1>1, DropFirstType, Zenon
<1>3. \A i \in DOMAIN done[w] : done[w][i] \in Item BY <1>1
<1>4. CASE "COLLECT_GARBAGE" \in mon[w]
  <2>1. Remove(w, "COLLECT_GARBAGE") /\ WakeCreator(w)
    BY <1>4, Zenon DEF ReleaseCollected
  <2>2. mon' \in [Workers \cup Tasks -> SUBSET Bits] /\ cpc' \in CreatorPlaces
    BY <2>1, MonitorTypes, Zenon DEF Bits
  <2>3. done' \in [Workers -> Seq(Item)]
    BY <1>2, <1>4, Zenon DEF TypeOK, ReleaseCollected
  <2>4. released' \in SUBSET Item BY <1>3, <1>4 DEF TypeOK, ReleaseCollected
  <2>5. tasks_collected' \in [Workers -> Nat]
    <3>1. tasks_collected \in [Workers -> Nat] BY Zenon DEF TypeOK
    <3>2. tasks_collected' = [tasks_collected EXCEPT ![w] = 0]
      BY <1>4, Zenon DEF ReleaseCollected
    <3> QED BY <3>1, <3>2, Zenon
  <2> QED BY <2>2, <2>3, <2>4, <2>5, Zenon
<1>5. CASE "COLLECT_GARBAGE" \notin mon[w]
  BY <1>5, Zenon DEF TypeOK, ReleaseCollected
<1> QED BY <1>4, <1>5, Zenon

\* Every step of a worker's thread keeps the types.
LEMMA TypeWorker ==
  ASSUME TypeOK, RunningItem, NEW w \in Workers, WorkerStep(w)
  PROVE  TypeOK'
<1> USE WorkerAssumption DEF TypeOK, taskVars, threadVars, creatorVars, history
<1>1. CASE Boot(w) BY <1>1, Zenon DEF Boot, Places
<1>2. CASE RunRefused(w) BY <1>2, Zenon DEF RunRefused, RecordCrash, AfterRun, Places
<1>3. CASE RunCheck(w) BY <1>3, Zenon DEF RunCheck, Places
<1>4. CASE RunBegin(w)
  BY <1>4, SubjectType, Zenon
  DEF RunBegin, Add, WakeCreator, Places, Bits, CreatorPlaces
<1>5. CASE RunReturns(w) BY <1>5, Zenon DEF RunReturns, Places
<1>6. CASE RunFails(w)
  <2>1. mon' \in [Workers \cup Tasks -> SUBSET Bits] /\ cpc' \in CreatorPlaces
    BY <1>6, SubjectType, MonitorTypes, Zenon DEF RunFails, Bits
  <2>2. crashed' \in SUBSET Item BY <1>6, Zenon DEF RunFails, RecordCrash
  <2> QED BY <1>6, <2>1, <2>2, Zenon DEF RunFails, Places
<1>7. CASE RunEnd(w)
  BY <1>7, SubjectType, Zenon
  DEF RunEnd, Remove, WakeCreator, AfterRun, Places, CreatorPlaces
<1>8. CASE WorkerError(w)
  BY <1>8, Zenon
  DEF WorkerError, MarkCrash, Add, WakeCreator, Places, Bits, CreatorPlaces
<1>9. CASE AddGarbage(w)
  <2>1. running[w] # NoItem BY <1>9, Zenon DEF AddGarbage, RunningItem
  <2> QED
    BY <1>9, <2>1, MonitorTypes DEF AddGarbage, Garbage, NotifyGarbage, Places
<1>10. CASE CacheDone(w)
  <2>1. cur[w] # NoItem BY <1>10, Zenon DEF CacheDone, RunningItem
  <2> QED BY <1>10, <2>1 DEF CacheDone, Places
<1>11. CASE NextTask(w)
  <2>1. ReleaseCollected(w) BY <1>11, Zenon DEF NextTask
  <2>2. queue[w] \in Seq(Item) /\ queue[w] # <<>> BY <1>11, Zenon DEF NextTask
  <2>3. NextItem(w) \in Item BY <2>2 DEF NextItem
  <2>4. Tail(queue[w]) \in Seq(Item) BY <2>2
  <2> QED
    BY <1>11, <2>1, <2>3, <2>4, TypeReleaseCollected, Zenon DEF NextTask, Places
<1>12. CASE NoNextTask(w)
  <2>1. ReleaseCollected(w) BY <1>12, Zenon DEF NoNextTask
  <2> QED BY <1>12, <2>1, TypeReleaseCollected, Zenon DEF NoNextTask, Places
<1>13. CASE Finish(w)
  BY <1>13, Zenon DEF Finish, Add, WakeCreator, Places, Bits, CreatorPlaces
<1>14. CASE Exit(w) BY <1>14 DEF Exit, Range, Places
<1> QED
  BY <1>1, <1>2, <1>3, <1>4, <1>5, <1>6, <1>7, <1>8, <1>9, <1>10, <1>11, <1>12,
     <1>13, <1>14, ZenonT(30)
  DEF WorkerStep

-----------------------------------------------------------------------------
(* The places and the bits agree.                                          *)

\* Every step of the creator keeps the bits, the thread's place and its own in
\* agreement.
LEMMA ControlCreator ==
  ASSUME TypeOK, Control, NEW w \in Workers, CreatorStep(w) \/ CreatorCalls(w)
  PROVE  Control'
<1> USE WorkerAssumption DEF TypeOK, Control, taskVars, threadVars, creatorVars,
        history
<1>1. CASE Start(w) BY <1>1, Zenon DEF Start, Add
<1>2. CASE Create(w) BY <1>2 DEF Create
<1>3. CASE CreateFails(w) BY <1>3, Zenon DEF CreateFails, Remove
<1>4. CASE StartReturns(w) BY <1>4, Zenon DEF StartReturns
<1>5. CASE StackCheck(w) BY <1>5, Zenon DEF StackCheck
<1>6. ASSUME NEW t \in Tasks, StackAdd(w, t) PROVE Control'
  BY <1>6 DEF StackAdd, NotifyIfEmpty, WakeWorker
<1>7. CASE Unstack(w) BY <1>7, Zenon DEF Unstack
<1>8. CASE Collect(w)
  <2>1. PICK n \in 0..Len(gc[w]) : CollectTasks(w, n) BY <1>8, Zenon DEF Collect
  <2>2. CASE n = 0 BY <1>8, <2>1, <2>2 DEF Collect, CollectTasks
  <2>3. CASE n # 0
    BY <1>8, <2>1, <2>3, SMTT(30) DEF Collect, CollectTasks, Add, WakeWorker
  <2> QED BY <2>2, <2>3, Zenon
<1>9. CASE CollectWait(w) BY <1>9, Zenon DEF CollectWait
<1>10. CASE CollectTurn(w)
  <2>1. CASE Len(gc[w]) = 0 BY <1>10, <2>1 DEF CollectTurn, CollectTasks
  <2>2. CASE Len(gc[w]) # 0
    <3>1. /\ Add(w, "COLLECT_GARBAGE") /\ WakeWorker(w)
          /\ cpc = "loop" /\ cw = w /\ alive' = alive
          /\ (cpc' = "idle" /\ cw' = NoWorker) \/ (cpc' = "parked" /\ cw' = w)
      BY <1>10, <2>2, Zenon DEF CollectTurn, CollectTasks
    <3> QED BY <3>1 DEF Add, WakeWorker
  <2> QED BY <2>1, <2>2, Zenon
<1>11. ASSUME NEW drop \in BOOLEAN, Join(w, drop) PROVE Control'
  BY <1>11 DEF Join, Add, WakeWorker
<1>12. CASE JoinSync(w) BY <1>12, Zenon DEF JoinSync
<1>13. CASE JoinExit(w) BY <1>13, Zenon DEF JoinExit, LetExit, Add
<1>14. CASE JoinReturns(w)
  <2>1. CASE dropping BY <1>14, <2>1 DEF JoinReturns, FreeData
  <2>2. CASE ~dropping BY <1>14, <2>2 DEF JoinReturns
  <2> QED BY <2>1, <2>2, Zenon
<1>15. CASE Free(w) BY <1>15, SMTT(30) DEF Free, FreeData, NeedsJoin
<1> QED
  BY <1>1, <1>2, <1>3, <1>4, <1>5, <1>6, <1>7, <1>8, <1>9, <1>10, <1>11, <1>12,
     <1>13, <1>14, <1>15, ZenonT(30)
  DEF CreatorStep, CreatorCalls

\* So does every step of a worker's thread.
LEMMA ControlWorker ==
  ASSUME TypeOK, Control, NEW w \in Workers, WorkerStep(w)
  PROVE  Control'
<1> USE WorkerAssumption DEF TypeOK, Control, taskVars, threadVars, creatorVars,
        history
<1>1. CASE Boot(w) BY <1>1 DEF Boot
<1>2. CASE RunRefused(w) BY <1>2, Zenon DEF RunRefused, AfterRun
<1>3. CASE RunCheck(w) BY <1>3, Zenon DEF RunCheck
<1>4. CASE RunBegin(w) BY <1>4, SubjectType, SMTT(30) DEF RunBegin, Add, WakeCreator
<1>5. CASE RunReturns(w) BY <1>5, SMTT(30) DEF RunReturns
<1>6. CASE RunFails(w) BY <1>6, SubjectType, SMTT(30) DEF RunFails, Add, WakeCreator
<1>7. CASE RunEnd(w)
  BY <1>7, SubjectType DEF RunEnd, Remove, WakeCreator, AfterRun
<1>8. CASE WorkerError(w) BY <1>8, SMTT(30) DEF WorkerError, MarkCrash, Add, WakeCreator
<1>9. CASE AddGarbage(w)
  BY <1>9, SMTT(30) DEF AddGarbage, NotifyGarbage, WakeCreator
<1>10. CASE CacheDone(w) BY <1>10, SMTT(30) DEF CacheDone
<1>11. CASE NextTask(w)
  BY <1>11, SMTT(30) DEF NextTask, ReleaseCollected, Remove, WakeCreator
<1>12. CASE NoNextTask(w)
  BY <1>12, SMTT(30) DEF NoNextTask, ReleaseCollected, Remove, WakeCreator
<1>13. CASE Finish(w) BY <1>13, SMTT(30) DEF Finish, Add, WakeCreator
<1>14. CASE Exit(w) BY <1>14, Zenon DEF Exit, MayExit
<1> QED
  BY <1>1, <1>2, <1>3, <1>4, <1>5, <1>6, <1>7, <1>8, <1>9, <1>10, <1>11, <1>12,
     <1>13, <1>14, ZenonT(30)
  DEF WorkerStep

-----------------------------------------------------------------------------
(* The running item, the marks of failures, and the ends of the loop.      *)

\* What the creator may do to the thread, the bits and the running item of w.
CreatorMay(w) ==
  /\ UNCHANGED <<running, cur, failed, done>>
  /\ \/ UNCHANGED pc
     \/ WakeWorker(w)
     \/ pc[w] = "none" /\ pc' = [pc EXCEPT ![w] = "boot"]
  /\ \/ UNCHANGED mon
     \/ \E b \in {"STARTED", "COLLECT_GARBAGE", "JOINED", "EXIT"} : Add(w, b)
     \/ Remove(w, "STARTED")

\* The creator does no more than that.
LEMMA CreatorEffect ==
  ASSUME TypeOK, Control, NEW w \in Workers, CreatorStep(w) \/ CreatorCalls(w)
  PROVE  CreatorMay(w)
<1> USE DEF taskVars, threadVars, creatorVars, history
<1>1. UNCHANGED <<running, cur, failed, done>>
  BY ZenonT(30)
  DEF CreatorStep, CreatorCalls, Start, Create, CreateFails, StartReturns,
         StackCheck, StackAdd, Unstack, Collect, CollectWait, CollectTurn, Join,
         JoinSync, JoinExit, JoinReturns, Free
<1>2. \/ UNCHANGED pc
      \/ WakeWorker(w)
      \/ pc[w] = "none" /\ pc' = [pc EXCEPT ![w] = "boot"]
  BY ZenonT(30)
  DEF CreatorStep, CreatorCalls, Start, Create, CreateFails, StartReturns,
         StackCheck, StackAdd, NotifyIfEmpty, Unstack, Collect, CollectWait,
         CollectTurn, CollectTasks, Join, JoinSync, JoinExit, JoinReturns, Free,
         Control
<1>3. \/ UNCHANGED mon
      \/ \E b \in {"STARTED", "COLLECT_GARBAGE", "JOINED", "EXIT"} : Add(w, b)
      \/ Remove(w, "STARTED")
  BY ZenonT(30)
  DEF CreatorStep, CreatorCalls, Start, Create, CreateFails, StartReturns,
         StackCheck, StackAdd, Unstack, Collect, CollectWait, CollectTurn,
         CollectTasks, Join, JoinSync, JoinExit, LetExit, JoinReturns, Free
<1> QED BY <1>1, <1>2, <1>3, Zenon DEF CreatorMay

\* cur and running keep step.
LEMMA RunningItemNext ==
  ASSUME TypeOK, Control, RunningItem, NEW w \in Workers,
         CreatorStep(w) \/ CreatorCalls(w) \/ WorkerStep(w)
  PROVE  RunningItem'
<1> USE WorkerAssumption DEF TypeOK, RunningItem, Busy, taskVars, threadVars,
        creatorVars, history
<1>1. CASE CreatorStep(w) \/ CreatorCalls(w)
  <2>1. CreatorMay(w) BY <1>1, CreatorEffect, Zenon
  <2> QED BY <2>1, SMTT(30) DEF CreatorMay, WakeWorker
<1>2. CASE Boot(w) BY <1>2, Zenon DEF Boot
<1>3. CASE RunRefused(w) BY <1>3, Zenon DEF RunRefused, AfterRun
<1>4. CASE RunCheck(w) BY <1>4, Zenon DEF RunCheck
<1>5. CASE RunBegin(w) BY <1>5, Zenon DEF RunBegin
<1>6. CASE RunReturns(w) BY <1>6, Zenon DEF RunReturns
<1>7. CASE RunFails(w) BY <1>7, Zenon DEF RunFails
<1>8. CASE RunEnd(w) BY <1>8, Zenon DEF RunEnd, AfterRun
<1>9. CASE WorkerError(w) BY <1>9, Zenon DEF WorkerError
<1>10. CASE AddGarbage(w) BY <1>10, Zenon DEF AddGarbage
<1>11. CASE CacheDone(w) BY <1>11, Zenon DEF CacheDone
<1>12. CASE NextTask(w)
  <2>1. NextItem(w) \in Item BY <1>12 DEF NextTask, NextItem
  <2> QED BY <1>12, <2>1, Zenon DEF NextTask
<1>13. CASE NoNextTask(w) BY <1>13, Zenon DEF NoNextTask
<1>14. CASE Finish(w) BY <1>14, Zenon DEF Finish
<1>15. CASE Exit(w) BY <1>15, Zenon DEF Exit
<1> QED
  BY <1>1, <1>2, <1>3, <1>4, <1>5, <1>6, <1>7, <1>8, <1>9, <1>10, <1>11, <1>12,
     <1>13, <1>14, <1>15, ZenonT(30)
  DEF WorkerStep

\* Seen from any worker: ERROR neither comes nor goes, JOINED does not go.
LEMMA CreatorMayDo ==
  ASSUME TypeOK, NEW w \in Workers, CreatorMay(w), NEW v \in Workers
  PROVE  /\ "ERROR" \in mon'[v] <=> "ERROR" \in mon[v]
         /\ "JOINED" \in mon[v] => "JOINED" \in mon'[v]
         /\ cur'[v] = cur[v] /\ failed'[v] = failed[v]
         /\ \/ pc'[v] = pc[v]
            \/ pc[v] = "parked" /\ pc'[v] = "next"
            \/ pc[v] = "none" /\ pc'[v] = "boot"
<1>1. /\ mon \in [Workers \cup Tasks -> SUBSET Bits]
      /\ pc \in [Workers -> Places]
  BY Zenon DEF TypeOK
<1>2. /\ "ERROR" \in mon'[v] <=> "ERROR" \in mon[v]
      /\ "JOINED" \in mon[v] => "JOINED" \in mon'[v]
  <2>1. CASE UNCHANGED mon BY <2>1, Zenon
  <2>2. ASSUME NEW b \in {"STARTED", "COLLECT_GARBAGE", "JOINED", "EXIT"}, Add(w, b)
        PROVE  <1>2!1 /\ <1>2!2
    BY <1>1, <2>2, Zenon DEF Add
  <2>3. CASE Remove(w, "STARTED") BY <1>1, <2>3, Zenon DEF Remove
  <2> QED BY <2>1, <2>2, <2>3, Zenon DEF CreatorMay
<1>3. \/ pc'[v] = pc[v]
      \/ pc[v] = "parked" /\ pc'[v] = "next"
      \/ pc[v] = "none" /\ pc'[v] = "boot"
  BY <1>1, Zenon DEF CreatorMay, WakeWorker
<1> QED BY <1>2, <1>3, Zenon DEF CreatorMay

\* A failure leaves its mark, and the mark stays.
LEMMA FailureMarkedNext ==
  ASSUME TypeOK, Control, RunningItem, FailureMarked, NEW w \in Workers,
         CreatorStep(w) \/ CreatorCalls(w) \/ WorkerStep(w)
  PROVE  FailureMarked'
<1> USE WorkerAssumption DEF TypeOK, FailureMarked, taskVars, threadVars,
        creatorVars, history
<1>1. CASE CreatorStep(w) \/ CreatorCalls(w)
  <2>1. CreatorMay(w) BY <1>1, CreatorEffect, Zenon
  <2> QED BY <2>1, CreatorMayDo, Zenon
<1>2. CASE Boot(w) BY <1>2, Zenon DEF Boot
<1>3. CASE RunRefused(w) BY <1>3, Zenon DEF RunRefused, AfterRun
<1>4. CASE RunCheck(w) BY <1>4, Zenon DEF RunCheck
<1>5. CASE RunBegin(w) BY <1>5, SubjectType, Zenon DEF RunBegin, Add
<1>6. CASE RunReturns(w) BY <1>6, Zenon DEF RunReturns
<1>7. CASE RunFails(w) BY <1>7, SubjectType, Zenon DEF RunFails, Add
<1>8. CASE RunEnd(w) BY <1>8, SubjectType, Zenon DEF RunEnd, Remove, AfterRun
<1>9. CASE WorkerError(w) BY <1>9, Zenon DEF WorkerError, MarkCrash, Add
<1>10. CASE AddGarbage(w) BY <1>10, Zenon DEF AddGarbage
<1>11. CASE CacheDone(w) BY <1>11, Zenon DEF CacheDone
<1>12. CASE NextTask(w) BY <1>12, Zenon DEF NextTask, ReleaseCollected, Remove
<1>13. CASE NoNextTask(w) BY <1>13, Zenon DEF NoNextTask, ReleaseCollected, Remove
<1>14. CASE Finish(w) BY <1>14, Zenon DEF Finish, Add
<1>15. CASE Exit(w) BY <1>15, Zenon DEF Exit
<1> QED
  BY <1>1, <1>2, <1>3, <1>4, <1>5, <1>6, <1>7, <1>8, <1>9, <1>10, <1>11, <1>12,
     <1>13, <1>14, <1>15, ZenonT(30)
  DEF WorkerStep

\* The queue of a worker that stopped without an error stays empty.
LEMMA DrainedNext ==
  ASSUME TypeOK, Control, RunningItem, FailureMarked, Drained, NEW w \in Workers,
         CreatorStep(w) \/ CreatorCalls(w) \/ WorkerStep(w)
  PROVE  Drained'
<1> USE WorkerAssumption DEF TypeOK, Drained, taskVars, threadVars, creatorVars,
        history
<1>1. CASE CreatorStep(w) \/ CreatorCalls(w)
  <2>1. \/ UNCHANGED queue
        \/ /\ cpc = "stack" /\ cw = w
           /\ \E i \in Item : queue' = [queue EXCEPT ![w] = Append(@, i)]
        \/ queue[w] # <<>> /\ queue' = [queue EXCEPT ![w] = Tail(@)]
        \/ queue' = [queue EXCEPT ![w] = <<>>]
    <3>1. \A t \in Tasks : [id |-> stacked + 1, task |-> t] \in Item
      BY SMTT(30) DEF Item
    <3> QED
      BY <1>1, <3>1, ZenonT(30)
      DEF CreatorStep, CreatorCalls, Start, Create, CreateFails, StartReturns,
          StackCheck, StackAdd, Unstack, Collect, CollectWait, CollectTurn, Join,
          JoinSync, JoinExit, JoinReturns, Free, FreeData
  <2>2. ASSUME NEW v \in Workers,
               (pc[v] \in {"finish", "await", "gone"} /\ "ERROR" \notin mon[v])'
        PROVE  /\ pc[v] \in {"finish", "await", "gone"} /\ "ERROR" \notin mon[v]
               /\ "JOINED" \in mon'[v]
    <3>1. CreatorMay(w) BY <1>1, CreatorEffect, Zenon
    <3> QED BY <2>2, <3>1, CreatorMayDo, Zenon
  <2>3. ASSUME NEW v \in Workers, queue[v] = <<>>, "JOINED" \in mon[v]
        PROVE  queue'[v] = <<>>
    BY <2>1, <2>3, Zenon DEF Control
  <2> QED BY <2>2, <2>3, Zenon
<1>2. CASE Boot(w) BY <1>2, Zenon DEF Boot
<1>3. CASE RunRefused(w) BY <1>3, SubjectType, Zenon DEF RunRefused, AfterRun
<1>4. CASE RunCheck(w) BY <1>4, Zenon DEF RunCheck
<1>5. CASE RunBegin(w) BY <1>5, SubjectType, Zenon DEF RunBegin, Add
<1>6. CASE RunReturns(w) BY <1>6, Zenon DEF RunReturns
<1>7. CASE RunFails(w) BY <1>7, SubjectType, Zenon DEF RunFails, Add
<1>8. CASE RunEnd(w)
  BY <1>8, SubjectType, Zenon DEF RunEnd, Remove, AfterRun, FailureMarked
<1>9. CASE WorkerError(w) BY <1>9, Zenon DEF WorkerError, MarkCrash, Add
<1>10. CASE AddGarbage(w) BY <1>10, Zenon DEF AddGarbage
<1>11. CASE CacheDone(w) BY <1>11, Zenon DEF CacheDone, FailureMarked
<1>12. CASE NextTask(w)
  BY <1>12, Zenon DEF NextTask, ReleaseCollected, Remove
<1>13. CASE NoNextTask(w)
  BY <1>13 DEF NoNextTask, LoopEnds, ReleaseCollected, Remove
<1>14. CASE Finish(w) BY <1>14, Zenon DEF Finish, Add
<1>15. CASE Exit(w) BY <1>15, Zenon DEF Exit
<1> QED
  BY <1>1, <1>2, <1>3, <1>4, <1>5, <1>6, <1>7, <1>8, <1>9, <1>10, <1>11, <1>12,
     <1>13, <1>14, <1>15, ZenonT(30)
  DEF WorkerStep

\* Whatever gives a waiting thread something to do wakes it.
LEMMA NoStrandedTaskNext ==
  ASSUME TypeOK, NoStrandedTask, NEW w \in Workers,
         CreatorStep(w) \/ CreatorCalls(w) \/ WorkerStep(w)
  PROVE  NoStrandedTask'
<1> USE WorkerAssumption DEF TypeOK, NoStrandedTask, taskVars, threadVars,
        creatorVars, history
<1>1. CASE Start(w) BY <1>1, Zenon DEF Start, Add
<1>2. CASE Create(w) BY <1>2, Zenon DEF Create
<1>3. CASE CreateFails(w) BY <1>3, Zenon DEF CreateFails, Remove
<1>4. CASE StartReturns(w) \/ StackCheck(w) \/ CollectWait(w) \/ JoinSync(w)
  BY <1>4, Zenon DEF StartReturns, StackCheck, CollectWait, JoinSync
<1>5. ASSUME NEW t \in Tasks, StackAdd(w, t) PROVE NoStrandedTask'
  <2>1. CASE Len(queue[w]) = 0
    BY <1>5, <2>1 DEF StackAdd, NotifyIfEmpty, WakeWorker
  <2>2. CASE Len(queue[w]) # 0
    BY <1>5, <2>2, SMTT(30) DEF StackAdd, NotifyIfEmpty
  <2> QED BY <2>1, <2>2, Zenon
<1>6. CASE Unstack(w) BY <1>6, Zenon DEF Unstack
<1>7. CASE Collect(w) \/ CollectTurn(w)
  <2>1. PICK n \in 0..Len(gc[w]) : CollectTasks(w, n) /\ queue' = queue
    BY <1>7 DEF Collect, CollectTurn
  <2>2. CASE n = 0 BY <2>1, <2>2, Zenon DEF CollectTasks
  <2>3. CASE n # 0 BY <2>1, <2>3, SMTT(30) DEF CollectTasks, Add, WakeWorker
  <2> QED BY <2>2, <2>3, Zenon
<1>8. ASSUME NEW drop \in BOOLEAN, Join(w, drop) PROVE NoStrandedTask'
  BY <1>8, Zenon DEF Join, Add, WakeWorker
<1>9. CASE JoinExit(w) BY <1>9, Zenon DEF JoinExit, LetExit, Add
<1>10. CASE JoinReturns(w) \/ Free(w)
  <2>1. UNCHANGED <<mon, pc>> /\ (UNCHANGED queue \/ queue' = [queue EXCEPT ![w] = <<>>])
    BY <1>10, Zenon DEF JoinReturns, Free, FreeData
  <2> QED BY <2>1, Zenon
<1>11. CASE Boot(w) \/ RunRefused(w) \/ RunCheck(w) \/ RunReturns(w)
            \/ AddGarbage(w) \/ CacheDone(w) \/ Exit(w)
  BY <1>11, SMTT(30)
  DEF Boot, RunRefused, RunCheck, RunReturns, AddGarbage, CacheDone, Exit, AfterRun
<1>12. CASE RunBegin(w) BY <1>12, SubjectType, Zenon DEF RunBegin, Add
<1>13. CASE RunFails(w) BY <1>13, SubjectType, Zenon DEF RunFails, Add
<1>14. CASE RunEnd(w) BY <1>14, SubjectType, Zenon DEF RunEnd, Remove, AfterRun
<1>15. CASE WorkerError(w) BY <1>15, Zenon DEF WorkerError, MarkCrash, Add
<1>16. CASE NextTask(w)
  <2>1. /\ queue' = [queue EXCEPT ![w] = Tail(@)]
        /\ pc' = [pc EXCEPT ![w] = "check"]
        /\ \/ UNCHANGED mon
           \/ mon' = [mon EXCEPT ![w] = @ \ {"COLLECT_GARBAGE"}]
    BY <1>16, Zenon DEF NextTask, ReleaseCollected, Remove
  <2>2. ASSUME NEW v \in Workers, pc'[v] = "parked"
        PROVE  pc[v] = "parked" /\ queue'[v] = queue[v] /\ mon'[v] = mon[v]
    BY <2>1, <2>2, Zenon
  <2> QED BY <2>2, Zenon
<1>17. CASE NoNextTask(w)
  <2>1. /\ UNCHANGED queue
        /\ \/ pc' = [pc EXCEPT ![w] = "finish"]
           \/ /\ pc' = [pc EXCEPT ![w] = "parked"]
              /\ queue[w] = <<>> /\ "JOINED" \notin mon[w]
        /\ \/ UNCHANGED mon /\ "COLLECT_GARBAGE" \notin mon[w]
           \/ mon' = [mon EXCEPT ![w] = @ \ {"COLLECT_GARBAGE"}]
    BY <1>17, Zenon DEF NoNextTask, LoopEnds, ReleaseCollected, Remove
  <2>2. ASSUME NEW v \in Workers, v # w, pc'[v] = "parked"
        PROVE  pc[v] = "parked" /\ queue'[v] = queue[v] /\ mon'[v] = mon[v]
    BY <2>1, <2>2, Zenon
  <2>3. ASSUME pc'[w] = "parked"
        PROVE  queue'[w] = <<>> /\ mon'[w] \cap {"COLLECT_GARBAGE", "JOINED"} = {}
    BY <2>1, <2>3
  <2> QED BY <2>2, <2>3, Zenon
<1>18. CASE Finish(w) BY <1>18, Zenon DEF Finish, Add
<1> QED
  BY <1>1, <1>2, <1>3, <1>4, <1>5, <1>6, <1>7, <1>8, <1>9, <1>10, <1>11, <1>12,
     <1>13, <1>14, <1>15, <1>16, <1>17, <1>18, ZenonT(30)
  DEF CreatorStep, CreatorCalls, WorkerStep

-----------------------------------------------------------------------------
(* The cache of connections and the gc queue.                              *)

\* What CacheMirrorsGc and CollectedSynced say of one worker.
Intact(v) ==
  alive[v] /\ pc[v] # "gone" =>
    /\ Len(Held(v)) = tasks_collected[v] + Len(gc[v])
    /\ \A i \in 1..Len(gc[v]) : gc[v][i] = Held(v)[tasks_collected[v] + i]
    /\ tasks_collected[v] > 0 <=> "COLLECT_GARBAGE" \in mon[v]
    /\ \A i \in 1..tasks_collected[v] : Held(v)[i] \in synced
    /\ (cpc = "exit" /\ cw = v) \/ "EXIT" \in mon[v] =>
         \A i \in 1..Len(gc[v]) : gc[v][i] \in synced

\* The two say it of all.
LEMMA IntactAll == CacheMirrorsGc /\ CollectedSynced <=> \A v \in Workers : Intact(v)
  BY Zenon DEF CacheMirrorsGc, CollectedSynced, Intact

\* The step concerns neither the connections nor the finished tasks of v.
Same(v) ==
  /\ Held(v)' = Held(v) /\ gc'[v] = gc[v]
  /\ tasks_collected'[v] = tasks_collected[v]
  /\ "COLLECT_GARBAGE" \in mon'[v] <=> "COLLECT_GARBAGE" \in mon[v]
  /\ alive'[v] /\ pc'[v] # "gone" => alive[v] /\ pc[v] # "gone"
  /\ synced \subseteq synced'
  /\ (cpc' = "exit" /\ cw' = v) \/ "EXIT" \in mon'[v] =>
       (cpc = "exit" /\ cw = v) \/ "EXIT" \in mon[v]

\* Then they stay as they should be.
LEMMA SameIntact ==
  ASSUME NEW v \in Workers, Intact(v), Same(v) PROVE Intact(v)'
  BY Zenon DEF Intact, Same

\* A creator's step on w that is not about finished tasks.
LEMMA CreatorSame ==
  ASSUME TypeOK, Control, NEW w \in Workers, NEW v \in Workers,
         \/ Start(w) \/ Create(w) \/ CreateFails(w) \/ StartReturns(w)
         \/ StackCheck(w) \/ (\E t \in Tasks : StackAdd(w, t)) \/ Unstack(w)
         \/ CollectWait(w) \/ (\E drop \in BOOLEAN : Join(w, drop)) \/ JoinExit(w)
  PROVE  Same(v)
<1> USE WorkerAssumption DEF TypeOK, Same, Held, taskVars, threadVars,
        creatorVars, history
<1>1. CASE Start(w) BY <1>1, Zenon DEF Start, Add
<1>2. CASE Create(w) BY <1>2, Zenon DEF Create, Control
<1>3. CASE CreateFails(w) BY <1>3, Zenon DEF CreateFails, Remove
<1>4. CASE StartReturns(w) BY <1>4, Zenon DEF StartReturns
<1>5. CASE StackCheck(w) BY <1>5, Zenon DEF StackCheck
<1>6. ASSUME NEW t \in Tasks, StackAdd(w, t) PROVE Same(v)
  BY <1>6, ZenonT(30) DEF StackAdd, NotifyIfEmpty, WakeWorker
<1>7. CASE Unstack(w) BY <1>7, Zenon DEF Unstack
<1>8. CASE CollectWait(w) BY <1>8, Zenon DEF CollectWait
<1>9. ASSUME NEW drop \in BOOLEAN, Join(w, drop) PROVE Same(v)
  BY <1>9, Zenon DEF Join, Add, WakeWorker
<1>10. CASE JoinExit(w) BY <1>10, Zenon DEF JoinExit, LetExit, Add
<1> QED
  BY <1>1, <1>2, <1>3, <1>4, <1>5, <1>6, <1>7, <1>8, <1>9, <1>10, ZenonT(30)

\* A step of w's thread that is not about finished tasks, or not those of v.
LEMMA WorkerSame ==
  ASSUME TypeOK, NEW w \in Workers, NEW v \in Workers,
         \/ Boot(w) \/ RunRefused(w) \/ RunCheck(w) \/ RunBegin(w)
         \/ RunReturns(w) \/ RunFails(w) \/ RunEnd(w) \/ WorkerError(w) \/ Finish(w)
         \/ v # w /\ (AddGarbage(w) \/ CacheDone(w) \/ NextTask(w)
                        \/ NoNextTask(w) \/ Exit(w))
  PROVE  Same(v)
<1> USE WorkerAssumption DEF TypeOK, Same, Held, WakeCreator, taskVars,
        threadVars, creatorVars, history
<1>1. CASE Boot(w) BY <1>1, Zenon DEF Boot
<1>2. CASE RunRefused(w) BY <1>2, Zenon DEF RunRefused, AfterRun
<1>3. CASE RunCheck(w) BY <1>3, Zenon DEF RunCheck
<1>4. CASE RunBegin(w) BY <1>4, SubjectType, Zenon DEF RunBegin, Add
<1>5. CASE RunReturns(w) BY <1>5, Zenon DEF RunReturns
<1>6. CASE RunFails(w) BY <1>6, SubjectType, Zenon DEF RunFails, Add
<1>7. CASE RunEnd(w) BY <1>7, SubjectType, Zenon DEF RunEnd, Remove, AfterRun
<1>8. CASE WorkerError(w) BY <1>8, Zenon DEF WorkerError, MarkCrash, Add
<1>9. CASE Finish(w) BY <1>9, Zenon DEF Finish, Add
<1>10. CASE v # w /\ AddGarbage(w) BY <1>10, Zenon DEF AddGarbage, NotifyGarbage
<1>11. CASE v # w /\ CacheDone(w) BY <1>11, Zenon DEF CacheDone
<1>12. CASE v # w /\ NextTask(w)
  BY <1>12, ZenonT(30) DEF NextTask, ReleaseCollected, Remove
<1>13. CASE v # w /\ NoNextTask(w)
  BY <1>13, ZenonT(30) DEF NoNextTask, ReleaseCollected, Remove
<1>14. CASE v # w /\ Exit(w) BY <1>14, Zenon DEF Exit
<1> QED
  BY <1>1, <1>2, <1>3, <1>4, <1>5, <1>6, <1>7, <1>8, <1>9, <1>10, <1>11, <1>12,
     <1>13, <1>14, ZenonT(30)

\* collect() moves the border between the collected and the uncollected part of
\* the cache, and copies the tasks it moves across.
LEMMA CollectIntact ==
  ASSUME TypeOK, RunningItem, NEW w \in Workers, NEW v \in Workers, Intact(v),
         Collect(w) \/ CollectTurn(w)
  PROVE  Intact(v)'
<1>1. PICK n \in 0..Len(gc[w]) :
        /\ CollectTasks(w, n)
        /\ UNCHANGED <<alive, cur, done>> /\ cpc' # "exit"
  BY DEF Collect, CollectTurn, creatorVars
<1>2. /\ mon \in [Workers \cup Tasks -> SUBSET Bits] /\ pc \in [Workers -> Places]
      /\ tasks_collected \in [Workers -> Nat] /\ gc \in [Workers -> Seq(Item)]
      /\ gc[w] \in Seq(Item) /\ gc[v] \in Seq(Item)
  BY Zenon DEF TypeOK
<1>3. /\ \A u \in Workers : (pc'[u] = "cache" <=> pc[u] = "cache")
      /\ \A u \in Workers : (pc'[u] = "gone" <=> pc[u] = "gone")
      /\ \A u \in Workers : "EXIT" \in mon'[u] <=> "EXIT" \in mon[u]
      /\ synced \subseteq synced'
  <2>1. CASE n = 0 BY <1>1, <2>1, Zenon DEF CollectTasks
  <2>2. CASE n # 0 BY <1>1, <1>2, <2>2 DEF CollectTasks, Add, WakeWorker
  <2> QED BY <2>1, <2>2, Zenon
<1>4. Held(v)' = Held(v) BY <1>1, <1>3, Zenon DEF Held
<1>5. CASE v # w
  <2>1. /\ gc'[v] = gc[v] /\ tasks_collected'[v] = tasks_collected[v]
        /\ "COLLECT_GARBAGE" \in mon'[v] <=> "COLLECT_GARBAGE" \in mon[v]
    BY <1>1, <1>2, <1>5, Zenon DEF CollectTasks, Add
  <2>2. Same(v) BY <1>1, <1>3, <1>4, <2>1, Zenon DEF Same
  <2> QED BY <2>2, SameIntact, Zenon
<1>6. CASE v = w
  <2> SUFFICES ASSUME alive[w] /\ pc[w] # "gone" PROVE Intact(w)'
    BY <1>1, <1>3, <1>6, Zenon DEF Intact
  <2> DEFINE k == tasks_collected[w]
  <2>1. /\ Len(Held(w)) = k + Len(gc[w])
        /\ \A i \in 1..Len(gc[w]) : gc[w][i] = Held(w)[k + i]
        /\ k > 0 <=> "COLLECT_GARBAGE" \in mon[w]
        /\ \A i \in 1..k : Held(w)[i] \in synced
        /\ "EXIT" \in mon[w] => \A i \in 1..Len(gc[w]) : gc[w][i] \in synced
    BY <1>6, Zenon DEF Intact
  <2>2. gc'[w] = DropFirst(gc[w], n) BY <1>1, <1>2, Zenon DEF CollectTasks
  <2>3. /\ gc'[w] \in Seq(Item) /\ Len(gc'[w]) = Len(gc[w]) - n
        /\ \A i \in 1..(Len(gc[w]) - n) : gc'[w][i] = gc[w][n + i]
    <3>1. gc[w] \in Seq(Item) /\ n \in 0..Len(gc[w]) BY <1>2, Zenon
    <3>2. /\ DropFirst(gc[w], n) \in Seq(Item)
          /\ Len(DropFirst(gc[w], n)) = Len(gc[w]) - n
          /\ \A i \in 1..(Len(gc[w]) - n) : DropFirst(gc[w], n)[i] = gc[w][n + i]
      BY ONLY <3>1, DropFirstSeq, Zenon
    <3> QED BY <2>2, <3>2, Zenon
  <2>4. tasks_collected'[w] = k + n
    <3>1. CASE n = 0 BY <1>1, <1>2, <3>1 DEF CollectTasks
    <3>2. CASE n # 0 BY <1>1, <1>2, <3>2, Zenon DEF CollectTasks
    <3> QED BY <3>1, <3>2, Zenon
  <2>5. k + n > 0 <=> "COLLECT_GARBAGE" \in mon'[w]
    <3>1. CASE n = 0 BY <1>1, <1>2, <2>1, <3>1 DEF CollectTasks
    <3>2. CASE n # 0 BY <1>1, <1>2, <3>2 DEF CollectTasks, Add
    <3> QED BY <3>1, <3>2, Zenon
  <2>6. \A i \in 1..n : gc[w][i] \in synced'
    BY <1>1, <1>2 DEF CollectTasks
  <2>7. \A i \in 1..(k + n) : Held(w)[i] \in synced'
    <3> SUFFICES ASSUME NEW i \in 1..(k + n) PROVE Held(w)[i] \in synced' BY Zenon
    <3>1. k \in Nat BY <1>2, Zenon
    <3>2. CASE i <= k BY <1>3, <2>1, <3>1, <3>2
    <3>3. CASE i > k
      <4>1. i - k \in 1..n /\ i - k \in 1..Len(gc[w]) /\ k + (i - k) = i
        BY <1>2, <3>1, <3>3
      <4>2. gc[w][i - k] = Held(w)[i] BY <2>1, <4>1, Zenon
      <4> QED BY <2>6, <4>1, <4>2, Zenon
    <3> QED BY <3>1, <3>2, <3>3
  <2>8. \A i \in 1..Len(gc'[w]) : gc'[w][i] = Held(w)[(k + n) + i]
    <3> SUFFICES ASSUME NEW i \in 1..Len(gc'[w])
                 PROVE  gc'[w][i] = Held(w)[(k + n) + i]
      BY Zenon
    <3>1. /\ k \in Nat /\ i \in 1..(Len(gc[w]) - n) /\ n + i \in 1..Len(gc[w])
          /\ k + (n + i) = (k + n) + i
      BY <1>2, <2>3
    <3> QED BY <2>1, <2>3, <3>1, Zenon
  <2>9. "EXIT" \in mon'[w] => \A i \in 1..Len(gc'[w]) : gc'[w][i] \in synced'
    <3> SUFFICES ASSUME "EXIT" \in mon'[w], NEW i \in 1..Len(gc'[w])
                 PROVE  gc'[w][i] \in synced'
      BY Zenon
    <3>1. i \in 1..(Len(gc[w]) - n) /\ n + i \in 1..Len(gc[w]) BY <1>2, <2>3
    <3> QED BY <1>3, <2>1, <2>3, <3>1, Zenon
  <2>10. Len(Held(w)) = (k + n) + Len(gc'[w]) BY <1>2, <2>1, <2>3
  <2> QED
    BY <1>1, <1>3, <1>4, <1>6, <2>4, <2>5, <2>7, <2>8, <2>9, <2>10 DEF Intact
<1> QED BY <1>5, <1>6, Zenon

\* join() copies all finished tasks before the thread may exit.
LEMMA JoinSyncIntact ==
  ASSUME TypeOK, NEW w \in Workers, NEW v \in Workers, Intact(v), JoinSync(w)
  PROVE  Intact(v)'
<1> USE DEF JoinSync, SyncCollectable, Range, Intact, Held, taskVars, threadVars
<1>1. \A i \in 1..Len(gc[w]) : gc[w][i] \in synced' BY DEF TypeOK
<1>2. CASE v = w BY <1>1, <1>2, Zenon
<1>3. CASE v # w BY <1>3, Zenon
<1> QED BY <1>2, <1>3, Zenon

\* A worker whose data is freed has no connections to care for.
LEMMA FreeIntact ==
  ASSUME TypeOK, NEW w \in Workers, NEW v \in Workers, Intact(v),
         JoinReturns(w) \/ Free(w)
  PROVE  Intact(v)'
<1>1. /\ UNCHANGED <<mon, tasks_collected, pc, cur, done, synced>>
      /\ cpc' # "exit"
      /\ UNCHANGED <<gc, alive>> \/ FreeData(w)
  BY Zenon DEF JoinReturns, Free, threadVars, creatorVars, history
<1>2. CASE UNCHANGED <<gc, alive>> BY <1>1, <1>2, Zenon DEF Intact, Held
<1>3. CASE FreeData(w) /\ v = w
  BY <1>3, Zenon DEF FreeData, Intact, TypeOK
<1>4. CASE FreeData(w) /\ v # w
  BY <1>1, <1>4, ZenonT(30) DEF FreeData, Intact, Held, TypeOK
<1> QED BY <1>1, <1>2, <1>3, <1>4, Zenon

\* A finished task enters gc and, seen from the thread, the held connections; a
\* moment later the cache.
LEMMA GarbageIntact ==
  ASSUME TypeOK, Control, RunningItem, NEW w \in Workers, Intact(w),
         AddGarbage(w) \/ CacheDone(w)
  PROVE  Intact(w)'
<1>1. /\ done[w] \in Seq(Item) /\ gc[w] \in Seq(Item) /\ tasks_collected[w] \in Nat
      /\ gc \in [Workers -> Seq(Item)] /\ done \in [Workers -> Seq(Item)]
      /\ cur \in [Workers -> Item \cup {NoItem}] /\ pc \in [Workers -> Places]
  BY Zenon DEF TypeOK
<1>2. alive[w] /\ pc[w] # "gone" BY Zenon DEF AddGarbage, CacheDone, Control
<1>3. CASE AddGarbage(w)
  <2>1. cur[w] = running[w] /\ cur[w] \in Item
    BY <1>1, <1>3, Zenon DEF AddGarbage, RunningItem, Busy
  <2>2. Held(w) = done[w] BY <1>1, <1>3 DEF Held, AddGarbage
  <2>3. Held(w)' = Append(done[w], cur[w])
    BY <1>1, <1>3, <2>1 DEF Held, AddGarbage
  <2>4. gc'[w] = Append(gc[w], cur[w])
    BY <1>1, <1>3, <2>1, Zenon DEF AddGarbage, Garbage
  <2>5. /\ UNCHANGED <<mon, tasks_collected, synced, cw>>
        /\ cpc' = "exit" => cpc = "exit"
    BY <1>3, Zenon DEF AddGarbage, NotifyGarbage, WakeCreator, history
  <2>6. ~(cpc = "exit" /\ cw = w) /\ "EXIT" \notin mon[w]
    BY <1>3, Zenon DEF AddGarbage, Control
  <2>7. /\ Len(done[w]) = tasks_collected[w] + Len(gc[w])
        /\ \A i \in 1..Len(gc[w]) : gc[w][i] = done[w][tasks_collected[w] + i]
        /\ tasks_collected[w] > 0 <=> "COLLECT_GARBAGE" \in mon[w]
        /\ \A i \in 1..tasks_collected[w] : done[w][i] \in synced
    BY <1>2, <2>2, Zenon DEF Intact
  <2>8. /\ Len(Held(w)') = Len(done[w]) + 1 /\ Len(gc'[w]) = Len(gc[w]) + 1
        /\ \A i \in 1..Len(done[w]) : Held(w)'[i] = done[w][i]
        /\ \A i \in 1..Len(gc[w]) : gc'[w][i] = gc[w][i]
        /\ Held(w)'[Len(done[w]) + 1] = gc'[w][Len(gc[w]) + 1]
    BY <1>1, <2>1, <2>3, <2>4, AppendSeq
  <2>a. /\ Len(done[w]) \in Nat /\ Len(gc[w]) \in Nat /\ tasks_collected[w] \in Nat
        /\ Len(done[w]) = tasks_collected[w] + Len(gc[w])
        /\ Len(Held(w)') = Len(done[w]) + 1 /\ Len(gc'[w]) = Len(gc[w]) + 1
    BY <1>1, <2>7, <2>8
  <2>9. \A i \in 1..Len(gc'[w]) :
          gc'[w][i] = Held(w)'[tasks_collected[w] + i]
    <3> SUFFICES ASSUME NEW i \in 1..Len(gc'[w])
                 PROVE  gc'[w][i] = Held(w)'[tasks_collected[w] + i]
      BY Zenon
    <3>1. CASE i <= Len(gc[w])
      <4>1. i \in 1..Len(gc[w]) /\ tasks_collected[w] + i \in 1..Len(done[w])
        BY <2>a, <3>1
      <4> QED BY <2>7, <2>8, <4>1, Zenon
    <3>2. CASE i > Len(gc[w])
      <4>1. i = Len(gc[w]) + 1 /\ tasks_collected[w] + i = Len(done[w]) + 1
        BY <2>a, <3>2
      <4> QED BY <2>8, <4>1, Zenon
    <3> QED BY <2>a, <3>1, <3>2
  <2>10. /\ Len(Held(w)') = tasks_collected[w] + Len(gc'[w])
         /\ \A i \in 1..tasks_collected[w] : Held(w)'[i] \in synced
    <3>1. \A i \in 1..tasks_collected[w] : i \in 1..Len(done[w]) BY <2>a
    <3>2. \A i \in 1..tasks_collected[w] : Held(w)'[i] \in synced
      BY <2>7, <2>8, <3>1, Zenon
    <3> QED BY <2>a, <3>2, SMTT(30)
  <2> QED BY <2>5, <2>6, <2>7, <2>9, <2>10, Zenon DEF Intact
<1>4. CASE CacheDone(w)
  <2>1. cur[w] \in Item BY <1>1, <1>4, Zenon DEF CacheDone, RunningItem
  <2>2. Held(w) = Append(done[w], cur[w])
    BY <1>1, <1>4, <2>1 DEF Held, CacheDone
  <2>3. Held(w)' = Append(done[w], cur[w])
    <3>1. done'[w] = Append(done[w], cur[w]) /\ pc'[w] # "cache"
      BY <1>1, <1>4, Zenon DEF CacheDone
    <3> QED BY <1>1, <2>1, <3>1 DEF Held
  <2>4. Same(w)
    BY <1>1, <1>2, <2>2, <2>3, <1>4, Zenon
    DEF Same, CacheDone, taskVars, creatorVars, history
  <2> QED BY <2>4, SameIntact, Zenon
<1> QED BY <1>3, <1>4, Zenon

\* A turn of next_task lets the collected connections go, all of them copied, and
\* the cache is again what gc holds.
LEMMA ReleaseIntact ==
  ASSUME TypeOK, Control, NEW w \in Workers, Intact(w), ReleasedAfterSync,
         NextTask(w) \/ NoNextTask(w)
  PROVE  Intact(w)' /\ ReleasedAfterSync'
<1>1. /\ done[w] \in Seq(Item) /\ gc[w] \in Seq(Item) /\ tasks_collected[w] \in Nat
      /\ mon \in [Workers \cup Tasks -> SUBSET Bits] /\ pc \in [Workers -> Places]
      /\ tasks_collected \in [Workers -> Nat] /\ done \in [Workers -> Seq(Item)]
  BY Zenon DEF TypeOK
<1>2. /\ pc[w] = "next" /\ ReleaseCollected(w) /\ pc'[w] \notin {"cache", "gone"}
      /\ UNCHANGED <<gc, alive, synced, cw>>
  BY <1>1, Zenon DEF NextTask, NoNextTask
<1>3. alive[w] BY <1>2, Zenon DEF Control
<1>4. Held(w) = done[w] /\ Held(w)' = done'[w]
  <2>1. done'[w] \in Seq(Item) BY <1>2, TypeReleaseCollected, Zenon
  <2>2. \A s \in Seq(Item) : s \o <<>> = s OBVIOUS
  <2>3. Held(w) = done[w] \o <<>> BY <1>2, Zenon DEF Held
  <2>4. Held(w)' = done'[w] \o <<>> BY <1>2, ZenonT(30) DEF Held
  <2> QED BY <1>1, <2>1, <2>2, <2>3, <2>4, Zenon
<1>5. /\ Len(done[w]) = tasks_collected[w] + Len(gc[w])
      /\ \A i \in 1..Len(gc[w]) : gc[w][i] = done[w][tasks_collected[w] + i]
      /\ tasks_collected[w] > 0 <=> "COLLECT_GARBAGE" \in mon[w]
      /\ \A i \in 1..tasks_collected[w] : done[w][i] \in synced
  BY <1>2, <1>3, <1>4, Zenon DEF Intact
<1>6. "EXIT" \notin mon[w] /\ ~(cpc = "exit" /\ cw = w) BY <1>2, Zenon DEF Control
<1>7. CASE "COLLECT_GARBAGE" \in mon[w]
  <2>1. tasks_collected[w] \in 0..Len(done[w]) BY <1>1, <1>5
  <2>2. done'[w] = DropFirst(done[w], tasks_collected[w])
    BY <1>1, <1>2, <1>7, Zenon DEF ReleaseCollected, ReleaseCount
  <2>3. /\ done'[w] \in Seq(Item)
        /\ Len(done'[w]) = Len(done[w]) - tasks_collected[w]
        /\ \A i \in 1..(Len(done[w]) - tasks_collected[w]) :
             done'[w][i] = done[w][tasks_collected[w] + i]
    <3>1. done[w] \in Seq(Item) BY <1>1, Zenon
    <3>2. /\ DropFirst(done[w], tasks_collected[w]) \in Seq(Item)
          /\ Len(DropFirst(done[w], tasks_collected[w]))
               = Len(done[w]) - tasks_collected[w]
          /\ \A i \in 1..(Len(done[w]) - tasks_collected[w]) :
               DropFirst(done[w], tasks_collected[w])[i]
                 = done[w][tasks_collected[w] + i]
      BY ONLY <2>1, <3>1, DropFirstSeq, Zenon
    <3> QED BY <2>2, <3>2, Zenon
  <2>4. tasks_collected'[w] = 0 /\ "COLLECT_GARBAGE" \notin mon'[w]
        /\ ("EXIT" \notin mon'[w]) /\ (cpc' = "exit" => cpc = "exit")
    BY <1>1, <1>2, <1>6, <1>7, SMTT(30) DEF ReleaseCollected, Remove, WakeCreator
  <2>5. Len(done'[w]) = Len(gc[w]) /\ \A i \in 1..Len(gc[w]) : gc[w][i] = done'[w][i]
    BY <1>1, <1>5, <2>3, SMTT(30)
  <2>6. Intact(w)' BY <1>2, <1>4, <1>6, <2>4, <2>5 DEF Intact
  <2>7. \A j \in DOMAIN done[w] : j <= tasks_collected[w] => done[w][j] \in synced
    BY <1>1, <1>5, SMTT(30)
  <2>8. released' = released \cup
          {done[w][i] : i \in {j \in DOMAIN done[w] : j <= tasks_collected[w]}}
    BY <1>2, <1>7, ZenonT(30) DEF ReleaseCollected, ReleaseCount
  <2>9. ReleasedAfterSync' BY <1>2, <2>7, <2>8, Zenon DEF ReleasedAfterSync
  <2> QED BY <2>6, <2>9, Zenon
<1>8. CASE "COLLECT_GARBAGE" \notin mon[w]
  <2>1. UNCHANGED <<done, released, tasks_collected, mon, cpc>>
    BY <1>2, <1>8, Zenon DEF ReleaseCollected
  <2>2. Same(w) BY <1>2, <1>3, <1>4, <2>1, Zenon DEF Same
  <2> QED BY <1>2, <2>1, <2>2, SameIntact, Zenon DEF ReleasedAfterSync
<1> QED BY <1>7, <1>8, Zenon

\* The thread exits after its creator has copied every finished task.
LEMMA ExitReleased ==
  ASSUME TypeOK, Control, NEW w \in Workers, Intact(w), ReleasedAfterSync, Exit(w)
  PROVE  Intact(w)' /\ ReleasedAfterSync'
<1>1. /\ done[w] \in Seq(Item) /\ gc[w] \in Seq(Item) /\ tasks_collected[w] \in Nat
      /\ pc \in [Workers -> Places]
  BY Zenon DEF TypeOK
<1>2. pc[w] = "await" /\ "EXIT" \in mon[w] /\ alive[w]
  BY Zenon DEF Exit, MayExit, Control
<1>3. Held(w) = done[w] BY <1>1, <1>2 DEF Held
<1>4. /\ Len(done[w]) = tasks_collected[w] + Len(gc[w])
      /\ \A i \in 1..Len(gc[w]) : gc[w][i] = done[w][tasks_collected[w] + i]
      /\ \A i \in 1..tasks_collected[w] : done[w][i] \in synced
      /\ \A i \in 1..Len(gc[w]) : gc[w][i] \in synced
  BY <1>2, <1>3, Zenon DEF Intact
<1>5. \A i \in 1..Len(done[w]) : done[w][i] \in synced
  <2> SUFFICES ASSUME NEW i \in 1..Len(done[w]) PROVE done[w][i] \in synced BY Zenon
  <2>1. CASE i <= tasks_collected[w] BY <1>1, <1>4, <2>1
  <2>2. CASE i > tasks_collected[w]
    <3>1. /\ i - tasks_collected[w] \in 1..Len(gc[w])
          /\ tasks_collected[w] + (i - tasks_collected[w]) = i
      BY <1>1, <1>4, <2>2
    <3> QED BY <1>4, <3>1, Zenon
  <2> QED BY <1>1, <2>1, <2>2
<1>6. Range(done[w]) \subseteq synced BY <1>1, <1>5 DEF Range
<1>7. ReleasedAfterSync' BY <1>6, Zenon DEF Exit, ReleasedAfterSync
<1>8. Intact(w)' BY <1>1, Zenon DEF Exit, Intact
<1> QED BY <1>7, <1>8, Zenon

-----------------------------------------------------------------------------
(* The theorems.                                                           *)

\* No step disturbs the cache, the gc queue or the order of copying and letting
\* go.
LEMMA ReleasedNext ==
  ASSUME TypeOK, Control, RunningItem, CacheMirrorsGc, CollectedSynced,
         ReleasedAfterSync, NEW w \in Workers,
         CreatorStep(w) \/ CreatorCalls(w) \/ WorkerStep(w)
  PROVE  CacheMirrorsGc' /\ CollectedSynced' /\ ReleasedAfterSync'
<1>1. \A v \in Workers : Intact(v) BY IntactAll, Zenon
<1>2. ASSUME NEW v \in Workers PROVE Intact(v)'
  <2>1. Intact(v) BY <1>1, Zenon
  <2>2. CASE \/ Start(w) \/ Create(w) \/ CreateFails(w) \/ StartReturns(w)
             \/ StackCheck(w) \/ (\E t \in Tasks : StackAdd(w, t)) \/ Unstack(w)
             \/ CollectWait(w) \/ (\E drop \in BOOLEAN : Join(w, drop))
             \/ JoinExit(w)
    <3>1. Same(v) BY <2>2, CreatorSame, Zenon
    <3> QED BY <2>1, <3>1, SameIntact, Zenon
  <2>3. CASE \/ Boot(w) \/ RunRefused(w) \/ RunCheck(w) \/ RunBegin(w)
             \/ RunReturns(w) \/ RunFails(w) \/ RunEnd(w) \/ WorkerError(w)
             \/ Finish(w)
             \/ v # w /\ (AddGarbage(w) \/ CacheDone(w) \/ NextTask(w)
                            \/ NoNextTask(w) \/ Exit(w))
    <3>1. Same(v) BY <2>3, WorkerSame, Zenon
    <3> QED BY <2>1, <3>1, SameIntact, Zenon
  <2>4. CASE Collect(w) \/ CollectTurn(w) BY <2>1, <2>4, CollectIntact, Zenon
  <2>5. CASE JoinSync(w) BY <2>1, <2>5, JoinSyncIntact, Zenon
  <2>6. CASE JoinReturns(w) \/ Free(w) BY <2>1, <2>6, FreeIntact, Zenon
  <2>7. CASE v = w /\ (AddGarbage(w) \/ CacheDone(w))
    BY <2>1, <2>7, GarbageIntact, Zenon
  <2>8. CASE v = w /\ (NextTask(w) \/ NoNextTask(w))
    BY <2>1, <2>8, ReleaseIntact, Zenon
  <2>9. CASE v = w /\ Exit(w) BY <2>1, <2>9, ExitReleased, Zenon
  <2> QED
    BY <2>2, <2>3, <2>4, <2>5, <2>6, <2>7, <2>8, <2>9, Zenon
    DEF CreatorStep, CreatorCalls, WorkerStep
<1>3. CacheMirrorsGc' /\ CollectedSynced'
  BY <1>2, Zenon DEF CacheMirrorsGc, CollectedSynced, Intact
<1>4. ReleasedAfterSync'
  <2>1. CASE NextTask(w) \/ NoNextTask(w) BY <1>1, <2>1, ReleaseIntact, Zenon
  <2>2. CASE Exit(w) BY <1>1, <2>2, ExitReleased, Zenon
  <2>3. CASE CreatorStep(w) \/ CreatorCalls(w)
    <3>1. released' = released /\ synced \subseteq synced'
      BY <2>3, Zenon
      DEF CreatorStep, CreatorCalls, Start, Create, CreateFails, StartReturns,
          StackCheck, StackAdd, Unstack, Collect, CollectWait, CollectTurn,
          CollectTasks, Join, JoinSync, SyncCollectable, JoinExit, JoinReturns,
          Free, history
    <3> QED BY <3>1, Zenon DEF ReleasedAfterSync
  <2>4. CASE WorkerStep(w) /\ ~(NextTask(w) \/ NoNextTask(w) \/ Exit(w))
    <3>1. released' = released /\ synced' = synced
      BY <2>4, Zenon
     
      DEF WorkerStep, Boot, RunRefused, RunCheck, RunBegin, RunReturns, RunFails,
          RunEnd, WorkerError, AddGarbage, CacheDone, Finish, history
    <3> QED BY <3>1, Zenon DEF ReleasedAfterSync
  <2> QED BY <2>1, <2>2, <2>3, <2>4, Zenon
<1> QED BY <1>3, <1>4, Zenon

\* The invariant holds at the start.
LEMMA InitIInv == Init => IInv
<1> SUFFICES ASSUME Init PROVE IInv BY Zenon
<1>1. TypeOK BY TypeInit, Zenon
<1>2. Control /\ RunningItem /\ FailureMarked /\ Drained /\ NoStrandedTask
  BY WorkerAssumption, Zenon
  DEF Init, Control, RunningItem, Busy, FailureMarked, Drained, NoStrandedTask
<1>3. CacheMirrorsGc /\ CollectedSynced
  <2>1. \A v \in Workers : Held(v) = <<>> BY DEF Init, Held
  <2> QED BY <2>1 DEF Init, CacheMirrorsGc, CollectedSynced
<1>4. ReleasedAfterSync BY Zenon DEF Init, ReleasedAfterSync
<1> QED BY <1>1, <1>2, <1>3, <1>4, Zenon DEF IInv

\* Every step keeps it.
LEMMA NextIInv == IInv /\ [Next]_vars => IInv'
<1> SUFFICES ASSUME IInv, [Next]_vars PROVE IInv' BY Zenon
<1>1. CASE UNCHANGED vars
  <2>1. TypeOK'
    BY <1>1, Zenon DEF IInv, TypeOK, vars, taskVars, threadVars, creatorVars, history
  <2>2. Control' /\ RunningItem' /\ FailureMarked'
    BY <1>1, Zenon DEF IInv, Control, RunningItem, FailureMarked, vars, taskVars, threadVars,
                creatorVars, history
  <2>3. Drained' /\ NoStrandedTask'
    BY <1>1, Zenon DEF IInv, Drained, NoStrandedTask, vars, taskVars, threadVars, creatorVars, history
  <2>4. CacheMirrorsGc' /\ CollectedSynced' /\ ReleasedAfterSync'
    BY <1>1, Zenon DEF IInv, CacheMirrorsGc, CollectedSynced, ReleasedAfterSync, Held, vars, taskVars,
                threadVars, creatorVars, history
  <2> QED BY <2>1, <2>2, <2>3, <2>4, Zenon DEF IInv
<1>2. ASSUME NEW w \in Workers, CreatorStep(w) \/ CreatorCalls(w) \/ WorkerStep(w)
      PROVE  IInv'
  <2>1. /\ TypeOK /\ Control /\ RunningItem /\ FailureMarked /\ Drained
        /\ NoStrandedTask /\ CacheMirrorsGc /\ CollectedSynced /\ ReleasedAfterSync
    BY Zenon DEF IInv
  <2>2. TypeOK' BY <1>2, <2>1, TypeCreator, TypeWorker, Zenon
  <2>3. Control' BY <1>2, <2>1, ControlCreator, ControlWorker, Zenon
  <2>4. RunningItem' BY <1>2, <2>1, RunningItemNext, Zenon
  <2>5. FailureMarked' BY <1>2, <2>1, FailureMarkedNext, Zenon
  <2>6. Drained' BY <1>2, <2>1, DrainedNext, Zenon
  <2>7. NoStrandedTask' BY <1>2, <2>1, NoStrandedTaskNext, Zenon
  <2>8. CacheMirrorsGc' /\ CollectedSynced' /\ ReleasedAfterSync'
    BY <1>2, <2>1, ReleasedNext, Zenon
  <2> QED BY <2>2, <2>3, <2>4, <2>5, <2>6, <2>7, <2>8, Zenon DEF IInv
<1> QED BY <1>1, <1>2, Zenon DEF Next

\* It holds for ever, for any workers, tasks and number of items.
THEOREM WorkerInvariant == Spec => []IInv
  BY InitIInv, NextIInv, PTL DEF Spec

\* The worker data, the threads and the histories have their types.
THEOREM WorkerTypes == Spec => []TypeOK
<1>1. IInv => TypeOK BY Zenon DEF IInv
<1> QED BY <1>1, WorkerInvariant, PTL

\* A worker never sleeps in next_task over a task, a release or a join.
THEOREM NoStrandedTaskAlways == Spec => []NoStrandedTask
<1>1. IInv => NoStrandedTask BY Zenon DEF IInv
<1> QED BY <1>1, WorkerInvariant, PTL

\* done_tasks_cache, outside the monitor, mirrors gc, inside it.
THEOREM CacheMirrorsGcAlways == Spec => []CacheMirrorsGc
<1>1. IInv => CacheMirrorsGc BY Zenon DEF IInv
<1> QED BY <1>1, WorkerInvariant, PTL

\* A thread lets a finished task go only after the creator copied it.
THEOREM ReleasedAfterSyncAlways == Spec => []ReleasedAfterSync
<1>1. IInv => ReleasedAfterSync BY Zenon DEF IInv
<1> QED BY <1>1, WorkerInvariant, PTL

\* A thread that stops without an error leaves no task behind.
THEOREM DrainedUnlessCrashedAlways == Spec => []DrainedUnlessCrashed
<1>1. IInv => DrainedUnlessCrashed
  BY Zenon DEF IInv, Drained, RunningItem, Busy, DrainedUnlessCrashed
<1> QED BY <1>1, WorkerInvariant, PTL

\* The worker data is never freed under a thread that uses it (the assertion of
\* pmmpthread_worker_data_free).
THEOREM FreedUnusedAlways == Spec => []FreedUnused
<1>1. IInv => FreedUnused BY Zenon DEF IInv, Control, RunningItem, Busy, FreedUnused
<1> QED BY <1>1, WorkerInvariant, PTL
=============================================================================
