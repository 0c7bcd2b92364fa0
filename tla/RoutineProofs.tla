--------------------------- MODULE RoutineProofs ---------------------------
(***************************************************************************)
(* The safety theorems of Routine, for any number of threads and whoever   *)
(* creates whom: the count of threads is exact, a thread ends only after   *)
(* it was synchronized, an object is freed only when its thread is over,   *)
(* and a creator outlives its threads.                                     *)
(***************************************************************************)
EXTENDS Routine, FiniteSetTheorems, TLAPS

-----------------------------------------------------------------------------
(* The inductive invariant.                                                *)

\* The threads that count in thread_count.
Counting ==
  {t \in Threads :
     pc[t] \in {"connect", "run", "await", "release", "shut", "dtors"}}

\* The thread is in a call of its creator.
InCall(t, calls) == call[Creator[t]] \in calls /\ on[Creator[t]] = t

\* A context is in a call about a thread that it created, and in code that can
\* call.
CallsFit ==
  \A c \in Contexts :
    /\ call[c] = "none" <=> on[c] = NoOne
    /\ call[c] # "none" => Creator[on[c]] = c /\ object[on[c]] = "live"
    /\ call[c] # "none" /\ c # Main => pc[c] \in {"run", "release", "dtors"}

\* The bits of a thread, its place and the call of its creator agree.
BitsFit ==
  \A t \in Threads :
    /\ "STARTED" \in flags[t] <=> pc[t] # "none" \/ InCall(t, {"create"})
    /\ InCall(t, {"create"}) => pc[t] = "none"
    /\ "JOINED" \in flags[t] => pc[t] = "gone" \/ InCall(t, {"await", "exit", "join"})
    /\ InCall(t, {"await", "exit", "join"}) => {"STARTED", "JOINED"} \subseteq flags[t]
    /\ InCall(t, {"exit"}) => t \in synced
    /\ "EXIT" \in flags[t] => "JOINED" \in flags[t] /\ t \in synced
    /\ pc[t] \in {"release", "shut", "dtors", "gone"} => "EXIT" \in flags[t]

\* start() waits until the thread is past its start-up; a start-up and a shutdown
\* have the lock.
StartFits ==
  \A t \in Threads :
    /\ ready[t] => pc[t] \notin {"none", "boot", "booting"}
    /\ pc[t] \in {"boot", "booting"} => InCall(t, {"ready"})
    /\ pc[t] \in {"booting", "booted", "dtors"} => glock = t

\* Only the object of a thread that is not there or has ended is missing.
ObjectsFit ==
  \A t \in Threads :
    /\ object[t] = "unborn" => flags[t] = {} /\ pc[t] = "none"
    /\ object[t] = "freed" => pc[t] \in {"none", "gone"}

\* thread_count counts them.
Counted == IsFiniteSet(Counting) /\ thread_count = Cardinality(Counting)

IInv == TypeOK /\ CallsFit /\ BitsFit /\ StartFits /\ ObjectsFit /\ Counted
          /\ OutlivedByCreator

\* A step of a thread, or of its creator about it.
Step(t) ==
  \/ ThreadStep(t) \/ CreatorStep(Creator[t], t)
  \/ New(Creator[t], t) \/ Start(Creator[t], t) \/ Join(Creator[t], t, FALSE)

-----------------------------------------------------------------------------
(* Every step keeps it.                                                    *)

\* A call begins in code that can call, and ends by the thread that began it.
LEMMA CallsStep ==
  ASSUME IInv, NEW t \in Threads, Step(t) PROVE CallsFit'
<1> DEFINE k == Creator[t]
<1>0. k \in Contexts BY RoutineAssumption, Zenon
<1> USE DEF IInv, TypeOK, CallsFit, BitsFit
<1>1. CASE Startup(t) BY <1>1 DEF Startup, Goto
<1>2. CASE SetReady(t) BY <1>2 DEF SetReady, Goto
<1>3. CASE StartupEnds(t) BY <1>3 DEF StartupEnds, Goto, CountUp
<1>4. CASE Connect(t) BY <1>4 DEF Connect, Goto
<1>5. CASE RunEnds(t) BY <1>5 DEF RunEnds, Goto, Add
<1>6. CASE Exit(t) BY <1>6 DEF Exit, Goto, MayExit
<1>7. CASE Release(t) BY <1>7 DEF Release, Goto
<1>8. CASE Shutdown(t) BY <1>8 DEF Shutdown, Goto
<1>9. CASE ShutdownEnds(t)
  BY <1>9 DEF ShutdownEnds, Goto, CountDown, Destroyed, Children
<1>10. CASE Create(k, t) BY <1>0, <1>10 DEF Create, Calling, Goto
<1>11. CASE CreateFails(k, t) BY <1>0, <1>11 DEF CreateFails, Calling
<1>12. CASE StartReturns(k, t) BY <1>0, <1>12 DEF StartReturns, Calling
<1>13. CASE JoinSync(k, t) BY <1>0, <1>13 DEF JoinSync, Calling
<1>14. CASE JoinExit(k, t) BY <1>0, <1>14 DEF JoinExit, Calling, LetExit, Add
<1>15. CASE JoinReturns(k, t) BY <1>0, <1>15 DEF JoinReturns, Calling, Ended
<1>16. CASE Free(k, t) BY <1>0, <1>16 DEF Free, Destroys, NeedsJoin
<1>17. CASE New(k, t) BY <1>0, <1>17 DEF New, RunsPhp
<1>18. CASE Start(k, t)
  BY <1>0, <1>18, RoutineAssumption DEF Start, RunsPhp, Add, Contexts
<1>19. CASE \E drop \in BOOLEAN : Join(k, t, drop)
  BY <1>0, <1>19, RoutineAssumption
  DEF Join, Add, Destroys, RunsPhp, NeedsJoin, Contexts
<1> QED
  BY <1>1, <1>2, <1>3, <1>4, <1>5, <1>6, <1>7, <1>8, <1>9, <1>10, <1>11, <1>12,
     <1>13, <1>14, <1>15, <1>16, <1>17, <1>18, <1>19, Zenon
  DEF Step, ThreadStep, CreatorStep

\* The monitor of a thread follows its life and its creator's calls.
LEMMA BitsStep ==
  ASSUME IInv, NEW t \in Threads, Step(t) PROVE BitsFit'
<1> DEFINE k == Creator[t]
<1>0. k \in Contexts BY RoutineAssumption, Zenon
<1> USE DEF IInv, TypeOK, CallsFit, BitsFit, ObjectsFit, InCall
<1>1. CASE Startup(t) BY <1>1 DEF Startup, Goto
<1>2. CASE SetReady(t) BY <1>2 DEF SetReady, Goto
<1>3. CASE StartupEnds(t) BY <1>3 DEF StartupEnds, Goto, CountUp
<1>4. CASE Connect(t) BY <1>4 DEF Connect, Goto
<1>5. CASE RunEnds(t) BY <1>5 DEF RunEnds, Goto, Add
<1>6. CASE Exit(t) BY <1>6 DEF Exit, Goto, MayExit
<1>7. CASE Release(t) BY <1>7 DEF Release, Goto
<1>8. CASE Shutdown(t) BY <1>8 DEF Shutdown, Goto
<1>9. CASE ShutdownEnds(t)
  BY <1>9 DEF ShutdownEnds, Goto, CountDown, Destroyed, Children
<1>10. CASE Create(k, t) BY <1>0, <1>10 DEF Create, Calling, Goto
<1>11. CASE CreateFails(k, t) BY <1>0, <1>11 DEF CreateFails, Calling
<1>12. CASE StartReturns(k, t) BY <1>0, <1>12 DEF StartReturns, Calling
<1>13. CASE JoinSync(k, t) BY <1>0, <1>13 DEF JoinSync, Calling
<1>14. CASE JoinExit(k, t) BY <1>0, <1>14 DEF JoinExit, Calling, LetExit, Add
<1>15. CASE JoinReturns(k, t) BY <1>0, <1>15 DEF JoinReturns, Calling, Ended
<1>16. CASE Free(k, t) BY <1>0, <1>16 DEF Free, Destroys, NeedsJoin
<1>17. CASE New(k, t) BY <1>0, <1>17 DEF New, RunsPhp
<1>18. CASE Start(k, t) BY <1>0, <1>18 DEF Start, RunsPhp, Add
<1>19. CASE \E drop \in BOOLEAN : Join(k, t, drop)
  BY <1>0, <1>19 DEF Join, Add, Destroys, RunsPhp, NeedsJoin
<1> QED
  BY <1>1, <1>2, <1>3, <1>4, <1>5, <1>6, <1>7, <1>8, <1>9, <1>10, <1>11, <1>12,
     <1>13, <1>14, <1>15, <1>16, <1>17, <1>18, <1>19, Zenon
  DEF Step, ThreadStep, CreatorStep

\* start-up and shutdown are one at a time, and start() waits for the first.
LEMMA StartStep ==
  ASSUME IInv, NEW t \in Threads, Step(t) PROVE StartFits'
<1> DEFINE k == Creator[t]
<1>0. k \in Contexts BY RoutineAssumption, Zenon
<1> USE DEF IInv, TypeOK, CallsFit, StartFits, BitsFit, InCall
<1>1. CASE Startup(t) BY <1>1, RoutineAssumption DEF Startup, Goto, Contexts
<1>2. CASE SetReady(t) BY <1>2 DEF SetReady, Goto
<1>3. CASE StartupEnds(t) BY <1>3 DEF StartupEnds, Goto, CountUp
<1>4. CASE Connect(t) BY <1>4 DEF Connect, Goto
<1>5. CASE RunEnds(t) BY <1>5 DEF RunEnds, Goto, Add
<1>6. CASE Exit(t) BY <1>6 DEF Exit, Goto, MayExit
<1>7. CASE Release(t) BY <1>7 DEF Release, Goto
<1>8. CASE Shutdown(t) BY <1>8, RoutineAssumption DEF Shutdown, Goto, Contexts
<1>9. CASE ShutdownEnds(t)
  BY <1>9 DEF ShutdownEnds, Goto, CountDown, Destroyed, Children
<1>10. CASE Create(k, t) BY <1>0, <1>10 DEF Create, Calling, Goto
<1>11. CASE CreateFails(k, t) BY <1>0, <1>11 DEF CreateFails, Calling
<1>12. CASE StartReturns(k, t) BY <1>0, <1>12 DEF StartReturns, Calling
<1>13. CASE JoinSync(k, t) BY <1>0, <1>13 DEF JoinSync, Calling
<1>14. CASE JoinExit(k, t) BY <1>0, <1>14 DEF JoinExit, Calling, LetExit, Add
<1>15. CASE JoinReturns(k, t) BY <1>0, <1>15 DEF JoinReturns, Calling, Ended
<1>16. CASE Free(k, t) BY <1>0, <1>16 DEF Free, Destroys, NeedsJoin
<1>17. CASE New(k, t) BY <1>0, <1>17 DEF New, RunsPhp
<1>18. CASE Start(k, t) BY <1>0, <1>18 DEF Start, RunsPhp, Add
<1>19. CASE \E drop \in BOOLEAN : Join(k, t, drop)
  BY <1>0, <1>19 DEF Join, Add, Destroys, RunsPhp, NeedsJoin
<1> QED
  BY <1>1, <1>2, <1>3, <1>4, <1>5, <1>6, <1>7, <1>8, <1>9, <1>10, <1>11, <1>12,
     <1>13, <1>14, <1>15, <1>16, <1>17, <1>18, <1>19, Zenon
  DEF Step, ThreadStep, CreatorStep

\* No object is freed under its thread: a started thread is joined first.
LEMMA ObjectsStep ==
  ASSUME IInv, NEW t \in Threads, Step(t) PROVE ObjectsFit'
<1> DEFINE k == Creator[t]
<1>0. k \in Contexts BY RoutineAssumption, Zenon
<1> USE DEF IInv, TypeOK, CallsFit, ObjectsFit, BitsFit, InCall
<1>1. CASE Startup(t) BY <1>1 DEF Startup, Goto
<1>2. CASE SetReady(t) BY <1>2 DEF SetReady, Goto
<1>3. CASE StartupEnds(t) BY <1>3 DEF StartupEnds, Goto, CountUp
<1>4. CASE Connect(t) BY <1>4 DEF Connect, Goto
<1>5. CASE RunEnds(t) BY <1>5 DEF RunEnds, Goto, Add
<1>6. CASE Exit(t) BY <1>6 DEF Exit, Goto, MayExit
<1>7. CASE Release(t) BY <1>7 DEF Release, Goto
<1>8. CASE Shutdown(t) BY <1>8 DEF Shutdown, Goto
<1>9. CASE ShutdownEnds(t)
  BY <1>9 DEF ShutdownEnds, Goto, CountDown, Destroyed, Children
<1>10. CASE Create(k, t) BY <1>0, <1>10 DEF Create, Calling, Goto
<1>11. CASE CreateFails(k, t) BY <1>0, <1>11 DEF CreateFails, Calling
<1>12. CASE StartReturns(k, t) BY <1>0, <1>12 DEF StartReturns, Calling
<1>13. CASE JoinSync(k, t) BY <1>0, <1>13 DEF JoinSync, Calling
<1>14. CASE JoinExit(k, t) BY <1>0, <1>14 DEF JoinExit, Calling, LetExit, Add
<1>15. CASE JoinReturns(k, t) BY <1>0, <1>15 DEF JoinReturns, Calling, Ended
<1>16. CASE Free(k, t) BY <1>0, <1>16 DEF Free, Destroys, NeedsJoin
<1>17. CASE New(k, t) BY <1>0, <1>17 DEF New, RunsPhp
<1>18. CASE Start(k, t) BY <1>0, <1>18 DEF Start, RunsPhp, Add
<1>19. CASE \E drop \in BOOLEAN : Join(k, t, drop)
  BY <1>0, <1>19 DEF Join, Add, Destroys, RunsPhp, NeedsJoin
<1> QED
  BY <1>1, <1>2, <1>3, <1>4, <1>5, <1>6, <1>7, <1>8, <1>9, <1>10, <1>11, <1>12,
     <1>13, <1>14, <1>15, <1>16, <1>17, <1>18, <1>19, Zenon
  DEF Step, ThreadStep, CreatorStep

\* A thread's creator gets to its end only when the thread is over: the objects
\* that its shutdown destroys are joined.
LEMMA OutlivedStep ==
  ASSUME IInv, NEW t \in Threads, Step(t) PROVE OutlivedByCreator'
<1> DEFINE k == Creator[t]
<1>0. k \in Contexts BY RoutineAssumption, Zenon
<1> USE DEF IInv, TypeOK, CallsFit, ObjectsFit, BitsFit, OutlivedByCreator,
        InCall
<1>1. CASE Startup(t) BY <1>1 DEF Startup, Goto
<1>2. CASE SetReady(t) BY <1>2 DEF SetReady, Goto
<1>3. CASE StartupEnds(t) BY <1>3 DEF StartupEnds, Goto, CountUp
<1>4. CASE Connect(t) BY <1>4 DEF Connect, Goto
<1>5. CASE RunEnds(t) BY <1>5 DEF RunEnds, Goto, Add
<1>6. CASE Exit(t) BY <1>6 DEF Exit, Goto, MayExit
<1>7. CASE Release(t) BY <1>7 DEF Release, Goto
<1>8. CASE Shutdown(t) BY <1>8 DEF Shutdown, Goto
<1>9. CASE ShutdownEnds(t)
  BY <1>9 DEF ShutdownEnds, Goto, CountDown, Destroyed, Children
<1>10. CASE Create(k, t) BY <1>0, <1>10 DEF Create, Calling, Goto
<1>11. CASE CreateFails(k, t) BY <1>0, <1>11 DEF CreateFails, Calling
<1>12. CASE StartReturns(k, t) BY <1>0, <1>12 DEF StartReturns, Calling
<1>13. CASE JoinSync(k, t) BY <1>0, <1>13 DEF JoinSync, Calling
<1>14. CASE JoinExit(k, t) BY <1>0, <1>14 DEF JoinExit, Calling, LetExit, Add
<1>15. CASE JoinReturns(k, t) BY <1>0, <1>15 DEF JoinReturns, Calling, Ended
<1>16. CASE Free(k, t) BY <1>0, <1>16 DEF Free, Destroys, NeedsJoin
<1>17. CASE New(k, t) BY <1>0, <1>17 DEF New, RunsPhp
<1>18. CASE Start(k, t) BY <1>0, <1>18 DEF Start, RunsPhp, Add
<1>19. CASE \E drop \in BOOLEAN : Join(k, t, drop)
  BY <1>0, <1>19 DEF Join, Add, Destroys, RunsPhp, NeedsJoin
<1> QED
  BY <1>1, <1>2, <1>3, <1>4, <1>5, <1>6, <1>7, <1>8, <1>9, <1>10, <1>11, <1>12,
     <1>13, <1>14, <1>15, <1>16, <1>17, <1>18, <1>19, Zenon
  DEF Step, ThreadStep, CreatorStep

\* thread_count goes up and down with the threads that count.
LEMMA CountedStep == ASSUME IInv, NEW t \in Threads, Step(t) PROVE Counted'
<1> DEFINE k == Creator[t]
<1>1. CASE StartupEnds(t)
  <2>1. t \notin Counting /\ Counting' = Counting \cup {t}
    BY <1>1 DEF IInv, TypeOK, StartupEnds, Goto, Counting
  <2>2. /\ IsFiniteSet(Counting \cup {t})
        /\ Cardinality(Counting \cup {t}) = Cardinality(Counting) + 1
    BY <2>1, FS_AddElement DEF IInv, Counted
  <2> QED
    BY <1>1, <2>1, <2>2 DEF IInv, Counted, StartupEnds, CountUp
<1>2. CASE ShutdownEnds(t)
  <2>1. t \in Counting /\ Counting' = Counting \ {t}
    BY <1>2 DEF IInv, TypeOK, ShutdownEnds, Goto, Counting
  <2>2. /\ IsFiniteSet(Counting \ {t})
        /\ Cardinality(Counting \ {t}) = Cardinality(Counting) - 1
    BY <2>1, FS_RemoveElement DEF IInv, Counted
  <2> QED
    BY <1>2, <2>1, <2>2 DEF IInv, Counted, ShutdownEnds, CountDown
<1>3. ASSUME ~StartupEnds(t), ~ShutdownEnds(t)
      PROVE  Counting' = Counting /\ thread_count' = thread_count
  <2>1. CASE ThreadStep(t)
    BY <1>3, <2>1
    DEF IInv, TypeOK, Counting, ThreadStep, Goto, Startup, SetReady, Connect,
        RunEnds, Exit, Release, Shutdown
  <2>2. CASE Create(k, t)
    BY <2>2 DEF IInv, TypeOK, Counting, Create, Goto
  <2>3. CASE ~ThreadStep(t) /\ ~Create(k, t)
    <3>1. pc' = pc /\ thread_count' = thread_count
      BY <2>3, Zenon
      DEF Step, CreatorStep, CreateFails, StartReturns, JoinSync, JoinExit,
          JoinReturns, Join, Free, New, Start
    <3> QED
      BY <3>1, Zenon DEF Counting
  <2> QED
    BY <2>1, <2>2, <2>3, Zenon
<1> QED
  BY <1>1, <1>2, <1>3, Zenon DEF IInv, Counted

\* The types are kept; the count does not fall below zero because it is exact.
LEMMA TypeStep ==
  ASSUME IInv, NEW t \in Threads, Step(t) PROVE TypeOK'
<1> DEFINE k == Creator[t]
<1>n. thread_count' \in Nat
  BY CountedStep, FS_CardinalityType, Zenon DEF Counted
<1>0. k \in Contexts BY RoutineAssumption, Zenon
<1> USE <1>n, RoutineAssumption DEF IInv, TypeOK, Contexts, Calls, Places
<1>1. CASE Startup(t) BY <1>1 DEF Startup, Goto
<1>2. CASE SetReady(t) BY <1>2 DEF SetReady, Goto
<1>3. CASE StartupEnds(t) BY <1>3 DEF StartupEnds, Goto, CountUp
<1>4. CASE Connect(t) BY <1>4 DEF Connect, Goto
<1>5. CASE RunEnds(t) BY <1>5 DEF RunEnds, Goto, Add
<1>6. CASE Exit(t) BY <1>6 DEF Exit, Goto, MayExit
<1>7. CASE Release(t) BY <1>7 DEF Release, Goto
<1>8. CASE Shutdown(t) BY <1>8 DEF Shutdown, Goto
<1>9. CASE ShutdownEnds(t)
  BY <1>9 DEF ShutdownEnds, Goto, CountDown, Destroyed, Children
<1>10. CASE Create(k, t) BY <1>0, <1>10 DEF Create, Calling, Goto
<1>11. CASE CreateFails(k, t) BY <1>0, <1>11 DEF CreateFails, Calling
<1>12. CASE StartReturns(k, t) BY <1>0, <1>12 DEF StartReturns, Calling
<1>13. CASE JoinSync(k, t) BY <1>0, <1>13 DEF JoinSync, Calling
<1>14. CASE JoinExit(k, t) BY <1>0, <1>14 DEF JoinExit, Calling, LetExit, Add
<1>15. CASE JoinReturns(k, t) BY <1>0, <1>15 DEF JoinReturns, Calling, Ended
<1>16. CASE Free(k, t) BY <1>0, <1>16 DEF Free, Destroys, NeedsJoin
<1>17. CASE New(k, t) BY <1>0, <1>17 DEF New, RunsPhp
<1>18. CASE Start(k, t) BY <1>0, <1>18 DEF Start, RunsPhp, Add
<1>19. CASE \E drop \in BOOLEAN : Join(k, t, drop)
  BY <1>0, <1>19 DEF Join, Add, Destroys, RunsPhp, NeedsJoin
<1> QED
  BY <1>1, <1>2, <1>3, <1>4, <1>5, <1>6, <1>7, <1>8, <1>9, <1>10, <1>11, <1>12,
     <1>13, <1>14, <1>15, <1>16, <1>17, <1>18, <1>19, Zenon
  DEF Step, ThreadStep, CreatorStep

-----------------------------------------------------------------------------
(* The theorems.                                                           *)

\* The invariant holds at the start.
LEMMA InitInv == Init => IInv
<1> SUFFICES ASSUME Init PROVE IInv
  OBVIOUS
<1>1. TypeOK
  BY DEF Init, TypeOK, Calls, Places
<1>2. CallsFit /\ BitsFit /\ StartFits /\ ObjectsFit /\ OutlivedByCreator
  BY RoutineAssumption
  DEF Init, CallsFit, BitsFit, StartFits, ObjectsFit, OutlivedByCreator, InCall,
      Contexts
<1>3. Counted
  <2>1. Counting = {}
    BY DEF Init, Counting
  <2> QED
    BY <2>1, FS_EmptySet DEF Init, Counted
<1> QED
  BY <1>1, <1>2, <1>3, Zenon DEF IInv

\* Every step keeps the invariant.
LEMMA StepInv == IInv /\ [Next]_vars => IInv'
<1> SUFFICES ASSUME IInv, [Next]_vars PROVE IInv'
  OBVIOUS
<1>1. CASE Next
  <2>1. PICK t \in Threads : Step(t)
    BY <1>1, Zenon DEF Next, Step
  <2> QED
    BY <2>1, TypeStep, CallsStep, BitsStep, StartStep, ObjectsStep, CountedStep,
       OutlivedStep, Zenon
    DEF IInv
<1>2. CASE UNCHANGED vars
  BY <1>2
  DEF vars, IInv, TypeOK, CallsFit, BitsFit, StartFits, ObjectsFit, Counted,
      Counting, OutlivedByCreator, InCall
<1> QED
  BY <1>1, <1>2, Zenon

\* The invariant always holds.
THEOREM Inductive == Spec => []IInv
  BY InitInv, StepInv, PTL DEF Spec

\* With no call under way, the threads that count are those started and not yet
\* joined.
LEMMA InvCountExact == IInv => CountExact
<1> SUFFICES ASSUME IInv, glock = NoOne, \A c \in Contexts : call[c] = "none"
             PROVE  thread_count = Cardinality({t \in Threads :
                      "STARTED" \in flags[t] /\ "JOINED" \notin flags[t]})
  BY Zenon DEF CountExact
<1>1. \A t \in Threads :
        t \in Counting <=> "STARTED" \in flags[t] /\ "JOINED" \notin flags[t]
  BY RoutineAssumption
  DEF IInv, TypeOK, Places, BitsFit, StartFits, InCall, Counting, Contexts
<1>2. Counting = {t \in Threads : "STARTED" \in flags[t] /\ "JOINED" \notin flags[t]}
  BY <1>1 DEF Counting
<1> QED
  BY <1>2, Zenon DEF IInv, Counted

\* pmmpthread_globals' thread_count is exact whenever no start-up, shutdown or
\* call is under way: what Thread::getRunningCount() reports.
THEOREM CountIsExact == Spec => []CountExact
  BY Inductive, InvCountExact, PTL

\* A thread passes its wait for EXIT only after its creator, in pmmpthread_join,
\* has synchronized the properties it assigned.
THEOREM SyncedBeforeExit == Spec => []ExitAfterSync
<1>1. IInv => ExitAfterSync
  BY Zenon DEF IInv, BitsFit, ExitAfterSync
<1> QED
  BY <1>1, Inductive, PTL

\* An object is freed only when its thread was never started or has ended.
THEOREM FreedWhenOver == Spec => []FreedAfterEnd
<1>1. IInv => FreedAfterEnd
  BY Zenon DEF IInv, ObjectsFit, FreedAfterEnd
<1> QED
  BY <1>1, Inductive, PTL

\* No thread is left running when its creator ends.
THEOREM CreatorOutlives == Spec => []OutlivedByCreator
<1>1. IInv => OutlivedByCreator
  BY Zenon DEF IInv
<1> QED
  BY <1>1, Inductive, PTL
=============================================================================
