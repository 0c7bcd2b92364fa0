--------------------------- MODULE MonitorProofs ---------------------------
(* Proofs about Monitor: its safety properties hold for every set of threads, *)
(* every set of bits and every nesting of synchronized() blocks.              *)
EXTENDS Monitor, TLAPS

\* Only the two kinds of wait leave a thread blocked or woken.
BlockedInWait ==
  \A t \in Threads : pc[t] \in {"parked", "relock"} => op[t] \in {"until"} \cup WaitOps

\* With the types, the properties together are inductive.
IInv == TypeOK /\ BlockedInWait /\ MutexHeld /\ NoLostWakeup

-----------------------------------------------------------------------------
(* The mutex against the places of the threads.                            *)

\* A thread has locked a whole number of times.
LEMMA LevelsInt ==
  ASSUME TypeOK
  PROVE  \A t \in Threads : Levels(t) \in Int
BY DEF TypeOK, Levels

\* A lock that moves the caller one level up keeps owner and count right.
LEMMA LockHeld ==
  ASSUME TypeOK, MutexHeld, NEW t \in Threads, Lock(t),
         Levels(t)' = Levels(t) + 1,
         \A u \in Threads \ {t} : Levels(u)' = Levels(u)
  PROVE  MutexHeld' /\ owner' \in Threads /\ depth' \in Nat
BY MonitorAssumption, LevelsInt DEF Lock, TypeOK, MutexHeld

\* So does an unlock that moves it one level down.
LEMMA UnlockHeld ==
  ASSUME TypeOK, MutexHeld, NEW t \in Threads, Unlock(t),
         Levels(t)' = Levels(t) - 1,
         \A u \in Threads \ {t} : Levels(u)' = Levels(u)
  PROVE  MutexHeld' /\ owner' \in Threads \cup {NoThread} /\ depth' \in Nat
BY MonitorAssumption, LevelsInt DEF Unlock, TypeOK, MutexHeld

\* So does a step that leaves the mutex alone and every thread on its level.
LEMMA SameHeld ==
  ASSUME MutexHeld, UNCHANGED <<owner, depth>>,
         \A u \in Threads : Levels(u)' = Levels(u)
  PROVE  MutexHeld'
BY Zenon DEF MutexHeld

-----------------------------------------------------------------------------
(* The invariant.                                                          *)

\* The initial state satisfies it: nobody holds or waits.
LEMMA InitIInv == Init => IInv
<1> SUFFICES ASSUME Init PROVE IInv BY Zenon
<1>1. TypeOK /\ BlockedInWait /\ NoLostWakeup
  BY Zenon DEF Init, TypeOK, BlockedInWait, NoLostWakeup, Labels, LockingOps, WaitOps
<1>2. \A t \in Threads : Levels(t) = 0 BY DEF Init, Levels
<1>3. MutexHeld BY <1>2, MonitorAssumption, Zenon DEF Init, MutexHeld
<1> QED BY <1>1, <1>3, Zenon DEF IInv

\* Every step of every thread keeps the types, and blocks only in the waits.
LEMMA TypeNext ==
  ASSUME IInv, NEW t \in Threads, Step(t), owner' \in Threads \cup {NoThread},
         depth' \in Nat
  PROVE  TypeOK' /\ BlockedInWait'
<1> USE DEF IInv, TypeOK, BlockedInWait, Labels, LockingOps, WaitOps
<1>1. ASSUME NEW o \in LockingOps, NEW bits \in SUBSET Flags, Call(t, o, bits)
      PROVE  TypeOK' /\ BlockedInWait'
  BY <1>1, Zenon DEF Call
<1>2. CASE Enter(t) BY <1>2 DEF Enter
<1>3. CASE SetBits(t) BY <1>3, Zenon DEF SetBits, Broadcast
<1>4. CASE UntilDone(t) BY <1>4, Zenon DEF UntilDone
<1>5. CASE UntilWait(t) BY <1>5, Zenon DEF UntilWait
<1>6. CASE Leave(t) BY <1>6, Zenon DEF Leave
<1>7. CASE EndSynchronized(t) BY <1>7 DEF EndSynchronized
<1>8. ASSUME NEW o \in WaitOps, Wait(t, o) PROVE TypeOK' /\ BlockedInWait'
  BY <1>8, Zenon DEF Wait
<1>9. CASE Notify(t) BY <1>9, Zenon DEF Notify, Broadcast
<1>10. CASE NotifyOne(t) BY <1>10, Zenon DEF NotifyOne
<1>11. CASE Wakeup(t) BY <1>11, Zenon DEF Wakeup
<1>12. CASE Relock(t) BY <1>12, Zenon DEF Relock
<1> QED
  BY <1>1, <1>2, <1>3, <1>4, <1>5, <1>6, <1>7, <1>8, <1>9, <1>10, <1>11, <1>12
  DEF Step

\* Every step of every thread keeps the mutex with the threads that locked it.
LEMMA MutexNext ==
  ASSUME IInv, NEW t \in Threads, Step(t)
  PROVE  MutexHeld' /\ owner' \in Threads \cup {NoThread} /\ depth' \in Nat
<1>1. TypeOK /\ MutexHeld /\ BlockedInWait BY Zenon DEF IInv
<1> USE <1>1 DEF TypeOK, Levels, LockingOps, WaitOps
<1>2. ASSUME NEW o \in LockingOps, NEW bits \in SUBSET Flags, Call(t, o, bits)
      PROVE  MutexHeld' /\ UNCHANGED <<owner, depth>>
  <2>1. \A u \in Threads : Levels(u)' = Levels(u) BY <1>2, Zenon DEF Call
  <2>2. UNCHANGED <<owner, depth>> BY <1>2, Zenon DEF Call
  <2> QED BY <2>1, <2>2, SameHeld, Zenon
<1>3. CASE Enter(t)
  <2>1. Lock(t) BY <1>3, Zenon DEF Enter
  <2>2. Levels(t)' = Levels(t) + 1 BY <1>3 DEF Enter
  <2>3. \A u \in Threads \ {t} : Levels(u)' = Levels(u) BY <1>3, Zenon DEF Enter
  <2> QED BY ONLY <1>1, <2>1, <2>2, <2>3, LockHeld, Zenon
<1>4. CASE SetBits(t)
  <2>1. \A u \in Threads : Levels(u)' = Levels(u) BY <1>4, Zenon DEF SetBits, Broadcast
  <2>2. UNCHANGED <<owner, depth>> BY <1>4, Zenon DEF SetBits
  <2> QED BY <2>1, <2>2, SameHeld, Zenon
<1>5. CASE UntilDone(t)
  <2>1. \A u \in Threads : Levels(u)' = Levels(u) BY <1>5, Zenon DEF UntilDone
  <2>2. UNCHANGED <<owner, depth>> BY <1>5, Zenon DEF UntilDone
  <2> QED BY <2>1, <2>2, SameHeld, Zenon
<1>6. CASE UntilWait(t)
  <2>1. Unlock(t) BY <1>6, Zenon DEF UntilWait
  <2>2. Levels(t)' = Levels(t) - 1 BY <1>6 DEF UntilWait
  <2>3. \A u \in Threads \ {t} : Levels(u)' = Levels(u) BY <1>6, Zenon DEF UntilWait
  <2> QED BY ONLY <1>1, <2>1, <2>2, <2>3, UnlockHeld, Zenon
<1>7. CASE Leave(t)
  <2>1. Unlock(t) BY <1>7, Zenon DEF Leave
  <2>2. Levels(t)' = Levels(t) - 1 BY <1>7 DEF Leave
  <2>3. \A u \in Threads \ {t} : Levels(u)' = Levels(u) BY <1>7, Zenon DEF Leave
  <2> QED BY ONLY <1>1, <2>1, <2>2, <2>3, UnlockHeld, Zenon
<1>8. CASE EndSynchronized(t)
  <2>1. Unlock(t) BY <1>8, Zenon DEF EndSynchronized
  <2>2. Levels(t)' = Levels(t) - 1 BY <1>8 DEF EndSynchronized
  <2>3. \A u \in Threads \ {t} : Levels(u)' = Levels(u)
    BY <1>8, Zenon DEF EndSynchronized
  <2> QED BY ONLY <1>1, <2>1, <2>2, <2>3, UnlockHeld, Zenon
<1>9. ASSUME NEW o \in WaitOps, Wait(t, o)
      PROVE  MutexHeld' /\ owner' \in Threads \cup {NoThread} /\ depth' \in Nat
  <2>1. Unlock(t) BY <1>9, Zenon DEF Wait
  <2>2. Levels(t)' = Levels(t) - 1 BY <1>9 DEF Wait
  <2>3. \A u \in Threads \ {t} : Levels(u)' = Levels(u) BY <1>9, Zenon DEF Wait
  <2> QED BY ONLY <1>1, <2>1, <2>2, <2>3, UnlockHeld, Zenon
<1>10. CASE Notify(t) \/ NotifyOne(t) \/ Wakeup(t)
  <2>1. \A u \in Threads : Levels(u)' = Levels(u)
    BY <1>10, Zenon DEF Notify, Broadcast, NotifyOne, Wakeup
  <2>2. UNCHANGED <<owner, depth>> BY <1>10, Zenon DEF Notify, NotifyOne, Wakeup
  <2> QED BY <2>1, <2>2, SameHeld, Zenon
<1>11. CASE Relock(t)
  <2>1. Lock(t) BY <1>11, Zenon DEF Relock
  <2>2. Levels(t)' = Levels(t) + 1 BY <1>11 DEF Relock, BlockedInWait
  <2>3. \A u \in Threads \ {t} : Levels(u)' = Levels(u) BY <1>11, Zenon DEF Relock
  <2> QED BY ONLY <1>1, <2>1, <2>2, <2>3, LockHeld, Zenon
<1> QED
  BY <1>2, <1>3, <1>4, <1>5, <1>6, <1>7, <1>8, <1>9, <1>10, <1>11 DEF Step

\* Every step of every thread keeps blocked flag waits without a bit to see.
LEMMA WakeupNext ==
  ASSUME IInv, NEW t \in Threads, Step(t)
  PROVE  NoLostWakeup'
<1> USE DEF IInv, TypeOK, NoLostWakeup, WaitOps, LockingOps
<1>1. ASSUME NEW o \in LockingOps, NEW bits \in SUBSET Flags, Call(t, o, bits)
      PROVE  NoLostWakeup'
  BY <1>1, Zenon DEF Call
<1>2. CASE Enter(t) BY <1>2, Zenon DEF Enter
<1>3. CASE SetBits(t) BY <1>3, Zenon DEF SetBits, Broadcast
<1>4. CASE UntilDone(t) BY <1>4, Zenon DEF UntilDone
<1>5. CASE UntilWait(t) BY <1>5, Zenon DEF UntilWait, Check
<1>6. CASE Leave(t) BY <1>6, Zenon DEF Leave
<1>7. CASE EndSynchronized(t) BY <1>7, Zenon DEF EndSynchronized
<1>8. ASSUME NEW o \in WaitOps, Wait(t, o) PROVE NoLostWakeup' BY <1>8, Zenon DEF Wait
<1>9. CASE Notify(t) BY <1>9, Zenon DEF Notify, Broadcast
<1>10. CASE NotifyOne(t) BY <1>10, Zenon DEF NotifyOne
<1>11. CASE Wakeup(t) BY <1>11, Zenon DEF Wakeup
<1>12. CASE Relock(t) BY <1>12, Zenon DEF Relock
<1> QED
  BY <1>1, <1>2, <1>3, <1>4, <1>5, <1>6, <1>7, <1>8, <1>9, <1>10, <1>11, <1>12, Zenon
  DEF Step

\* Every step of every thread preserves the invariant.
LEMMA NextIInv == IInv /\ [Next]_vars => IInv'
<1> SUFFICES ASSUME IInv, [Next]_vars PROVE IInv' BY Zenon
<1>1. CASE UNCHANGED vars
  BY <1>1, Zenon
  DEF IInv, vars, TypeOK, BlockedInWait, MutexHeld, Levels, NoLostWakeup
<1>2. ASSUME NEW t \in Threads, Step(t) PROVE IInv'
  BY <1>2, TypeNext, MutexNext, WakeupNext, Zenon DEF IInv
<1> QED BY <1>1, <1>2, Zenon DEF Next

-----------------------------------------------------------------------------
(* The theorems.                                                           *)

\* The inductive invariant holds in every reachable state of the monitor.
THEOREM MonitorInvariant == Spec => []IInv
BY InitIInv, NextIInv, PTL DEF Spec

\* Mutual exclusion of the monitor, for any threads, bits and nesting: a thread
\* owns the mutex, as often as counted, exactly while its synchronized() blocks and
\* its calls say so, across every pthread_cond_wait in between.
THEOREM MutexHeldAlways == Spec => []MutexHeld
<1>1. IInv => MutexHeld
  BY Zenon DEF IInv
<1> QED
  BY <1>1, MonitorInvariant, PTL

\* No flag wait misses its bit, for any threads, bits and nesting: a thread
\* blocked in pmmpthread_monitor_wait_until waits for bits that are all clear.
THEOREM NoLostWakeupAlways == Spec => []NoLostWakeup
<1>1. IInv => NoLostWakeup
  BY Zenon DEF IInv
<1> QED
  BY <1>1, MonitorInvariant, PTL
=============================================================================
