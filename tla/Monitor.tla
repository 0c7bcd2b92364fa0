------------------------------ MODULE Monitor ------------------------------
(***************************************************************************)
(* One pmmpthread_monitor_t (src/monitor.c): a recursive mutex, one        *)
(* condition variable and a word of state bits, used by every thread that  *)
(* holds a connection to the object.  The same condition variable serves   *)
(* the extension's own flag waits (pmmpthread_monitor_wait_until) and the  *)
(* waits of PHP code (ThreadSafe::wait, classes/thread_safe.c).            *)
(*                                                                         *)
(* A thread that is "idle" runs PHP code, possibly inside synchronized()   *)
(* blocks of this object; depth is how often the owner holds the mutex.    *)
(***************************************************************************)
EXTENDS Integers, FiniteSets

CONSTANTS
  Threads,    \* the threads connected to the object
  Flags,      \* the state bits in play
  NoThread,   \* the mutex has no owner
  MaxDepth    \* bound on nested synchronized() blocks of one thread

ASSUME MonitorAssumption ==
  /\ NoThread \notin Threads
  /\ MaxDepth \in Nat \ {0}

VARIABLES
  owner,      \* the thread that owns the mutex, or NoThread
  depth,      \* the recursion count of the mutex
  state,      \* the state bits that are set
  pc,         \* where each thread is
  op,         \* the call each thread is in
  blocks,     \* how many synchronized() blocks each thread is inside
  mask        \* the bits that call is about

vars == <<owner, depth, state, pc, op, mask, blocks>>

\* Calls that take the mutex first, and the two forms of ThreadSafe::wait.
LockingOps == {"add", "remove", "until", "sync"}
WaitOps    == {"wait", "timedwait"}

\* "lock": about to take the mutex.  "body": the mutex is held and the call's
\* work is due.  "parked": blocked in pthread_cond_wait.  "relock": woken, and
\* about to take the mutex again.  "unlock": the work is done.
Labels == {"idle", "lock", "body", "parked", "relock", "unlock"}

Init ==
  /\ owner = NoThread
  /\ depth = 0
  /\ state = {}
  /\ pc    = [t \in Threads |-> "idle"]
  /\ op    = [t \in Threads |-> "sync"]
  /\ mask  = [t \in Threads |-> {}]
  /\ blocks = [t \in Threads |-> 0]

-----------------------------------------------------------------------------
(* The recursive mutex: pthread_mutex_lock and pthread_mutex_unlock.       *)

\* Mutant of Lock: the mutex is not recursive.
LockOnce(t) ==
  /\ owner = NoThread
  /\ owner' = t
  /\ depth' = depth + 1

Lock(t) ==
  /\ owner \in {NoThread, t}
  /\ owner' = t
  /\ depth' = depth + 1

\* Mutant of Unlock: the recursion count is ignored.
UnlockAllLevels(t) ==
  /\ owner = t
  /\ depth' = 0
  /\ owner' = NoThread

\* One level is given up; the mutex is free only when it was the last.
Unlock(t) ==
  /\ owner = t
  /\ depth' = depth - 1
  /\ owner' = IF depth = 1 THEN NoThread ELSE t

\* Mutant of Broadcast: nobody is woken.
NoBroadcast(next) == next

\* pthread_cond_broadcast: every thread blocked on the condition variable
\* leaves it and competes for the mutex.
Broadcast(next) ==
  [u \in Threads |-> IF pc[u] = "parked" THEN "relock" ELSE next[u]]

\* pmmpthread_monitor_check, by a thread that holds the mutex already.
Check(bits) == state \cap bits # {}

-----------------------------------------------------------------------------
(* PHP code calls an operation.                                            *)

Call(t, o, bits) ==
  /\ pc[t] = "idle"
  /\ o = "sync" => blocks[t] < MaxDepth
  /\ pc' = [pc EXCEPT ![t] = "lock"]
  /\ op' = [op EXCEPT ![t] = o]
  /\ mask' = [mask EXCEPT ![t] = bits]
  /\ UNCHANGED <<owner, depth, state, blocks>>

\* pmmpthread_monitor_lock; synchronized() then runs its closure.
Enter(t) ==
  /\ pc[t] = "lock"
  /\ Lock(t)
  /\ IF op[t] = "sync"
     THEN /\ pc' = [pc EXCEPT ![t] = "idle"]
          /\ blocks' = [blocks EXCEPT ![t] = @ + 1]
     ELSE /\ pc' = [pc EXCEPT ![t] = "body"]
          /\ UNCHANGED blocks
  /\ UNCHANGED <<state, op, mask>>

\* pmmpthread_monitor_add and pmmpthread_monitor_remove: change the bits and
\* broadcast, both under the mutex.
SetBits(t) ==
  /\ pc[t] = "body"
  /\ op[t] \in {"add", "remove"}
  /\ state' = IF op[t] = "add" THEN state \cup mask[t] ELSE state \ mask[t]
  /\ pc' = Broadcast([pc EXCEPT ![t] = "unlock"])
  /\ UNCHANGED <<owner, depth, op, mask, blocks>>

\* pmmpthread_monitor_wait_until, a turn of its loop that finds a bit set.
UntilDone(t) ==
  /\ pc[t] = "body"
  /\ op[t] = "until"
  /\ Check(mask[t])
  /\ pc' = [pc EXCEPT ![t] = "unlock"]
  /\ UNCHANGED <<owner, depth, state, op, mask, blocks>>

\* A turn of the loop that finds none: pthread_cond_wait gives up one level of
\* the mutex and blocks, in one step.
UntilWait(t) ==
  /\ pc[t] = "body"
  /\ op[t] = "until"
  /\ ~Check(mask[t])
  /\ Unlock(t)
  /\ pc' = [pc EXCEPT ![t] = "parked"]
  /\ UNCHANGED <<state, op, mask, blocks>>

\* pmmpthread_monitor_unlock at the end of a call.
Leave(t) ==
  /\ pc[t] = "unlock"
  /\ Unlock(t)
  /\ pc' = [pc EXCEPT ![t] = "idle"]
  /\ UNCHANGED <<state, op, mask, blocks>>

\* The closure of synchronized() returns, throws or bails out.
EndSynchronized(t) ==
  /\ pc[t] = "idle"
  /\ blocks[t] > 0
  /\ Unlock(t)
  /\ blocks' = [blocks EXCEPT ![t] = @ - 1]
  /\ UNCHANGED <<state, pc, op, mask>>

\* ThreadSafe::wait.  Outside synchronized() the mutex is not the caller's,
\* pthread_cond_wait refuses and nothing changes, so only the other case is a
\* step.
Wait(t, o) ==
  /\ pc[t] = "idle"
  /\ Unlock(t)
  /\ pc' = [pc EXCEPT ![t] = "parked"]
  /\ op' = [op EXCEPT ![t] = o]
  /\ UNCHANGED <<state, mask, blocks>>

\* ThreadSafe::notify, which needs no lock.
Notify(t) ==
  /\ pc[t] = "idle"
  /\ pc' = Broadcast(pc)
  /\ UNCHANGED <<owner, depth, state, op, mask, blocks>>

\* ThreadSafe::notifyOne: pthread_cond_signal wakes any one blocked thread.
NotifyOne(t) ==
  /\ pc[t] = "idle"
  /\ \E u \in Threads : /\ pc[u] = "parked"
                        /\ pc' = [pc EXCEPT ![u] = "relock"]
  /\ UNCHANGED <<owner, depth, state, op, mask, blocks>>

\* The time limit of a timed wait passes, or a wait returns spuriously, which
\* POSIX lets any wait do.
Wakeup(t) ==
  /\ pc[t] = "parked"
  /\ pc' = [pc EXCEPT ![t] = "relock"]
  /\ UNCHANGED <<owner, depth, state, op, mask, blocks>>

\* pthread_cond_wait returns with the mutex: wait_until takes another turn of
\* its loop, ThreadSafe::wait returns to PHP code inside synchronized().
Relock(t) ==
  /\ pc[t] = "relock"
  /\ Lock(t)
  /\ pc' = [pc EXCEPT ![t] = IF op[t] = "until" THEN "body" ELSE "idle"]
  /\ UNCHANGED <<state, op, mask, blocks>>

Step(t) ==
  \/ \E bits \in (SUBSET Flags) \ {{}} :
       \E o \in {"add", "remove", "until"} : Call(t, o, bits)
  \/ Call(t, "sync", {})
  \/ Enter(t)
  \/ SetBits(t)
  \/ UntilDone(t)
  \/ UntilWait(t)
  \/ Leave(t)
  \/ EndSynchronized(t)
  \/ \E o \in WaitOps : Wait(t, o)
  \/ Notify(t)
  \/ NotifyOne(t)
  \/ Wakeup(t)
  \/ Relock(t)

Next == \E t \in Threads : Step(t)

\* A thread inside a call goes on with it, PHP code leaves its synchronized()
\* blocks, a timed wait ends, and a thread that finds the mutex free again and
\* again gets it in the end.
Fairness ==
  \A t \in Threads :
    /\ SF_vars(Enter(t))
    /\ SF_vars(Relock(t))
    /\ WF_vars(SetBits(t))
    /\ WF_vars(UntilDone(t))
    /\ WF_vars(UntilWait(t))
    /\ WF_vars(Leave(t))
    /\ SF_vars(EndSynchronized(t))
    /\ WF_vars(Wakeup(t) /\ op[t] = "timedwait")

Spec == Init /\ [][Next]_vars
FairSpec == Spec /\ Fairness

-----------------------------------------------------------------------------
(* Properties.                                                             *)

\* The types of the mutex, the bits and the threads' places in the calls.
TypeOK ==
  /\ owner \in Threads \cup {NoThread}
  /\ depth \in Nat
  /\ state \in SUBSET Flags
  /\ pc \in [Threads -> Labels]
  /\ op \in [Threads -> LockingOps \cup WaitOps]
  /\ mask \in [Threads -> SUBSET Flags]
  /\ blocks \in [Threads -> Nat]

\* How often a thread has locked the mutex, by where it is: once for each
\* synchronized() block and once inside a call of its own, and one less while
\* ThreadSafe::wait has given a level up.
Levels(t) ==
  blocks[t] + (IF pc[t] \in {"body", "unlock"} THEN 1 ELSE 0)
            - (IF pc[t] \in {"parked", "relock"} /\ op[t] \in WaitOps THEN 1 ELSE 0)

\* Mutual exclusion across nested blocks, waits and wake-ups: a thread owns the
\* mutex exactly when its place in the code says it has locked it, as often as
\* the recursion count says, so no two threads are inside synchronized() blocks
\* or touch the bits at once.
MutexHeld ==
  /\ \A t \in Threads : IF owner = t THEN depth > 0 /\ Levels(t) = depth
                                     ELSE Levels(t) = 0
  /\ owner = NoThread => depth = 0

\* No lost wake-up: a thread blocked in pmmpthread_monitor_wait_until waits for
\* bits none of which is set, because add and remove broadcast under the mutex
\* and the loop tests and blocks without giving it up in between.
NoLostWakeup ==
  \A t \in Threads :
    pc[t] = "parked" /\ op[t] = "until" => state \cap mask[t] = {}

\* A thread blocked on the condition variable still owns the mutex only because
\* it had locked it more than once: pthread_cond_wait gives up one level.
HoldsWhileParked(t) == pc[t] = "parked" /\ owner = t

\* A flag wait returns: a thread in pmmpthread_monitor_wait_until whose bit is
\* set gets the mutex back and leaves the loop, unless the bit is cleared again
\* first or some thread blocks in a nested wait with the mutex still held, which
\* is the one thing that can keep it away.
FlagWaitReturns ==
  \A t \in Threads :
    (/\ op[t] = "until"
     /\ pc[t] \in {"body", "parked", "relock"}
     /\ state \cap mask[t] # {})
      ~> \/ pc[t] = "unlock" \/ state \cap mask[t] = {}
         \/ \E u \in Threads : HoldsWhileParked(u)
=============================================================================
