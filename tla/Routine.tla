------------------------------ MODULE Routine ------------------------------
(***************************************************************************)
(* The life of threads (src/routine.c, the start-up and shutdown in        *)
(* src/prepare.c, the destructor and the free handler in src/object.c): a  *)
(* tree of threads, each created, started, joined and freed by its         *)
(* creator, and the one lock of the globals that start-up, shutdown and    *)
(* every change of the object registry take.                               *)
(*                                                                         *)
(* A context is the main thread or a started thread.  It holds the object  *)
(* of a thread it created in a variable that goes when the frame goes, or  *)
(* (Kept) in a static or global variable that only the request's shutdown  *)
(* destroys.                                                               *)
(***************************************************************************)
EXTENDS Integers, FiniteSets

CONSTANTS
  Threads,
  Main,       \* the main thread of the process
  NoOne,      \* the globals lock is free
  Creator,    \* the context that creates each thread
  Kept        \* threads whose object only the creator's shutdown destroys

Contexts == Threads \cup {Main}

ASSUME RoutineAssumption ==
  /\ Main \notin Threads /\ NoOne \notin Contexts
  /\ Creator \in [Threads -> Contexts]
  /\ Kept \subseteq Threads

VARIABLES
  flags,      \* the bits in the monitor of each thread object
  ready,      \* READY in the monitor local to pmmpthread_start
  object,     \* the creator's zend object
  pc,         \* where each thread is in pmmpthread_routine
  call, on,   \* the call each context is in, and the thread it is about
  dropping,   \* the join was called by the destructor
  synced,     \* threads whose properties the creator copied at its join
  glock,      \* the owner of the (recursive) globals lock
  thread_count \* PMMPTHREAD_G(thread_count)

vars == <<flags, ready, object, pc, call, on, dropping, synced, glock, thread_count>>

Places == {"none", "boot", "booting", "booted", "connect", "run", "await",
           "release", "shut", "dtors", "gone"}
Calls == {"none", "create", "ready", "await", "exit", "join"}

Children(c) == {t \in Threads : Creator[t] = c}

Init ==
  /\ flags = [t \in Threads |-> {}]
  /\ ready = [t \in Threads |-> FALSE]
  /\ object = [t \in Threads |-> "unborn"]
  /\ pc = [t \in Threads |-> "none"]
  /\ call = [c \in Contexts |-> "none"]
  /\ on = [c \in Contexts |-> NoOne]
  /\ dropping = [c \in Contexts |-> FALSE]
  /\ synced = {}
  /\ glock = NoOne
  /\ thread_count = 0

\* A critical section of the globals lock that is over within the step.
GlobalsFree(c) == glock \in {NoOne, c}

Add(t, b) == flags' = [flags EXCEPT ![t] = @ \cup {b}]
Goto(t, from, to) == pc[t] = from /\ pc' = [pc EXCEPT ![t] = to]
Calling(c, t, from, to) ==
  /\ call[c] = from /\ on[c] = t
  /\ call' = [call EXCEPT ![c] = to]
  /\ on' = [on EXCEPT ![c] = IF to = "none" THEN NoOne ELSE t]

\* c runs PHP code that may start and join threads.
RunsPhp(c) == call[c] = "none" /\ (c # Main => pc[c] = "run")

\* c destroys the variable that holds thread t: a local or a property in run()
\* or when the thread lets its own object go, a static in request shutdown (the
\* main thread's is not run under the globals lock).
Destroys(c, t) ==
  /\ call[c] = "none"
  /\ c # Main =>
       pc[c] \in (IF t \in Kept THEN {"dtors"} ELSE {"run", "release"})

\* pmmpthread_base_ctor and the entry in the registry of objects.
New(c, t) ==
  /\ RunsPhp(c)
  /\ object[t] = "unborn"
  /\ GlobalsFree(c)
  /\ object' = [object EXCEPT ![t] = "live"]
  /\ UNCHANGED <<flags, ready, pc, call, on, dropping, synced, glock, thread_count>>

-----------------------------------------------------------------------------
(* pmmpthread_start.                                                       *)

Start(c, t) ==
  /\ RunsPhp(c) /\ object[t] = "live"
  /\ "STARTED" \notin flags[t]
  /\ Add(t, "STARTED")
  /\ call' = [call EXCEPT ![c] = "create"] /\ on' = [on EXCEPT ![c] = t]
  /\ UNCHANGED <<ready, object, pc, dropping, synced, glock, thread_count>>

Create(c, t) ==
  /\ Calling(c, t, "create", "ready")
  /\ Goto(t, "none", "boot")
  /\ UNCHANGED <<flags, ready, object, dropping, synced, glock, thread_count>>

\* pthread_create fails and pmmpthread_routine_free takes STARTED back.
CreateFails(c, t) ==
  /\ Calling(c, t, "create", "none")
  /\ flags' = [flags EXCEPT ![t] = @ \ {"STARTED"}]
  /\ UNCHANGED <<ready, object, pc, dropping, synced, glock, thread_count>>

StartReturns(c, t) ==
  /\ Calling(c, t, "ready", "none")
  /\ ready[t]
  /\ UNCHANGED <<flags, ready, object, pc, dropping, synced, glock, thread_count>>

(* pmmpthread_join, called by PHP code or by pmmpthread_base_dtor.         *)

\* Mutant of NeedsJoin: the destructor does not join.
NeedsJoinNever(t) == FALSE

NeedsJoin(t) == "STARTED" \in flags[t] /\ "JOINED" \notin flags[t]

Join(c, t, drop) ==
  /\ IF drop THEN Destroys(c, t) /\ NeedsJoin(t) ELSE RunsPhp(c)
  /\ object[t] = "live"
  /\ "STARTED" \in flags[t] /\ "JOINED" \notin flags[t]
  /\ Add(t, "JOINED")
  /\ call' = [call EXCEPT ![c] = "await"] /\ on' = [on EXCEPT ![c] = t]
  /\ dropping' = [dropping EXCEPT ![c] = drop]
  /\ UNCHANGED <<ready, object, pc, synced, glock, thread_count>>

\* Copying the properties connects to the objects they refer to.
JoinSync(c, t) ==
  /\ Calling(c, t, "await", "exit")
  /\ "AWAIT_JOIN" \in flags[t]
  /\ GlobalsFree(c)
  /\ synced' = synced \cup {t}
  /\ UNCHANGED <<flags, ready, object, pc, dropping, glock, thread_count>>

\* Mutant of LetExit: the thread is not told.
KeepWaiting(t) == UNCHANGED flags

LetExit(t) == Add(t, "EXIT")

JoinExit(c, t) ==
  /\ Calling(c, t, "exit", "join")
  /\ LetExit(t)
  /\ UNCHANGED <<ready, object, pc, dropping, synced, glock, thread_count>>

\* pthread_join returns when the thread has ended.
Ended(t) == pc[t] = "gone"

JoinReturns(c, t) ==
  /\ Calling(c, t, "join", "none")
  /\ Ended(t)
  /\ dropping' = [dropping EXCEPT ![c] = FALSE]
  /\ IF dropping[c]
     THEN GlobalsFree(c) /\ object' = [object EXCEPT ![t] = "freed"]
     ELSE UNCHANGED object
  /\ UNCHANGED <<flags, ready, pc, synced, glock, thread_count>>

\* pmmpthread_base_free of an object with nothing to join.
Free(c, t) ==
  /\ Destroys(c, t) /\ object[t] = "live"
  /\ ~NeedsJoin(t)
  /\ GlobalsFree(c)
  /\ object' = [object EXCEPT ![t] = "freed"]
  /\ UNCHANGED <<flags, ready, pc, call, on, dropping, synced, glock, thread_count>>

-----------------------------------------------------------------------------
(* pmmpthread_routine.                                                     *)

\* pmmpthread_prepared_startup, under the globals lock throughout.
Startup(t) ==
  /\ Goto(t, "boot", "booting")
  /\ glock = NoOne
  /\ glock' = t
  /\ UNCHANGED <<flags, ready, object, call, on, dropping, synced, thread_count>>

SetReady(t) ==
  /\ Goto(t, "booting", "booted")
  /\ ready' = [ready EXCEPT ![t] = TRUE]
  /\ UNCHANGED <<flags, object, call, on, dropping, synced, glock, thread_count>>

CountUp == thread_count' = thread_count + 1

StartupEnds(t) ==
  /\ Goto(t, "booted", "connect")
  /\ CountUp
  /\ glock' = NoOne
  /\ UNCHANGED <<flags, ready, object, call, on, dropping, synced>>

\* pmmpthread_object_connect to its own thread object; run() follows.
Connect(t) ==
  /\ Goto(t, "connect", "run")
  /\ GlobalsFree(t)
  /\ UNCHANGED <<flags, ready, object, call, on, dropping, synced, glock, thread_count>>

\* run() and the shutdown functions are over.
RunEnds(t) ==
  /\ Goto(t, "run", "await")
  /\ call[t] = "none"
  /\ Add(t, "AWAIT_JOIN")
  /\ UNCHANGED <<ready, object, call, on, dropping, synced, glock, thread_count>>

\* Mutant of MayExit: the thread leaves as soon as its creator asks to join.
ExitOnJoin(t) == "JOINED" \in flags[t]

\* pmmpthread_monitor_wait_until(EXIT).
MayExit(t) == "EXIT" \in flags[t]

Exit(t) ==
  /\ Goto(t, "await", "release")
  /\ MayExit(t)
  /\ UNCHANGED <<flags, ready, object, call, on, dropping, synced, glock, thread_count>>

\* Mutant of Destroyed: the variables are forgotten, not destroyed.
Forgotten(S) == TRUE

\* The variables that held these threads are destroyed.
Destroyed(S) == \A u \in S : object[u] # "live"

\* The thread's connection to its own object goes, and with it what only its
\* variables and properties held.
Release(t) ==
  /\ Goto(t, "release", "shut")
  /\ call[t] = "none"
  /\ Destroyed(Children(t) \ Kept)
  /\ GlobalsFree(t)
  /\ UNCHANGED <<flags, ready, object, call, on, dropping, synced, glock, thread_count>>

\* pmmpthread_prepared_shutdown: php_request_shutdown under the globals lock,
\* which destroys the statics and with them the objects kept there.
Shutdown(t) ==
  /\ Goto(t, "shut", "dtors")
  /\ glock = NoOne
  /\ glock' = t
  /\ UNCHANGED <<flags, ready, object, call, on, dropping, synced, thread_count>>

\* Mutant of CountDown: the counter is not taken down.
CountStays == UNCHANGED thread_count

CountDown == thread_count' = thread_count - 1

\* Every object the thread created is destroyed by then.
ShutdownEnds(t) ==
  /\ Goto(t, "dtors", "gone")
  /\ call[t] = "none"
  /\ Destroyed(Children(t))
  /\ CountDown
  /\ glock' = NoOne
  /\ UNCHANGED <<flags, ready, object, call, on, dropping, synced>>

-----------------------------------------------------------------------------
CreatorStep(c, t) ==
  \/ Create(c, t) \/ CreateFails(c, t) \/ StartReturns(c, t)
  \/ JoinSync(c, t) \/ JoinExit(c, t) \/ JoinReturns(c, t)
  \/ Join(c, t, TRUE) \/ Free(c, t)

ThreadStep(t) ==
  \/ Startup(t) \/ SetReady(t) \/ StartupEnds(t) \/ Connect(t) \/ RunEnds(t)
  \/ Exit(t) \/ Release(t) \/ Shutdown(t) \/ ShutdownEnds(t)

Next ==
  \E t \in Threads :
    \/ ThreadStep(t)
    \/ CreatorStep(Creator[t], t)
    \/ New(Creator[t], t)
    \/ Start(Creator[t], t)
    \/ Join(Creator[t], t, FALSE)

\* Every context goes on with what it is in, run() ends, and variables are
\* destroyed in the end.  The globals lock, free again and again, is got in the
\* end by whoever waits for it.
Fairness ==
  \A t \in Threads : SF_vars(ThreadStep(t)) /\ SF_vars(CreatorStep(Creator[t], t))

Spec == Init /\ [][Next]_vars
FairSpec == Spec /\ Fairness

-----------------------------------------------------------------------------
(* Properties.                                                             *)

\* The types of the thread objects, the contexts and the globals.
TypeOK ==
  /\ flags \in [Threads -> SUBSET {"STARTED", "JOINED", "AWAIT_JOIN", "EXIT"}]
  /\ ready \in [Threads -> BOOLEAN]
  /\ object \in [Threads -> {"unborn", "live", "freed"}]
  /\ pc \in [Threads -> Places]
  /\ call \in [Contexts -> Calls]
  /\ on \in [Contexts -> Threads \cup {NoOne}]
  /\ dropping \in [Contexts -> BOOLEAN]
  /\ synced \in SUBSET Threads
  /\ glock \in Contexts \cup {NoOne}
  /\ thread_count \in Nat

\* "the total number of Threads and Workers which have been started but not yet
\* successfully joined/shutdown" (stubs/Thread.stub.php): getRunningCount reads
\* thread_count under the globals lock, and between the calls of start() and
\* join() it is exactly that number, although start() may return before the
\* counter is raised.
CountExact ==
  glock = NoOne /\ (\A c \in Contexts : call[c] = "none") =>
    thread_count = Cardinality({t \in Threads : "STARTED" \in flags[t] /\ "JOINED" \notin flags[t]})

\* A thread gives up its own objects only after its creator has copied the
\* properties that refer to them.
ExitAfterSync ==
  \A t \in Threads : pc[t] \in {"release", "shut", "dtors", "gone"} => t \in synced

\* The creator's object, which the thread uses until its end, is freed after it.
FreedAfterEnd ==
  \A t \in Threads : object[t] = "freed" => pc[t] \in {"none", "gone"}

\* No thread outlives its creator, whose interpreter context it copies from.
OutlivedByCreator ==
  \A t \in Threads : Creator[t] # Main /\ pc[t] \notin {"none", "gone"} =>
    pc[Creator[t]] # "gone"

\* A request shutdown, under the globals lock, joins a thread kept until then.
ShutdownJoins == \E t \in Kept : Creator[t] # Main /\ on[Creator[t]] = t /\ pc[Creator[t]] = "dtors"

\* "Causes the calling context to wait for the referenced Thread to finish
\* executing" (stubs/Thread.stub.php): every start() and every join() ends, also
\* the join of the destructor, unless a thread's php_request_shutdown reaches
\* the destructor of a thread that is not joined yet: it waits, with the globals
\* lock, for a thread that needs the lock to end.
CallsReturn ==
  \A c \in Contexts : call[c] # "none" ~> (call[c] = "none" \/ ShutdownJoins)
=============================================================================
