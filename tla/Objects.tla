------------------------------ MODULE Objects ------------------------------
(* Thread-safe objects and the threads' connections to them (src/object.c,     *)
(* src/globals.c, src/store.c).  What threads share is a counted cell; every   *)
(* thread has its own PHP object, a connection, for each cell it uses.  A      *)
(* property table names an object by the address of somebody's connection and  *)
(* holds no reference; a global registry says which addresses are objects.     *)
(* Two kinds of lock are held across steps: the monitor of a cell and the      *)
(* globals lock.  Tables have one property, and values are connections to      *)
(* cells without a table of their own; what is stored besides is in Store.     *)
EXTENDS FiniteSets, Naturals

CONSTANTS
  Threads,
  Addrs,      \* where a connection can be allocated
  Boxes,      \* cells with a property table
  Leaves,     \* cells that are stored in the tables
  None

Cells == Boxes \cup Leaves

ASSUME ObjectsAssumption ==
  /\ IsFiniteSet(Addrs)
  /\ None \notin Threads \cup Addrs \cup Cells
  /\ None \notin [own : Threads, ts : Cells] \cup [at : Addrs, live : BOOLEAN]
  /\ Boxes \cap Leaves = {}

VARIABLES
  conn,      \* the PHP object at an address: its thread and cell
  registry,  \* the addresses that count as objects
  making,    \* the address at which each thread is making an object, with no cell yet
  resolve,   \* each thread's connection to a cell
  refcount,  \* of each cell; 0 when it is not allocated
  props,     \* the property of each box
  writer,    \* history: the connection the property was written through
  cache,     \* the property in a connection's local table
  table,     \* the connections whose local table exists
  fresh,     \* the connections whose modification count is the cell's
  held,      \* the connections in the variables of each thread's program
  dead,      \* a connection of the thread that nothing refers to any more
  freeing,   \* the connection whose free holds the globals lock
  monitor,   \* the holder of each cell's monitor
  call       \* where a thread is inside an operation

locks == <<freeing, monitor>>
vars == <<conn, registry, making, resolve, refcount, props, writer, cache, table,
          fresh, held, dead, locks, call>>

Conns == {a \in Addrs : conn[a] # None}

\* A name in a table; live is history, and false once the object named is freed.
Named(a) == [at |-> a, live |-> TRUE]

Names(x, a) == props[x] # None /\ props[x].at = a

Call(at, c, v) == [at |-> at, c |-> c, v |-> v]

NoCall == Call("idle", None, None)

\* A thread that is in no call, makes no object, and has nothing left to free.
Idle(t) == call[t] = NoCall /\ making[t] = None /\ dead[t] = None

\* A thread at a stage of its call, when what the last stage let go of is freed.
At(t, stage) == call[t].at = stage /\ dead[t] = None

Goto(t, stage) == call' = [call EXCEPT ![t].at = stage]

Return(t) == call' = [call EXCEPT ![t] = NoCall]

\* The cell of the connection that a call works on.
Cell(t) == conn[call[t].c].ts

Free(x) == monitor[x] = None

\* Other holders of the globals lock give it up within the step that takes it.
GlobalsFree == freeing = None

-----------------------------------------------------------------------------
Init ==
  /\ conn = [a \in Addrs |-> None]
  /\ registry = {}
  /\ making = [t \in Threads |-> None]
  /\ resolve = [t \in Threads |-> [x \in Cells |-> None]]
  /\ refcount = [x \in Cells |-> 0]
  /\ props = [x \in Boxes |-> None]
  /\ writer = [x \in Boxes |-> None]
  /\ cache = [a \in Addrs |-> None]
  /\ table = {}
  /\ fresh = {}
  /\ held = [t \in Threads |-> {}]
  /\ dead = [t \in Threads |-> None]
  /\ freeing = None
  /\ monitor = [x \in Cells |-> None]
  /\ call = [t \in Threads |-> NoCall]

\* PHP's own reference counts: who is left without a reference when a thread's
\* variables and the local tables become h and c.
Unreferenced(a, h, c) ==
  /\ \A t \in Threads : a \notin h[t]
  /\ \A d \in Addrs : c[d] # a

\* Thread t lets go of a, if it is one.
LetGo(t, a) ==
  dead' = IF a # None /\ Unreferenced(a, held', cache')
          THEN [dead EXCEPT ![t] = a] ELSE dead

-----------------------------------------------------------------------------
(* Making and connecting.                                                      *)

\* Memory an allocator may return, whether or not a table still names the object that
\* was there before.
Unused == {a \in Addrs : conn[a] = None /\ a \notin registry}

\* The table of connections takes an entry only where it has none.
Resolved(t, x, a) ==
  IF resolve[t][x] = None THEN [resolve EXCEPT ![t][x] = a] ELSE resolve

\* The memory of a new object is put in the registry before there is an object in it.
Allocate(t) ==
  /\ Idle(t)
  /\ GlobalsFree
  /\ \E a \in Unused :
       /\ registry' = registry \cup {a}
       /\ making' = [making EXCEPT ![t] = a]
  /\ UNCHANGED <<conn, resolve, refcount, props, writer, cache, table, fresh, held, dead,
                 locks, call>>

\* It gets a new cell and an entry in the table of connections, without the globals lock.
\* A cell that is just being freed is not free memory yet.
Create(t, x) ==
  LET a == making[t] IN
  /\ a # None
  /\ refcount[x] = 0 /\ (freeing # None => conn[freeing].ts # x)
  /\ conn' = [conn EXCEPT ![a] = [own |-> t, ts |-> x]]
  /\ making' = [making EXCEPT ![t] = None]
  /\ resolve' = Resolved(t, x, a)
  /\ held' = [held EXCEPT ![t] = @ \cup {a}]
  /\ refcount' = [refcount EXCEPT ![x] = 1]
  /\ UNCHANGED <<registry, props, writer, cache, table, fresh, dead, locks, call>>

\* Mutant of Found: the table of connections is not asked.
FoundOwn(t, a) == IF conn[a].own = t THEN a ELSE None

\* The object t already has for what is at address a.
Found(t, a) == IF conn[a].own = t THEN a ELSE resolve[t][conn[a].ts]

\* Mutant of Connected: a new connection does not count.
ConnectedUncounted(t, a, b) ==
  IF Found(t, a) # None
  THEN b = Found(t, a) /\ UNCHANGED <<conn, registry, refcount, resolve>>
  ELSE /\ b \in Unused
       /\ conn' = [conn EXCEPT ![b] = [own |-> t, ts |-> conn[a].ts]]
       /\ registry' = registry \cup {b}
       /\ resolve' = Resolved(t, conn[a].ts, b)
       /\ UNCHANGED refcount

\* What is at a, for thread t: the object b.
Connected(t, a, b) ==
  IF Found(t, a) # None
  THEN b = Found(t, a) /\ UNCHANGED <<conn, registry, refcount, resolve>>
  ELSE /\ b \in Unused
       /\ conn' = [conn EXCEPT ![b] = [own |-> t, ts |-> conn[a].ts]]
       /\ registry' = registry \cup {b}
       /\ refcount' = [refcount EXCEPT ![conn[a].ts] = @ + 1]
       /\ resolve' = Resolved(t, conn[a].ts, b)

\* A thread object, a task or the shared globals is handed to thread t while somebody
\* else has it in a variable.  What is handed over is a box here.
Receive(t) ==
  /\ Idle(t)
  /\ GlobalsFree
  /\ \E u \in Threads \ {t} : \E a \in held[u], b \in Addrs :
       /\ conn[a].ts \in Boxes
       /\ Connected(t, a, b)
       /\ held' = [held EXCEPT ![t] = @ \cup {b}]
  /\ UNCHANGED <<making, props, writer, cache, table, fresh, dead, locks, call>>

-----------------------------------------------------------------------------
(* Synchronising a local table, under the cell's monitor.                      *)

\* A read looks at its local table only if it has one; a write always does.
Behind(t) ==
  /\ call[t].c \notin fresh
  /\ call[t].v # None \/ call[t].c \in table

\* There is no entry, or it is the very object that the table names.
SameEntry(t) == cache[call[t].c] = None \/ Names(Cell(t), cache[call[t].c])

\* The local table is up to date, or was brought up to date.
Settled(t) == At(t, "done") \/ (At(t, "sync") /\ (~Behind(t) \/ SameEntry(t)))

FreshNow(t) == IF Behind(t) THEN fresh \cup {call[t].c} ELSE fresh

\* The entry goes.
DropEntry(t) ==
  /\ fresh' = fresh \cup {call[t].c}
  /\ cache' = [cache EXCEPT ![call[t].c] = None]
  /\ UNCHANGED held
  /\ LetGo(t, cache[call[t].c])
  /\ Goto(t, "done")
  /\ UNCHANGED <<conn, registry, making, resolve, refcount, props, writer, table, locks>>

\* The table names nothing, or an address that is no object.
SyncGone(t) ==
  LET p == props[Cell(t)] IN
  /\ At(t, "sync") /\ ~Settled(t)
  /\ p = None \/ (p # None /\ GlobalsFree /\ p.at \notin registry)
  /\ DropEntry(t)

\* The address is an object; the lock that was taken to find out is given up again.
SyncValid(t) ==
  LET p == props[Cell(t)] IN
  /\ At(t, "sync") /\ ~Settled(t)
  /\ p # None
  /\ GlobalsFree /\ p.at \in registry
  /\ Goto(t, "compare")
  /\ UNCHANGED <<conn, registry, making, resolve, refcount, props, writer, cache, table, fresh,
                 held, dead, locks>>

\* Whether the object named belongs to the cell of the entry.  It may be freed by now, or
\* another object in the making, and then the memory says anything.
SyncKeeps(t) ==
  LET p == props[Cell(t)].at IN
  /\ At(t, "compare")
  /\ conn[p] # None => conn[p].ts = conn[cache[call[t].c]].ts
  /\ fresh' = fresh \cup {call[t].c}
  /\ Goto(t, "done")
  /\ UNCHANGED <<conn, registry, making, resolve, refcount, props, writer, cache, table,
                 held, dead, locks>>

SyncDiffers(t) ==
  LET p == props[Cell(t)].at IN
  /\ At(t, "compare")
  /\ conn[p] # None => conn[p].ts # conn[cache[call[t].c]].ts
  /\ DropEntry(t)

-----------------------------------------------------------------------------
(* Reading.                                                                    *)

Read(t, c) ==
  /\ Idle(t)
  /\ c \in held[t] /\ conn[c].ts \in Boxes
  /\ Free(conn[c].ts)
  /\ monitor' = [monitor EXCEPT ![conn[c].ts] = t]
  /\ call' = [call EXCEPT ![t] = Call("sync", c, None)]
  /\ UNCHANGED <<conn, registry, making, resolve, refcount, props, writer, cache, table, fresh,
                 held, dead, freeing>>

Unlock(t) ==
  /\ monitor' = [x \in Cells |-> IF monitor[x] = t THEN None ELSE monitor[x]]
  /\ UNCHANGED freeing

\* The local table has it.
ReadHit(t) ==
  /\ Settled(t) /\ call[t].v = None
  /\ cache[call[t].c] # None
  /\ fresh' = FreshNow(t)
  /\ held' = [held EXCEPT ![t] = @ \cup {cache[call[t].c]}]
  /\ Unlock(t)
  /\ Return(t)
  /\ UNCHANGED <<conn, registry, making, resolve, refcount, props, writer, cache, table, dead>>

\* Mutant of ReadNone: it returns with the monitor.
ReadNoneLocked(t) ==
  /\ Settled(t) /\ call[t].v = None
  /\ cache[call[t].c] = None
  /\ \/ props[Cell(t)] = None
     \/ props[Cell(t)] # None /\ GlobalsFree /\ props[Cell(t)].at \notin registry
  /\ fresh' = FreshNow(t)
  /\ Return(t)
  /\ UNCHANGED <<conn, registry, making, resolve, refcount, props, writer, cache, table,
                 held, dead, locks>>

\* Nothing is stored, or what is named is no object any more: a ConnectionException.
ReadNone(t) ==
  /\ Settled(t) /\ call[t].v = None
  /\ cache[call[t].c] = None
  /\ \/ props[Cell(t)] = None
     \/ props[Cell(t)] # None /\ GlobalsFree /\ props[Cell(t)].at \notin registry
  /\ fresh' = FreshNow(t)
  /\ Unlock(t)
  /\ Return(t)
  /\ UNCHANGED <<conn, registry, making, resolve, refcount, props, writer, cache, table,
                 held, dead>>

\* Connects under both locks, and caches what it got.  The address may be that of another
\* object by now; one that is still in the making has no class to connect to, and what
\* happens then is left open: the thread takes no further step.
ReadMiss(t) ==
  LET c == call[t].c
      p == props[Cell(t)]
  IN
  /\ Settled(t) /\ call[t].v = None
  /\ cache[c] = None
  /\ p # None
  /\ GlobalsFree /\ p.at \in registry
  /\ conn[p.at] # None
  /\ \E b \in Addrs :
       /\ Connected(t, p.at, b)
       /\ held' = [held EXCEPT ![t] = @ \cup {b}]
       /\ cache' = [cache EXCEPT ![c] = b]
  /\ table' = table \cup {c}
  /\ fresh' = FreshNow(t)
  /\ Unlock(t)
  /\ Return(t)
  /\ UNCHANGED <<making, props, writer, dead>>

-----------------------------------------------------------------------------
(* Writing, deleting, merging.                                                 *)

\* The connections that are up to date when connection c has replaced or removed the
\* property of box x: others fall behind, and c stays what it was.
FreshAfter(c, x) ==
  IF props[x] = None THEN fresh
  ELSE {d \in fresh : d = c \/ conn[d].ts # x}

Write(t, c, v) ==
  LET x == conn[c].ts IN
  /\ Idle(t)
  /\ c \in held[t] /\ x \in Boxes
  /\ v \in held[t] /\ conn[v].ts \in Leaves
  /\ Free(x)
  /\ monitor' = [monitor EXCEPT ![x] = t]
  /\ props' = [props EXCEPT ![x] = Named(v)]
  /\ writer' = [writer EXCEPT ![x] = c]
  /\ fresh' = FreshAfter(c, x)
  /\ call' = [call EXCEPT ![t] = Call("sync", c, v)]
  /\ UNCHANGED <<conn, registry, making, resolve, refcount, cache, table, held, dead, freeing>>

\* Mutant of Written: the value is not cached.
WrittenUncached(t) ==
  /\ Settled(t) /\ call[t].v # None
  /\ Unlock(t)
  /\ Return(t)
  /\ UNCHANGED <<conn, registry, making, resolve, refcount, props, writer, cache, table, fresh,
                 held, dead>>

\* Unlocks, and caches the value: this reference keeps the name in the table good.
Written(t) ==
  LET c == call[t].c IN
  /\ Settled(t) /\ call[t].v # None
  /\ cache' = [cache EXCEPT ![c] = call[t].v]
  /\ table' = table \cup {c}
  /\ fresh' = FreshNow(t)
  /\ UNCHANGED held
  /\ LetGo(t, cache[c])
  /\ Unlock(t)
  /\ Return(t)
  /\ UNCHANGED <<conn, registry, making, resolve, refcount, props, writer>>

Delete(t, c) ==
  LET x == conn[c].ts IN
  /\ Idle(t)
  /\ c \in held[t] /\ x \in Boxes
  /\ Free(x)
  /\ props[x] # None
  /\ props' = [props EXCEPT ![x] = None]
  /\ writer' = [writer EXCEPT ![x] = None]
  /\ fresh' = FreshAfter(c, x)
  /\ cache' = [cache EXCEPT ![c] = None]
  /\ UNCHANGED held
  /\ LetGo(t, cache[c])
  /\ UNCHANGED <<conn, registry, making, resolve, refcount, table, locks, call>>

\* A merge locks the destination, then the source.
Merge(t, c, d) ==
  /\ Idle(t)
  /\ {c, d} \subseteq held[t] /\ {conn[c].ts, conn[d].ts} \subseteq Boxes
  /\ Free(conn[c].ts)
  /\ monitor' = [monitor EXCEPT ![conn[c].ts] = t]
  /\ call' = [call EXCEPT ![t] = Call("merge", c, d)]
  /\ UNCHANGED <<conn, registry, making, resolve, refcount, props, writer, cache, table, fresh,
                 held, dead, freeing>>

\* The source's name is copied; the destination's local table loses its entry.
MergeCopies(t, overwrite) ==
  LET c == call[t].c
      x == Cell(t)
      y == conn[call[t].v].ts
      copies == props[y] # None /\ (overwrite \/ props[x] = None)
  IN
  /\ At(t, "merge")
  /\ monitor[y] \in {None, t}
  /\ monitor' = [monitor EXCEPT ![y] = t]
  /\ UNCHANGED held
  /\ IF copies
     THEN /\ props' = [props EXCEPT ![x] = props[y]]
          /\ writer' = [writer EXCEPT ![x] = None]
          /\ fresh' = FreshAfter(c, x)
          /\ cache' = [cache EXCEPT ![c] = None]
          /\ LetGo(t, cache[c])
     ELSE UNCHANGED <<props, writer, fresh, cache, dead>>
  /\ Goto(t, "merged")
  /\ UNCHANGED <<conn, registry, making, resolve, refcount, table, freeing>>

Merged(t) ==
  /\ At(t, "merged")
  /\ Unlock(t)
  /\ Return(t)
  /\ UNCHANGED <<conn, registry, making, resolve, refcount, props, writer, cache, table, fresh,
                 held, dead>>

-----------------------------------------------------------------------------
(* Freeing.                                                                    *)

\* A variable of the program goes out of scope.
Release(t, a) ==
  /\ Idle(t)
  /\ a \in held[t]
  /\ held' = [held EXCEPT ![t] = @ \ {a}]
  /\ UNCHANGED cache
  /\ LetGo(t, a)
  /\ UNCHANGED <<conn, registry, making, resolve, refcount, props, writer, table, fresh,
                 locks, call>>

\* The connection leaves its thread's table and no longer counts.
FreeLock(t) ==
  LET a == dead[t]
      x == conn[a].ts
  IN
  /\ a # None /\ GlobalsFree
  /\ freeing' = a
  /\ resolve' = IF resolve[t][x] = a THEN [resolve EXCEPT ![t][x] = None] ELSE resolve
  /\ refcount' = [refcount EXCEPT ![x] = @ - 1]
  /\ UNCHANGED <<conn, registry, making, props, writer, cache, table, fresh, held, dead,
                 monitor, call>>

\* The tables when connection a is gone, and with it the cell of a if it was the last.
TablesWithout(a) ==
  [x \in Boxes |->
     IF x = conn[a].ts /\ refcount[x] = 0 THEN None
     ELSE IF Names(x, a) THEN [props[x] EXCEPT !.live = FALSE] ELSE props[x]]

Unregistered(a) == registry \ {a}

\* With the cell's monitor as well: the cell is freed or the strings of this thread are
\* made persistent.  The address is taken out of the registry, the lock is given up, and
\* the local table and the object go.
FreeRest(t) ==
  LET a == freeing
      x == conn[a].ts
  IN
  /\ a # None /\ a = dead[t]
  /\ monitor[x] \in {None, t}
  /\ props' = TablesWithout(a)
  /\ writer' = [y \in Boxes |-> IF writer[y] = a \/ props'[y] = None THEN None ELSE writer[y]]
  /\ registry' = Unregistered(a)
  /\ freeing' = None
  /\ conn' = [conn EXCEPT ![a] = None]
  /\ cache' = [cache EXCEPT ![a] = None]
  /\ table' = table \ {a}
  /\ fresh' = fresh \ {a}
  /\ dead' = [dead EXCEPT ![t] = IF cache[a] # None /\ Unreferenced(cache[a], held, cache')
                                 THEN cache[a] ELSE None]
  /\ UNCHANGED <<making, resolve, refcount, held, monitor, call>>

-----------------------------------------------------------------------------
\* What a thread does with the objects there are.
Use(t) ==
  \/ Receive(t)
  \/ SyncGone(t) \/ SyncValid(t) \/ SyncKeeps(t) \/ SyncDiffers(t)
  \/ ReadHit(t) \/ ReadNone(t) \/ ReadMiss(t)
  \/ Written(t) \/ Merged(t)
  \/ \E c \in Addrs : Read(t, c) \/ Delete(t, c) \/ Release(t, c)
  \/ \E c, v \in Addrs : Write(t, c, v) \/ Merge(t, c, v)
  \/ \E overwrite \in BOOLEAN : MergeCopies(t, overwrite)
  \/ FreeLock(t) \/ FreeRest(t)

Step(t) ==
  \/ Allocate(t)
  \/ \E x \in Cells : Create(t, x)
  \/ Use(t)

Next == \E t \in Threads : Step(t)

Spec == Init /\ [][Next]_vars

-----------------------------------------------------------------------------
\* The types of the registry, the connections, the tables and the locks.
TypeOK ==
  /\ conn \in [Addrs -> {None} \cup [own : Threads, ts : Cells]]
  /\ registry \subseteq Addrs
  /\ making \in [Threads -> Addrs \cup {None}]
  /\ resolve \in [Threads -> [Cells -> Addrs \cup {None}]]
  /\ refcount \in [Cells -> Nat]
  /\ props \in [Boxes -> {None} \cup [at : Addrs, live : BOOLEAN]]
  /\ writer \in [Boxes -> Addrs \cup {None}]
  /\ cache \in [Addrs -> Addrs \cup {None}]
  /\ table \subseteq Addrs
  /\ fresh \subseteq Addrs
  /\ held \in [Threads -> SUBSET Addrs]
  /\ dead \in [Threads -> Addrs \cup {None}]
  /\ freeing \in Addrs \cup {None}
  /\ monitor \in [Cells -> Threads \cup {None}]
  /\ call \in [Threads -> [at : {"idle", "sync", "compare", "done", "merge", "merged"},
                           c : Addrs \cup {None}, v : Addrs \cup {None}]]

\* The connections that count for a cell.
Counted(x) == {a \in Conns : conn[a].ts = x /\ a # freeing}

\* The count of a cell is the number of connections to it, whatever threads connect,
\* reuse and free at the same time: the cell is freed by the last one and not before
\* (++refcount in connect, --refcount in pmmpthread_base_free).
RefcountExact == \A x \in Cells : refcount[x] = Cardinality(Counted(x))

\* A thread never has two objects for one cell, and its table of connections finds the one
\* it has (reuse in pmmpthread_object_connect; removal in pmmpthread_base_free).
OneConnection ==
  \A t \in Threads, x \in Cells :
    {a \in Counted(x) : conn[a].own = t} = {resolve[t][x]} \ {None}

\* What a table names is the object that was stored, for as long as the connection it was
\* written through exists and nothing was merged over it: the writer's local table keeps
\* the object alive, so that its address cannot become another's in the meantime.
StoredReachable ==
  \A x \in Boxes : props[x] # None /\ writer[x] # None => props[x].live

\* A cell is freed, and its monitor destroyed, only when no thread is in an operation that
\* holds the monitor (pmmpthread_ts_object_free).
DestroyedUnlocked == \A x \in Cells : refcount[x] = 0 => monitor[x] = None

\* Thread t is about to take the globals lock.
NeedsGlobals(t) ==
  \/ dead[t] # None /\ dead[t] # freeing
  \/ At(t, "sync") /\ ~Settled(t) /\ props[Cell(t)] # None
  \/ Settled(t) /\ call[t].v = None /\ cache[call[t].c] = None /\ props[Cell(t)] # None

\* The thread has the globals lock and needs a monitor.
Persists(t) == freeing # None /\ freeing = dead[t]

\* Thread t needs a lock that thread u has.
WaitsFor(t, u) ==
  \/ NeedsGlobals(t) /\ freeing # None /\ conn[freeing].own = u
  \/ Persists(t) /\ monitor[conn[freeing].ts] = u
  \/ At(t, "merge") /\ monitor[conn[call[t].v].ts] = u

\* The threads of S wait for each other, for ever.
Circular(S) == S # {} /\ \A t \in S : \E u \in S \ {t} : WaitsFor(t, u)

=============================================================================
