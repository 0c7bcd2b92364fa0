--------------------------- MODULE ObjectsProofs ---------------------------
(* Proofs about Objects: for any threads, addresses and cells, counts and      *)
(* connections are exact, no monitor is destroyed while it is held, and a      *)
(* stored object lives as long as the connection it was written through.       *)
(* First the inductive invariant and what the steps do to the objects; then    *)
(* every step preserves what the invariant says of references, monitors,       *)
(* writers, types and counts; then the theorems.                               *)
EXTENDS Objects, FiniteSetTheorems, TLAPS

\* The registry knows all objects, those in the making included, and two threads do not
\* make objects at one address.
Registered ==
  /\ \A a \in Addrs : conn[a] # None => a \in registry
  /\ \A t \in Threads : making[t] # None => making[t] \in registry /\ conn[making[t]] = None
  /\ \A t, u \in Threads : making[t] # None /\ making[t] = making[u] => t = u

\* A thread that makes an object does nothing else.
MakingIdle ==
  \A t \in Threads : making[t] # None => call[t] = NoCall /\ dead[t] = None

Counts(a, x) == conn[a] # None /\ conn[a].ts = x /\ a # freeing

\* OneConnection, for one address at a time.
ResolvedOne ==
  \A t \in Threads, x \in Cells, a \in Addrs :
    (Counts(a, x) /\ conn[a].own = t) <=> resolve[t][x] = a

\* The count of a cell is zero when it has no connection, and only then.
ZeroMeansNone == \A x \in Cells : refcount[x] = 0 <=> \A a \in Addrs : ~Counts(a, x)

\* Objects belong to the thread that refers to them.
Owned(t, a) == a \in Addrs /\ conn[a] # None /\ conn[a].own = t

HeldOwn == \A t \in Threads : \A a \in held[t] : Owned(t, a)

CacheOwn ==
  \A d \in Addrs : cache[d] # None => conn[d] # None /\ Owned(conn[d].own, cache[d])

\* Nothing refers to what is about to be freed.
DeadUnreferenced ==
  \A t \in Threads : dead[t] # None =>
    Owned(t, dead[t]) /\ Unreferenced(dead[t], held, cache)

FreeingDead == freeing # None => Owned(conn[freeing].own, freeing) /\ dead[conn[freeing].own] = freeing

\* The objects of a call are in variables of the program.
CallHeld ==
  \A t \in Threads :
    /\ call[t].at = "idle" => call[t] = NoCall
    /\ call[t].at # "idle" => call[t].c \in held[t] /\ conn[call[t].c].ts \in Boxes
    /\ call[t].v # None => call[t].v \in held[t]
    /\ call[t].at \in {"merge", "merged"} => call[t].v # None /\ conn[call[t].v].ts \in Boxes

\* A thread holds the monitors of the objects of its call only.
MonitorHeld ==
  \A x \in Cells : monitor[x] # None =>
    /\ call[monitor[x]].at # "idle"
    /\ \/ conn[call[monitor[x]].c].ts = x
       \/ call[monitor[x]].v # None /\ conn[call[monitor[x]].v].ts = x

\* Thread t is writing through connection c.
Writing(t, c) == call[t].at \in {"sync", "compare", "done"} /\ call[t].c = c /\ call[t].v # None

\* The writer of a stored object caches it, or is about to.
WriterKeeps ==
  \A x \in Boxes : props[x] # None /\ writer[x] # None =>
    /\ conn[writer[x]] # None /\ conn[writer[x]].ts = x
    /\ IF Writing(conn[writer[x]].own, writer[x])
       THEN call[conn[writer[x]].own].v = props[x].at
       ELSE cache[writer[x]] = props[x].at
    /\ props[x].live

Refs == HeldOwn /\ CacheOwn /\ DeadUnreferenced /\ FreeingDead /\ CallHeld

Numbers == ResolvedOne /\ RefcountExact /\ ZeroMeansNone

IInv == TypeOK /\ Registered /\ MakingIdle /\ Numbers /\ Refs /\ MonitorHeld /\ WriterKeeps

-----------------------------------------------------------------------------
(* Objects and connections.                                                    *)

\* A call works on an object of its own thread, with a property table.
LEMMA Active ==
  ASSUME IInv, NEW t \in Threads, call[t].at # "idle"
  PROVE  /\ call[t].c \in held[t] /\ call[t].c \in Addrs
         /\ conn[call[t].c] # None /\ conn[call[t].c].own = t
         /\ Cell(t) \in Boxes
         /\ call[t].v # None => call[t].v \in Addrs /\ conn[call[t].v] # None
                                /\ conn[call[t].v].own = t
BY DEF IInv, Refs, CallHeld, HeldOwn, Owned, Cell

\* A new connection b of thread t to cell x.
Adds(t, x, b) ==
  /\ b \in Addrs /\ conn[b] = None
  /\ resolve[t][x] = None
  /\ conn' = [conn EXCEPT ![b] = [own |-> t, ts |-> x]]
  /\ resolve' = [resolve EXCEPT ![t][x] = b]
  /\ refcount' = [refcount EXCEPT ![x] = @ + 1]

\* Connecting finds the one object of the thread, or adds it.
LEMMA ConnectedAdds ==
  ASSUME IInv, GlobalsFree, NEW t \in Threads, NEW a \in Addrs, conn[a] # None, NEW b \in Addrs,
         Connected(t, a, b)
  PROVE  \/ Owned(t, b) /\ b # freeing /\ conn[b].ts = conn[a].ts
            /\ UNCHANGED <<conn, refcount, resolve>>
         \/ Adds(t, conn[a].ts, b)
<1>1. conn[a].own \in Threads /\ conn[a].ts \in Cells
  BY Zenon DEF IInv, TypeOK
<1>2. CASE Found(t, a) # None
  <2>1. b = Found(t, a) /\ UNCHANGED <<conn, refcount, resolve>>
    BY <1>2, Zenon DEF Connected
  <2>2. CASE conn[a].own = t
    BY <2>1, <2>2, ObjectsAssumption, Zenon DEF Found, Owned, GlobalsFree
  <2>3. CASE conn[a].own # t
    <3>1. resolve[t][conn[a].ts] = b
      BY <2>1, <2>3, Zenon DEF Found
    <3> QED
      BY <2>1, <3>1, <1>1 DEF IInv, Numbers, ResolvedOne, Counts, Owned
  <2> QED
    BY <2>2, <2>3, Zenon
<1>3. CASE Found(t, a) = None
  <2>1. resolve[t][conn[a].ts] = None
    BY <1>3, ObjectsAssumption, Zenon DEF Found
  <2> QED
    BY <1>3, <2>1, Zenon DEF Connected, Adds, Unused, Resolved
<1> QED
  BY <1>2, <1>3, Zenon

\* A cell that is not allocated has no connection.
LEMMA CreateAdds ==
  ASSUME IInv, NEW t \in Threads, NEW x \in Cells, Create(t, x)
  PROVE  \E b \in Addrs : Adds(t, x, b) /\ held' = [held EXCEPT ![t] = @ \cup {b}]
<1>1. \A a \in Addrs : ~Counts(a, x)
  BY Zenon DEF Create, IInv, Numbers, ZeroMeansNone
<1>2. resolve[t][x] = None
  <2>1. resolve[t][x] \in Addrs \cup {None}
    BY DEF IInv, TypeOK
  <2>2. ASSUME resolve[t][x] \in Addrs PROVE FALSE
    BY <1>1, <2>2, Zenon DEF IInv, Numbers, ResolvedOne
  <2> QED
    BY <2>1, <2>2, Zenon
<1>3. /\ conn' = [conn EXCEPT ![making[t]] = [own |-> t, ts |-> x]]
      /\ resolve' = Resolved(t, x, making[t])
      /\ held' = [held EXCEPT ![t] = @ \cup {making[t]}]
  BY Zenon DEF Create
<1>4. refcount' = [refcount EXCEPT ![x] = @ + 1]
  BY DEF Create, IInv, TypeOK
<1>5. making[t] \in Addrs /\ conn[making[t]] = None
  BY Zenon DEF Create, IInv, TypeOK, Registered
<1>6. Adds(t, x, making[t])
  BY <1>2, <1>3, <1>4, <1>5, Zenon DEF Adds, Resolved
<1> QED
  BY <1>3, <1>5, <1>6, Zenon

\* A step that makes and frees no object.
Quiet == UNCHANGED <<conn, resolve, refcount, freeing>>

\* What a step of thread t does to the objects.
LEMMA Effects ==
  ASSUME IInv, NEW t \in Threads, Step(t)
  PROVE  \/ Quiet
         \/ \E x \in Cells, b \in Addrs : Adds(t, x, b) /\ freeing' = freeing
         \/ FreeLock(t)
         \/ FreeRest(t)
<1>1. CASE \E x \in Cells : Create(t, x)
  <2>1. PICK x \in Cells : Create(t, x)
    BY <1>1, Zenon
  <2>2. freeing' = freeing
    BY <2>1, Zenon DEF Create, locks
  <2> QED
    BY <2>1, <2>2, CreateAdds, Zenon
<1>2. CASE Receive(t)
  <2>1. PICK u \in Threads \ {t} : \E a \in held[u], b \in Addrs : Connected(t, a, b)
    BY <1>2, Zenon DEF Receive
  <2>2. PICK a \in held[u], b \in Addrs : Connected(t, a, b)
    BY <2>1, Zenon
  <2>3. a \in Addrs /\ conn[a] # None /\ conn[a].ts \in Cells
    BY DEF IInv, Refs, HeldOwn, Owned, TypeOK
  <2>4. GlobalsFree /\ freeing' = freeing
    BY <1>2, Zenon DEF Receive, locks
  <2>5. \/ UNCHANGED <<conn, refcount, resolve>>
        \/ Adds(t, conn[a].ts, b)
    BY <2>2, <2>3, <2>4, ConnectedAdds, Zenon
  <2> QED
    BY <2>3, <2>4, <2>5, Zenon DEF Quiet
<1>3. CASE ReadMiss(t)
  <2> DEFINE a == props[Cell(t)].at
  <2>1. call[t].at # "idle" /\ props[Cell(t)] # None /\ conn[a] # None
    BY <1>3, Zenon DEF ReadMiss, Settled, At
  <2>2. a \in Addrs /\ conn[a].ts \in Cells
    BY <2>1, Active DEF IInv, TypeOK
  <2>3. GlobalsFree /\ freeing' = freeing
    BY <1>3, Zenon DEF ReadMiss, Unlock
  <2>4. PICK b \in Addrs : Connected(t, a, b)
    BY <1>3, Zenon DEF ReadMiss
  <2>5. \/ UNCHANGED <<conn, refcount, resolve>>
        \/ Adds(t, conn[a].ts, b)
    BY <2>1, <2>2, <2>3, <2>4, ConnectedAdds, Zenon
  <2> QED
    BY <2>2, <2>3, <2>5, Zenon DEF Quiet
<1>4. CASE SyncGone(t) \/ SyncValid(t) \/ SyncKeeps(t) \/ SyncDiffers(t)
  BY <1>4, Zenon DEF SyncGone, SyncValid, SyncKeeps, SyncDiffers, DropEntry, Quiet, locks
<1>5. CASE ReadHit(t) \/ ReadNone(t) \/ Written(t) \/ Merged(t)
  BY <1>5, Zenon DEF ReadHit, ReadNone, Written, Merged, Unlock, Quiet, locks
<1>6. CASE \E c \in Addrs : Read(t, c) \/ Delete(t, c) \/ Release(t, c)
  BY <1>6, Zenon DEF Read, Delete, Release, Quiet, locks
<1>7. CASE \E c, v \in Addrs : Write(t, c, v) \/ Merge(t, c, v)
  BY <1>7, Zenon DEF Write, Merge, Quiet, locks
<1>8. CASE \E overwrite \in BOOLEAN : MergeCopies(t, overwrite)
  BY <1>8, Zenon DEF MergeCopies, Quiet, locks
<1>9. CASE FreeLock(t) \/ FreeRest(t)
  BY <1>9, Zenon
<1>10. CASE Allocate(t)
  BY <1>10, Zenon DEF Allocate, Quiet, locks
<1> QED
  BY <1>1, <1>2, <1>3, <1>4, <1>5, <1>6, <1>7, <1>8, <1>9, <1>10, Zenon DEF Step, Use

\* The connection that is freed counts until the globals lock is taken.
LEMMA DeadCounts ==
  ASSUME IInv, GlobalsFree, NEW t \in Threads, dead[t] # None
  PROVE  /\ dead[t] \in Addrs /\ conn[dead[t]] # None /\ conn[dead[t]].own = t
         /\ conn[dead[t]].ts \in Cells
         /\ dead[t] \in Counted(conn[dead[t]].ts)
         /\ resolve[t][conn[dead[t]].ts] = dead[t]
<1>1. /\ dead[t] \in Addrs /\ conn[dead[t]] # None /\ conn[dead[t]].own = t
      /\ conn[dead[t]].ts \in Cells
  BY Zenon DEF IInv, TypeOK, Refs, DeadUnreferenced, Owned
<1>2. Counts(dead[t], conn[dead[t]].ts)
  BY <1>1, ObjectsAssumption, Zenon DEF Counts, GlobalsFree
<1> QED
  BY <1>1, <1>2 DEF IInv, Numbers, ResolvedOne, Counted, Counts, Conns

-----------------------------------------------------------------------------
(* References.                                                                 *)

CallHeldOf(t) ==
  /\ call[t].at = "idle" => call[t] = NoCall
  /\ call[t].at # "idle" => call[t].c \in held[t] /\ conn[call[t].c].ts \in Boxes
  /\ call[t].v # None => call[t].v \in held[t]
  /\ call[t].at \in {"merge", "merged"} => call[t].v # None /\ conn[call[t].v].ts \in Boxes

OwnedNext(t, a) == a \in Addrs /\ conn'[a] # None /\ conn'[a].own = t

\* Thread t changes what it refers to, and frees nothing.
Local(t) ==
  /\ dead[t] = None
  /\ \A a \in Addrs : conn[a] # None => conn'[a] = conn[a]
  /\ freeing' = freeing
  /\ \A u \in Threads \ {t} : held'[u] = held[u] /\ dead'[u] = dead[u] /\ call'[u] = call[u]
  /\ \A a \in held'[t] : OwnedNext(t, a)
  /\ \A d \in Addrs : \/ cache'[d] = cache[d]
                      \/ Owned(t, d) /\ (cache'[d] = None \/ OwnedNext(t, cache'[d]))
  /\ dead'[t] # None => OwnedNext(t, dead'[t]) /\ Unreferenced(dead'[t], held', cache')
  /\ CallHeldOf(t)'

LEMMA LocalRefs == ASSUME IInv, NEW t \in Threads, Local(t) PROVE Refs'
<1>1. HeldOwn'
  BY DEF IInv, Refs, HeldOwn, Owned, OwnedNext, Local
<1>2. CacheOwn'
  BY DEF IInv, Refs, CacheOwn, Owned, OwnedNext, Local
<1>3. DeadUnreferenced'
  <2> SUFFICES ASSUME NEW u \in Threads, dead'[u] # None
               PROVE  OwnedNext(u, dead'[u]) /\ Unreferenced(dead'[u], held', cache')
    BY Zenon DEF DeadUnreferenced, Unreferenced, Owned, OwnedNext
  <2>1. CASE u = t
    BY <2>1, Zenon DEF Local
  <2>2. CASE u # t
    <3>1. dead'[u] = dead[u] /\ Owned(u, dead[u]) /\ Unreferenced(dead[u], held, cache)
      BY <2>2, Zenon DEF Local, IInv, Refs, DeadUnreferenced
    <3>2. OwnedNext(u, dead'[u])
      BY <3>1, Zenon DEF Local, Owned, OwnedNext
    <3>3. \A w \in Threads : dead'[u] \notin held'[w]
      <4>1. dead'[u] \notin held'[t]
        BY <2>2, <3>2, Zenon DEF Local, Owned, OwnedNext
      <4> QED
        BY <3>1, <4>1, Zenon DEF Local, Unreferenced
    <3>4. \A d \in Addrs : cache'[d] # dead'[u]
      BY <2>2, <3>1, <3>2 DEF Local, Owned, OwnedNext, Unreferenced
    <3> QED
      BY <3>2, <3>3, <3>4, Zenon DEF Unreferenced
  <2> QED
    BY <2>1, <2>2, Zenon
<1>4. FreeingDead'
  BY DEF IInv, TypeOK, Refs, FreeingDead, Owned, OwnedNext, Local
<1>5. CallHeld'
  <2> SUFFICES ASSUME NEW u \in Threads PROVE CallHeldOf(u)'
    BY Zenon DEF CallHeld, CallHeldOf
  <2>1. CASE u = t
    BY <2>1, Zenon DEF Local
  <2>2. CASE u # t
    <3>1. CallHeldOf(u)
      BY Zenon DEF IInv, Refs, CallHeld, CallHeldOf
    <3>2. \A a \in held[u] : a \in Addrs /\ conn'[a] = conn[a]
      BY Zenon DEF IInv, Refs, HeldOwn, Owned, OwnedNext, Local
    <3> QED
      BY <2>2, <3>1, <3>2 DEF CallHeldOf, Local
  <2> QED
    BY <2>1, <2>2, Zenon
<1> QED
  BY <1>1, <1>2, <1>3, <1>4, <1>5, Zenon DEF Refs

\* What a thread lets go of is an object of its own that nothing else refers to.
LEMMA LetGoLocal ==
  ASSUME IInv, NEW t \in Threads, NEW a, dead[t] = None, LetGo(t, a),
         a # None => Owned(t, a), UNCHANGED conn
  PROVE  /\ \A u \in Threads \ {t} : dead'[u] = dead[u]
         /\ dead' \in [Threads -> Addrs \cup {None}]
         /\ dead'[t] # None => OwnedNext(t, dead'[t]) /\ Unreferenced(dead'[t], held', cache')
BY Zenon DEF LetGo, IInv, TypeOK, Owned, OwnedNext

\* A thread that is in no call stays so.
LEMMA IdleCall == ASSUME NEW t, call'[t] = NoCall PROVE CallHeldOf(t)'
BY DEF CallHeldOf, NoCall, Call

\* A call that goes on keeps its objects.
LEMMA GotoCall ==
  ASSUME IInv, NEW t \in Threads, call[t].at # "idle",
         NEW s \in {"sync", "compare", "done", "merged"}, s = "merged" => call[t].at = "merge",
         Goto(t, s), UNCHANGED <<conn, held>>
  PROVE  /\ CallHeldOf(t)' /\ \A u \in Threads \ {t} : call'[u] = call[u]
         /\ call'[t].at = s /\ call'[t].c = call[t].c /\ call'[t].v = call[t].v
<1>1. /\ \A u \in Threads \ {t} : call'[u] = call[u]
      /\ call'[t].at = s /\ call'[t].c = call[t].c /\ call'[t].v = call[t].v
  BY Zenon DEF Goto, IInv, TypeOK
<1>2. CallHeldOf(t)
  BY Zenon DEF IInv, Refs, CallHeld, CallHeldOf
<1> QED
  BY <1>1, <1>2, Zenon DEF CallHeldOf

\* Connecting keeps the objects there are, and yields one of the thread.
LEMMA ConnectedLocal ==
  ASSUME IInv, GlobalsFree, NEW t \in Threads, NEW a \in Addrs, conn[a] # None, NEW b \in Addrs,
         Connected(t, a, b)
  PROVE  OwnedNext(t, b) /\ \A d \in Addrs : conn[d] # None => conn'[d] = conn[d]
<1>1. CASE Owned(t, b) /\ UNCHANGED conn
  BY <1>1, Zenon DEF Owned, OwnedNext
<1>2. CASE Adds(t, conn[a].ts, b)
  <2>1. [own |-> t, ts |-> conn[a].ts] # None
    BY ObjectsAssumption DEF IInv, TypeOK
  <2> QED
    BY <1>2, <2>1, Zenon DEF Adds, OwnedNext, IInv, TypeOK
<1> QED
  BY <1>1, <1>2, ConnectedAdds, Zenon

LEMMA MakeLocal ==
  ASSUME IInv, NEW t \in Threads, (\E x \in Cells : Create(t, x)) \/ Receive(t)
  PROVE  Local(t)
<1>1. call[t] = NoCall /\ dead[t] = None /\ UNCHANGED <<cache, dead, freeing, call>>
  BY Zenon DEF Create, Receive, Idle, locks, IInv, MakingIdle
<1>2. PICK b \in Addrs : /\ held' = [held EXCEPT ![t] = @ \cup {b}]
                         /\ OwnedNext(t, b)
                         /\ \A d \in Addrs : conn[d] # None => conn'[d] = conn[d]
  <2>1. ASSUME NEW x \in Cells, Create(t, x)
        PROVE  \E b \in Addrs : /\ held' = [held EXCEPT ![t] = @ \cup {b}]
                                /\ OwnedNext(t, b)
                                /\ \A d \in Addrs : conn[d] # None => conn'[d] = conn[d]
    <3>1. PICK b \in Addrs : Adds(t, x, b) /\ held' = [held EXCEPT ![t] = @ \cup {b}]
      BY <2>1, CreateAdds, Zenon
    <3>2. [own |-> t, ts |-> x] # None
      BY ObjectsAssumption
    <3>3. OwnedNext(t, b) /\ \A d \in Addrs : conn[d] # None => conn'[d] = conn[d]
      BY <3>1, <3>2, Zenon DEF Adds, OwnedNext, IInv, TypeOK
    <3> QED
      BY <3>1, <3>3, Zenon
  <2>2. ASSUME Receive(t)
        PROVE  \E b \in Addrs : /\ held' = [held EXCEPT ![t] = @ \cup {b}]
                                /\ OwnedNext(t, b)
                                /\ \A d \in Addrs : conn[d] # None => conn'[d] = conn[d]
    <3>0. PICK u \in Threads \ {t} : \E a \in held[u], b \in Addrs :
            Connected(t, a, b) /\ held' = [held EXCEPT ![t] = @ \cup {b}]
      BY <2>2, Zenon DEF Receive
    <3>1. PICK a \in held[u], b \in Addrs :
            Connected(t, a, b) /\ held' = [held EXCEPT ![t] = @ \cup {b}]
      BY <3>0, Zenon
    <3>2. a \in Addrs /\ conn[a] # None /\ GlobalsFree
      BY <2>2, Zenon DEF IInv, Refs, HeldOwn, Owned, Receive
    <3> QED
      BY <3>1, <3>2, ConnectedLocal, Zenon
  <2> QED
    BY <2>1, <2>2, Zenon
<1>3. \A u \in Threads \ {t} : held'[u] = held[u]
  BY <1>2, Zenon DEF IInv, TypeOK
<1>4. \A a \in held'[t] : OwnedNext(t, a)
  BY <1>2 DEF IInv, TypeOK, Refs, HeldOwn, Owned, OwnedNext
<1>5. CallHeldOf(t)'
  BY <1>1, IdleCall, Zenon
<1> QED
  BY <1>1, <1>2, <1>3, <1>4, <1>5, Zenon DEF Local

LEMMA AllocateLocal == ASSUME IInv, NEW t \in Threads, Allocate(t) PROVE Local(t)
<1>1. Idle(t) /\ UNCHANGED <<conn, held, cache, dead, freeing, call>>
  BY Zenon DEF Allocate, locks
<1>2. CallHeldOf(t)'
  BY <1>1, IdleCall, Zenon DEF Idle
<1> QED
  BY <1>1, <1>2, Zenon DEF Local, Idle, IInv, Refs, HeldOwn, Owned, OwnedNext

\* The entries of an object of the thread are objects of the thread.
LEMMA CachedOwn ==
  ASSUME IInv, NEW t \in Threads, NEW c \in Addrs, Owned(t, c), cache[c] # None
  PROVE  Owned(t, cache[c])
BY Zenon DEF IInv, Refs, CacheOwn, Owned

LEMMA HeldStays ==
  ASSUME IInv, NEW t \in Threads, UNCHANGED <<conn, held>>
  PROVE  \A a \in held'[t] : OwnedNext(t, a)
BY Zenon DEF IInv, Refs, HeldOwn, Owned, OwnedNext

LEMMA DropLocal ==
  ASSUME IInv, NEW t \in Threads, call[t].at # "idle", dead[t] = None, DropEntry(t)
  PROVE  Local(t)
<1> DEFINE c == call[t].c
<1>1. Owned(t, c)
  BY Active, Zenon DEF Owned
<1>2. /\ cache' = [cache EXCEPT ![c] = None] /\ LetGo(t, cache[c]) /\ Goto(t, "done")
      /\ UNCHANGED <<conn, held, freeing>>
  BY Zenon DEF DropEntry, locks
<1>3. cache[c] # None => Owned(t, cache[c])
  BY <1>1, CachedOwn, Zenon DEF Owned
<1>4. \A d \in Addrs : cache'[d] = cache[d] \/ (Owned(t, d) /\ cache'[d] = None)
  BY <1>1, <1>2, Zenon DEF IInv, TypeOK
<1>5. CallHeldOf(t)' /\ \A u \in Threads \ {t} : call'[u] = call[u]
  BY <1>2, GotoCall, Zenon
<1>6. /\ \A u \in Threads \ {t} : dead'[u] = dead[u]
      /\ dead'[t] # None => OwnedNext(t, dead'[t]) /\ Unreferenced(dead'[t], held', cache')
  BY <1>2, <1>3, LetGoLocal, Zenon
<1> QED
  BY <1>2, <1>4, <1>5, <1>6, HeldStays, Zenon DEF Local

\* A step that only moves thread t in its call, or starts or ends one.
LEMMA MoveLocal ==
  ASSUME IInv, NEW t \in Threads, dead[t] = None, UNCHANGED <<conn, freeing, cache, dead>>,
         \A u \in Threads \ {t} : held'[u] = held[u] /\ call'[u] = call[u],
         \A a \in held'[t] : Owned(t, a), CallHeldOf(t)'
  PROVE  Local(t)
BY Zenon DEF Local, Owned, OwnedNext

LEMMA SyncLocal ==
  ASSUME IInv, NEW t \in Threads,
         SyncGone(t) \/ SyncValid(t) \/ SyncKeeps(t) \/ SyncDiffers(t)
  PROVE  Local(t)
<1>1. call[t].at # "idle" /\ dead[t] = None
  BY Zenon DEF SyncGone, SyncValid, SyncKeeps, SyncDiffers, At
<1>2. CASE SyncGone(t) \/ SyncDiffers(t)
  BY <1>1, <1>2, DropLocal, Zenon DEF SyncGone, SyncDiffers
<1>3. CASE SyncValid(t) \/ SyncKeeps(t)
  <2>1. PICK s \in {"compare", "done"} : Goto(t, s)
    BY <1>3, Zenon DEF SyncValid, SyncKeeps
  <2>2. UNCHANGED <<conn, held, freeing, cache, dead>>
    BY <1>3, Zenon DEF SyncValid, SyncKeeps, locks
  <2>3. CallHeldOf(t)' /\ \A u \in Threads \ {t} : call'[u] = call[u]
    BY <1>1, <2>1, <2>2, GotoCall, Zenon
  <2> QED
    BY <1>1, <2>2, <2>3, MoveLocal, Zenon DEF IInv, Refs, HeldOwn
<1> QED
  BY <1>2, <1>3, Zenon

LEMMA ReturnCall ==
  ASSUME IInv, NEW t \in Threads, Return(t)
  PROVE  call'[t] = NoCall /\ CallHeldOf(t)' /\ \A u \in Threads \ {t} : call'[u] = call[u]
<1>1. call'[t] = NoCall /\ \A u \in Threads \ {t} : call'[u] = call[u]
  BY Zenon DEF Return, IInv, TypeOK
<1> QED
  BY <1>1, IdleCall, Zenon

LEMMA SettledBusy ==
  ASSUME NEW t, Settled(t) \/ At(t, "merged") PROVE call[t].at # "idle" /\ dead[t] = None
BY Zenon DEF Settled, At

LEMMA EndLocal ==
  ASSUME IInv, NEW t \in Threads, ReadHit(t) \/ ReadNone(t) \/ Merged(t)
  PROVE  Local(t)
<1>1. call[t].at # "idle" /\ dead[t] = None
  BY SettledBusy, Zenon DEF ReadHit, ReadNone, Merged
<1>2. Return(t) /\ UNCHANGED <<conn, freeing, cache, dead>>
  BY Zenon DEF ReadHit, ReadNone, Merged, Unlock
<1>3. CallHeldOf(t)' /\ \A u \in Threads \ {t} : call'[u] = call[u]
  BY <1>2, ReturnCall, Zenon
<1>4. \A a \in held[t] : Owned(t, a)
  BY Zenon DEF IInv, Refs, HeldOwn
<1>5. CASE ReadHit(t)
  <2>1. Owned(t, call[t].c) /\ cache[call[t].c] # None
    BY <1>1, <1>5, Active, Zenon DEF Owned, ReadHit
  <2>2. Owned(t, cache[call[t].c])
    BY <2>1, CachedOwn, Zenon DEF Owned
  <2>3. held' = [held EXCEPT ![t] = @ \cup {cache[call[t].c]}]
    BY <1>5, Zenon DEF ReadHit
  <2>4. \A a \in held'[t] : Owned(t, a)
    BY <1>4, <2>2, <2>3, Zenon DEF IInv, TypeOK
  <2>5. \A u \in Threads \ {t} : held'[u] = held[u]
    BY <2>3, Zenon DEF IInv, TypeOK
  <2> QED
    BY <1>1, <1>2, <1>3, <2>4, <2>5, MoveLocal, Zenon
<1>6. CASE ReadNone(t) \/ Merged(t)
  <2>1. UNCHANGED held
    BY <1>6, Zenon DEF ReadNone, Merged
  <2> QED
    BY <1>1, <1>2, <1>3, <1>4, <2>1, MoveLocal, Zenon
<1> QED
  BY <1>5, <1>6, Zenon

LEMMA ReadMissLocal == ASSUME IInv, NEW t \in Threads, ReadMiss(t) PROVE Local(t)
<1> DEFINE c == call[t].c
           a == props[Cell(t)].at
<1>1. call[t].at # "idle" /\ dead[t] = None
  BY SettledBusy, Zenon DEF ReadMiss
<1>2. Owned(t, c)
  BY <1>1, Active, Zenon DEF Owned
<1>3. a \in Addrs /\ conn[a] # None /\ GlobalsFree
  BY <1>1, Active, Zenon DEF ReadMiss, IInv, TypeOK
<1>4. PICK b \in Addrs : /\ Connected(t, a, b)
                         /\ held' = [held EXCEPT ![t] = @ \cup {b}]
                         /\ cache' = [cache EXCEPT ![c] = b]
  BY Zenon DEF ReadMiss
<1>5. OwnedNext(t, b) /\ \A d \in Addrs : conn[d] # None => conn'[d] = conn[d]
  BY <1>3, <1>4, ConnectedLocal, Zenon
<1>6. Return(t) /\ UNCHANGED <<freeing, dead>>
  BY Zenon DEF ReadMiss, Unlock
<1>7. CallHeldOf(t)' /\ \A u \in Threads \ {t} : call'[u] = call[u]
  BY <1>6, ReturnCall, Zenon
<1>8. \A d \in Addrs : cache'[d] = cache[d] \/ (Owned(t, d) /\ OwnedNext(t, cache'[d]))
  BY <1>2, <1>4, <1>5, Zenon DEF IInv, TypeOK
<1>9. \A u \in Threads \ {t} : held'[u] = held[u]
  BY <1>4, Zenon DEF IInv, TypeOK
<1>10. \A d \in held'[t] : OwnedNext(t, d)
  BY <1>4, <1>5, SMTT(30) DEF IInv, TypeOK, Refs, HeldOwn, Owned, OwnedNext
<1> QED
  BY <1>1, <1>5, <1>6, <1>7, <1>8, <1>9, <1>10, Zenon DEF Local

LEMMA WrittenLocal == ASSUME IInv, NEW t \in Threads, Written(t) PROVE Local(t)
<1> DEFINE c == call[t].c
<1>1. call[t].at # "idle" /\ dead[t] = None /\ call[t].v # None
  BY SettledBusy, Zenon DEF Written
<1>2. Owned(t, c) /\ Owned(t, call[t].v)
  BY <1>1, Active, Zenon DEF Owned
<1>3. /\ cache' = [cache EXCEPT ![c] = call[t].v] /\ LetGo(t, cache[c]) /\ Return(t)
      /\ UNCHANGED <<conn, held, freeing>>
  BY Zenon DEF Written, Unlock
<1>4. cache[c] # None => Owned(t, cache[c])
  BY <1>2, CachedOwn, Zenon DEF Owned
<1>5. \A d \in Addrs : cache'[d] = cache[d] \/ (Owned(t, d) /\ OwnedNext(t, cache'[d]))
  BY <1>2, <1>3, Zenon DEF IInv, TypeOK, Owned, OwnedNext
<1>6. CallHeldOf(t)' /\ \A u \in Threads \ {t} : call'[u] = call[u]
  BY <1>3, ReturnCall, Zenon
<1>7. /\ \A u \in Threads \ {t} : dead'[u] = dead[u]
      /\ dead'[t] # None => OwnedNext(t, dead'[t]) /\ Unreferenced(dead'[t], held', cache')
  BY <1>1, <1>3, <1>4, LetGoLocal, Zenon
<1> QED
  BY <1>1, <1>3, <1>5, <1>6, <1>7, HeldStays, Zenon DEF Local

LEMMA StartLocal ==
  ASSUME IInv, NEW t \in Threads, NEW c \in Addrs, NEW v \in Addrs,
         Read(t, c) \/ Write(t, c, v) \/ Merge(t, c, v)
  PROVE  Local(t)
<1>1. dead[t] = None /\ c \in held[t] /\ conn[c].ts \in Boxes
      /\ UNCHANGED <<conn, held, freeing, cache, dead>>
  BY ZenonT(30) DEF Read, Write, Merge, Idle
<1>2. \/ call' = [call EXCEPT ![t] = Call("sync", c, None)]
      \/ call' = [call EXCEPT ![t] = Call("sync", c, v)] /\ v \in held[t]
      \/ call' = [call EXCEPT ![t] = Call("merge", c, v)] /\ v \in held[t]
         /\ conn[v].ts \in Boxes
  BY Zenon DEF Read, Write, Merge
<1>3. CallHeldOf(t)'
  <2>1. \/ call'[t] = Call("sync", c, None)
        \/ call'[t] = Call("sync", c, v) /\ v \in held[t]
        \/ call'[t] = Call("merge", c, v) /\ v \in held[t] /\ conn[v].ts \in Boxes
    BY <1>2, Zenon DEF IInv, TypeOK
  <2>2. v # None
    BY ObjectsAssumption, Zenon
  <2>3. CASE call'[t] = Call("sync", c, None)
    BY <1>1, <2>3, SMTT(30) DEF CallHeldOf, Call
  <2>4. CASE call'[t] = Call("sync", c, v) /\ v \in held[t]
    BY <1>1, <2>4, SMTT(30) DEF CallHeldOf, Call
  <2>5. CASE call'[t] = Call("merge", c, v) /\ v \in held[t] /\ conn[v].ts \in Boxes
    BY <1>1, <2>2, <2>5, SMTT(30) DEF CallHeldOf, Call
  <2> QED
    BY <2>1, <2>3, <2>4, <2>5, Zenon
<1>4. \A u \in Threads \ {t} : call'[u] = call[u]
  BY <1>2, Zenon DEF IInv, TypeOK
<1> QED
  BY <1>1, <1>3, <1>4, MoveLocal, Zenon DEF IInv, Refs, HeldOwn

LEMMA DeleteLocal ==
  ASSUME IInv, NEW t \in Threads, NEW c \in Addrs, Delete(t, c)
  PROVE  Local(t)
<1>1. /\ dead[t] = None /\ call[t] = NoCall /\ c \in held[t]
      /\ cache' = [cache EXCEPT ![c] = None] /\ LetGo(t, cache[c])
      /\ UNCHANGED <<conn, held, freeing, call>>
  BY Zenon DEF Delete, Idle, locks
<1>2. Owned(t, c)
  BY <1>1, Zenon DEF IInv, Refs, HeldOwn
<1>3. cache[c] # None => Owned(t, cache[c])
  BY <1>2, CachedOwn, Zenon DEF Owned
<1>4. \A d \in Addrs : cache'[d] = cache[d] \/ (Owned(t, d) /\ cache'[d] = None)
  BY <1>1, <1>2, Zenon DEF IInv, TypeOK
<1>5. CallHeldOf(t)'
  BY <1>1, IdleCall, Zenon
<1>6. /\ \A u \in Threads \ {t} : dead'[u] = dead[u]
      /\ dead'[t] # None => OwnedNext(t, dead'[t]) /\ Unreferenced(dead'[t], held', cache')
  BY <1>1, <1>3, LetGoLocal, Zenon
<1> QED
  BY <1>1, <1>4, <1>5, <1>6, HeldStays, ZenonT(30) DEF Local

LEMMA ReleaseLocal ==
  ASSUME IInv, NEW t \in Threads, NEW a \in Addrs, Release(t, a)
  PROVE  Local(t)
<1>1. /\ dead[t] = None /\ call[t] = NoCall /\ a \in held[t]
      /\ held' = [held EXCEPT ![t] = @ \ {a}] /\ LetGo(t, a)
      /\ UNCHANGED <<conn, cache, freeing, call>>
  BY Zenon DEF Release, Idle, locks
<1>2. Owned(t, a)
  BY <1>1, Zenon DEF IInv, Refs, HeldOwn
<1>3. \A u \in Threads \ {t} : held'[u] = held[u]
  BY <1>1, Zenon DEF IInv, TypeOK
<1>4. \A d \in held'[t] : OwnedNext(t, d)
  BY <1>1, Zenon DEF IInv, TypeOK, Refs, HeldOwn, Owned, OwnedNext
<1>5. CallHeldOf(t)'
  BY <1>1, IdleCall, Zenon
<1>6. /\ \A u \in Threads \ {t} : dead'[u] = dead[u]
      /\ dead'[t] # None => OwnedNext(t, dead'[t]) /\ Unreferenced(dead'[t], held', cache')
  BY <1>1, <1>2, LetGoLocal, Zenon
<1> QED
  BY <1>1, <1>3, <1>4, <1>5, <1>6, ZenonT(30) DEF Local

LEMMA MergeCopiesLocal ==
  ASSUME IInv, NEW t \in Threads, NEW overwrite \in BOOLEAN, MergeCopies(t, overwrite)
  PROVE  Local(t)
<1> DEFINE c == call[t].c
<1>1. /\ call[t].at = "merge" /\ dead[t] = None
      /\ Goto(t, "merged") /\ UNCHANGED <<conn, held, freeing>>
  BY Zenon DEF MergeCopies, At
<1>2. Owned(t, c)
  BY <1>1, Active, Zenon DEF Owned
<1>3. CallHeldOf(t)' /\ \A u \in Threads \ {t} : call'[u] = call[u]
  BY <1>1, GotoCall, Zenon
<1>4. CASE UNCHANGED <<cache, dead>>
  BY <1>1, <1>3, <1>4, MoveLocal, Zenon DEF IInv, Refs, HeldOwn
<1>5. CASE cache' = [cache EXCEPT ![c] = None] /\ LetGo(t, cache[c])
  <2>1. cache[c] # None => Owned(t, cache[c])
    BY <1>2, CachedOwn, Zenon DEF Owned
  <2>2. \A d \in Addrs : cache'[d] = cache[d] \/ (Owned(t, d) /\ cache'[d] = None)
    BY <1>2, <1>5, Zenon DEF IInv, TypeOK
  <2>3. /\ \A u \in Threads \ {t} : dead'[u] = dead[u]
        /\ dead'[t] # None => OwnedNext(t, dead'[t]) /\ Unreferenced(dead'[t], held', cache')
    BY <1>1, <1>5, <2>1, LetGoLocal, Zenon
  <2> QED
    BY <1>1, <1>3, <2>2, <2>3, HeldStays, ZenonT(30) DEF Local
<1> QED
  BY <1>4, <1>5, Zenon DEF MergeCopies

LEMMA LocalStep ==
  ASSUME IInv, NEW t \in Threads, Step(t)
  PROVE  Local(t) \/ FreeLock(t) \/ FreeRest(t)
BY AllocateLocal, MakeLocal, SyncLocal, EndLocal, ReadMissLocal, WrittenLocal, StartLocal,
   DeleteLocal, ReleaseLocal, MergeCopiesLocal, Zenon DEF Step, Use

LEMMA FreeLockRefs == ASSUME IInv, NEW t \in Threads, FreeLock(t) PROVE Refs'
<1>1. /\ dead[t] # None /\ GlobalsFree /\ freeing' = dead[t]
      /\ UNCHANGED <<conn, held, cache, dead, call>>
  BY Zenon DEF FreeLock
<1>2. Owned(t, dead[t])
  BY <1>1, DeadCounts, Zenon DEF Owned
<1>3. FreeingDead'
  BY <1>1, <1>2, Zenon DEF FreeingDead, Owned
<1>4. HeldOwn' /\ CacheOwn' /\ CallHeld'
  BY <1>1, Zenon DEF IInv, Refs, HeldOwn, CacheOwn, CallHeld, Owned
<1>5. DeadUnreferenced'
  BY <1>1, Zenon DEF IInv, Refs, DeadUnreferenced, Owned, Unreferenced
<1> QED
  BY <1>3, <1>4, <1>5, Zenon DEF Refs

LEMMA FreeRestRefs == ASSUME IInv, NEW t \in Threads, FreeRest(t) PROVE Refs'
<1> DEFINE a == freeing
<1>1. /\ a # None /\ a = dead[t] /\ freeing' = None
      /\ conn' = [conn EXCEPT ![a] = None] /\ cache' = [cache EXCEPT ![a] = None]
      /\ dead' = [dead EXCEPT ![t] = IF cache[a] # None /\ Unreferenced(cache[a], held, cache')
                                     THEN cache[a] ELSE None]
      /\ UNCHANGED <<held, call>>
  BY Zenon DEF FreeRest
<1>2. Owned(t, a) /\ Unreferenced(a, held, cache)
  BY <1>1, Zenon DEF IInv, Refs, DeadUnreferenced
<1>3. \A d \in Addrs : /\ conn'[d] = IF d = a THEN None ELSE conn[d]
                       /\ cache'[d] = IF d = a THEN None ELSE cache[d]
  BY <1>1, Zenon DEF IInv, TypeOK
<1>4. \A u \in Threads : dead'[u] = IF u # t THEN dead[u]
        ELSE IF cache[a] # None /\ Unreferenced(cache[a], held, cache') THEN cache[a] ELSE None
  BY <1>1, Zenon DEF IInv, TypeOK
<1>5. \A u \in Threads : \A d : Owned(u, d) /\ d # a => OwnedNext(u, d)
  BY <1>3, Zenon DEF Owned, OwnedNext
<1> HIDE DEF a
<1>6. HeldOwn'
  <2> SUFFICES ASSUME NEW u \in Threads, NEW d \in held'[u] PROVE OwnedNext(u, d)
    BY Zenon DEF HeldOwn, Owned, OwnedNext
  <2> QED
    BY <1>1, <1>2, <1>5, Zenon DEF IInv, Refs, HeldOwn, Unreferenced
<1>7. CacheOwn'
  <2> SUFFICES ASSUME NEW d \in Addrs, cache'[d] # None
               PROVE  conn'[d] # None /\ OwnedNext(conn'[d].own, cache'[d])
    BY Zenon DEF CacheOwn, Owned, OwnedNext
  <2>1. d # a /\ cache[d] # None /\ conn'[d] = conn[d] /\ cache'[d] = cache[d]
    BY <1>3, Zenon
  <2>2. conn[d] # None /\ Owned(conn[d].own, cache[d])
    BY <2>1, Zenon DEF IInv, Refs, CacheOwn
  <2>3. cache[d] # a /\ conn[d].own \in Threads
    BY <1>2, <2>2, Zenon DEF Unreferenced, IInv, TypeOK
  <2> QED
    BY <1>5, <2>1, <2>2, <2>3, Zenon
<1>8. DeadUnreferenced'
  <2> SUFFICES ASSUME NEW u \in Threads, dead'[u] # None
               PROVE  OwnedNext(u, dead'[u]) /\ Unreferenced(dead'[u], held', cache')
    BY Zenon DEF DeadUnreferenced, Unreferenced, Owned, OwnedNext
  <2>1. CASE u = t
    <3>1. dead'[u] = cache[a] /\ cache[a] # None /\ Unreferenced(cache[a], held, cache')
      BY <1>4, <2>1, Zenon
    <3>2. Owned(t, cache[a]) /\ cache[a] # a
      BY <1>2, <3>1, CachedOwn, Zenon DEF Owned, Unreferenced
    <3> QED
      BY <1>1, <1>5, <2>1, <3>1, <3>2, Zenon DEF Unreferenced
  <2>2. CASE u # t
    <3>1. dead'[u] = dead[u] /\ Owned(u, dead[u]) /\ Unreferenced(dead[u], held, cache)
      BY <1>4, <2>2, Zenon DEF IInv, Refs, DeadUnreferenced
    <3>2. dead[u] # a
      BY <1>2, <2>2, <3>1, Zenon DEF Owned
    <3>3. \A d \in Addrs : cache'[d] # dead[u]
      BY <1>3, <3>1, ObjectsAssumption, Zenon DEF Unreferenced, Owned
    <3> QED
      BY <1>1, <1>5, <3>1, <3>2, <3>3, Zenon DEF Unreferenced
  <2> QED
    BY <2>1, <2>2, Zenon
<1>9. FreeingDead'
  BY <1>1, Zenon DEF FreeingDead
<1>10. CallHeld'
  <2> SUFFICES ASSUME NEW u \in Threads PROVE CallHeldOf(u)'
    BY Zenon DEF CallHeld, CallHeldOf
  <2>1. CallHeldOf(u)
    BY Zenon DEF IInv, Refs, CallHeld, CallHeldOf
  <2>2. \A d \in held[u] : conn'[d] = conn[d]
    BY <1>2, <1>3, Zenon DEF IInv, Refs, HeldOwn, Owned, Unreferenced
  <2> QED
    BY <1>1, <2>1, <2>2, ZenonT(30) DEF CallHeldOf
<1> QED
  BY <1>6, <1>7, <1>8, <1>9, <1>10, Zenon DEF Refs

LEMMA RefsStep == ASSUME IInv, NEW t \in Threads, Step(t) PROVE Refs'
BY LocalStep, LocalRefs, FreeLockRefs, FreeRestRefs, Zenon

\* A thread that uses its objects makes none.
LEMMA UseMaking == ASSUME IInv, NEW t \in Threads, Use(t) PROVE making[t] = None
<1>1. Idle(t) \/ call[t].at # "idle" \/ dead[t] # None
  <2>1. CASE Receive(t) \/ \E c \in Addrs : Read(t, c) \/ Delete(t, c) \/ Release(t, c)
    BY <2>1, Zenon DEF Receive, Read, Delete, Release
  <2>2. CASE \E c, v \in Addrs : Write(t, c, v) \/ Merge(t, c, v)
    BY <2>2, Zenon DEF Write, Merge
  <2>3. CASE SyncGone(t) \/ SyncValid(t) \/ SyncKeeps(t) \/ SyncDiffers(t) \/ Merged(t)
    BY <2>3, Zenon DEF SyncGone, SyncValid, SyncKeeps, SyncDiffers, Merged, At
  <2>4. CASE ReadHit(t) \/ ReadNone(t) \/ ReadMiss(t) \/ Written(t)
    BY <2>4, SettledBusy, Zenon DEF ReadHit, ReadNone, ReadMiss, Written
  <2>5. CASE \E overwrite \in BOOLEAN : MergeCopies(t, overwrite)
    BY <2>5, Zenon DEF MergeCopies, At
  <2>6. CASE FreeLock(t) \/ FreeRest(t)
    BY <2>6, Zenon DEF FreeLock, FreeRest
  <2> QED
    BY <2>1, <2>2, <2>3, <2>4, <2>5, <2>6, Zenon DEF Use
<1>2. call[t].at # "idle" => call[t] # NoCall
  BY DEF NoCall, Call
<1> QED
  BY <1>1, <1>2, Zenon DEF Idle, IInv, MakingIdle

LEMMA UseKeeps == ASSUME NEW t \in Threads, Use(t) PROVE UNCHANGED making
<1>1. CASE Receive(t) \/ ReadHit(t) \/ ReadNone(t) \/ ReadMiss(t) \/ Written(t) \/ Merged(t)
  BY <1>1, Zenon DEF Receive, ReadHit, ReadNone, ReadMiss, Written, Merged
<1>2. CASE SyncGone(t) \/ SyncValid(t) \/ SyncKeeps(t) \/ SyncDiffers(t)
  BY <1>2, Zenon DEF SyncGone, SyncValid, SyncKeeps, SyncDiffers, DropEntry
<1>3. CASE \E c \in Addrs : Read(t, c) \/ Delete(t, c) \/ Release(t, c)
  BY <1>3, Zenon DEF Read, Delete, Release
<1>4. CASE \E c, v \in Addrs : Write(t, c, v) \/ Merge(t, c, v)
  BY <1>4, Zenon DEF Write, Merge
<1>5. CASE (\E overwrite \in BOOLEAN : MergeCopies(t, overwrite)) \/ FreeLock(t) \/ FreeRest(t)
  BY <1>5, Zenon DEF MergeCopies, FreeLock, FreeRest
<1> QED
  BY <1>1, <1>2, <1>3, <1>4, <1>5, Zenon DEF Use

LEMMA MakingStep == ASSUME IInv, NEW t \in Threads, Step(t) PROVE MakingIdle'
<1>1. \A u \in Threads \ {t} : call'[u] = call[u] /\ dead'[u] = dead[u]
  <2>1. CASE FreeLock(t)
    BY <2>1, Zenon DEF FreeLock
  <2>2. CASE FreeRest(t)
    BY <2>2, Zenon DEF FreeRest, IInv, TypeOK
  <2> QED
    BY <2>1, <2>2, LocalStep, Zenon DEF Local
<1>2. CASE Allocate(t)
  BY <1>1, <1>2 DEF Allocate, Idle, MakingIdle, IInv, TypeOK
<1>3. CASE \E x \in Cells : Create(t, x)
  BY <1>1, <1>3 DEF Create, MakingIdle, IInv, TypeOK
<1>4. CASE Use(t)
  BY <1>1, <1>4, UseMaking, UseKeeps, Zenon DEF MakingIdle, IInv
<1> QED
  BY <1>2, <1>3, <1>4, Zenon DEF Step

-----------------------------------------------------------------------------
(* Monitors.                                                                   *)

\* No step frees an object that the program refers to.
LEMMA HeldKept ==
  ASSUME IInv, NEW t \in Threads, Step(t)
  PROVE  \A u \in Threads : \A a \in held[u] : conn'[a] = conn[a]
<1>0. \A u \in Threads : \A a \in held[u] : a \in Addrs /\ conn[a] # None
  BY Zenon DEF IInv, Refs, HeldOwn, Owned
<1>1. CASE Local(t)
  BY <1>0, <1>1, Zenon DEF Local
<1>2. CASE FreeLock(t)
  BY <1>2, Zenon DEF FreeLock
<1>3. CASE FreeRest(t)
  <2>1. freeing = dead[t] /\ freeing # None /\ conn' = [conn EXCEPT ![freeing] = None]
    BY <1>3, Zenon DEF FreeRest
  <2>2. \A u \in Threads : freeing \notin held[u]
    BY <2>1, Zenon DEF IInv, Refs, DeadUnreferenced, Unreferenced
  <2> QED
    BY <1>0, <2>1, <2>2, Zenon DEF IInv, TypeOK
<1> QED
  BY <1>1, <1>2, <1>3, LocalStep, Zenon

\* The objects of a call stay.
LEMMA CallKept ==
  ASSUME IInv, NEW t \in Threads, Step(t), NEW u \in Threads, call[u].at # "idle"
  PROVE  /\ conn'[call[u].c] = conn[call[u].c]
         /\ call[u].v # None => conn'[call[u].v] = conn[call[u].v]
BY HeldKept, Zenon DEF IInv, Refs, CallHeld

MonitorHeldOf(x) ==
  monitor[x] # None =>
    /\ call[monitor[x]].at # "idle"
    /\ \/ conn[call[monitor[x]].c].ts = x
       \/ call[monitor[x]].v # None /\ conn[call[monitor[x]].v].ts = x

LEMMA MonitorStep == ASSUME IInv, NEW t \in Threads, Step(t) PROVE MonitorHeld'
<1> SUFFICES ASSUME NEW x \in Cells PROVE MonitorHeldOf(x)'
  BY Zenon DEF MonitorHeld, MonitorHeldOf
<1>0. MonitorHeldOf(x) /\ monitor[x] \in Threads \cup {None}
  BY Zenon DEF IInv, TypeOK, MonitorHeld, MonitorHeldOf
<1>1. ASSUME monitor'[x] = monitor[x], monitor[x] # None,
             \/ call'[monitor[x]] = call[monitor[x]]
             \/ /\ call'[monitor[x]].at # "idle"
                /\ call'[monitor[x]].c = call[monitor[x]].c
                /\ call'[monitor[x]].v = call[monitor[x]].v
      PROVE  MonitorHeldOf(x)'
  <2>1. monitor[x] \in Threads /\ call[monitor[x]].at # "idle"
    BY <1>0, <1>1, Zenon DEF MonitorHeldOf
  <2>2. /\ conn'[call[monitor[x]].c] = conn[call[monitor[x]].c]
        /\ call[monitor[x]].v # None => conn'[call[monitor[x]].v] = conn[call[monitor[x]].v]
    BY <2>1, CallKept, Zenon
  <2> QED
    BY <1>0, <1>1, <2>1, <2>2, Zenon DEF MonitorHeldOf
<1>2. CASE UNCHANGED <<monitor, call>>
  BY <1>1, <1>2, Zenon DEF MonitorHeldOf
<1>3. CASE SyncGone(t) \/ SyncValid(t) \/ SyncKeeps(t) \/ SyncDiffers(t)
  <2>1. call[t].at # "idle" /\ UNCHANGED <<monitor, conn, held>>
    BY <1>3, Zenon DEF SyncGone, SyncValid, SyncKeeps, SyncDiffers, DropEntry, At, locks
  <2>2. PICK s \in {"compare", "done"} : Goto(t, s)
    BY <1>3, Zenon DEF SyncGone, SyncValid, SyncKeeps, SyncDiffers, DropEntry
  <2>3. /\ \A u \in Threads \ {t} : call'[u] = call[u]
        /\ call'[t].at = s /\ call'[t].c = call[t].c /\ call'[t].v = call[t].v
    BY <2>1, <2>2, GotoCall, Zenon
  <2> QED
    BY <1>0, <1>1, <2>1, <2>3, Zenon DEF MonitorHeldOf
<1>4. CASE ReadHit(t) \/ ReadNone(t) \/ ReadMiss(t) \/ Written(t) \/ Merged(t)
  <2>1. Unlock(t) /\ Return(t)
    BY <1>4, Zenon DEF ReadHit, ReadNone, ReadMiss, Written, Merged
  <2>2. monitor'[x] = IF monitor[x] = t THEN None ELSE monitor[x]
    BY <2>1, Zenon DEF Unlock
  <2>3. \A u \in Threads \ {t} : call'[u] = call[u]
    BY <2>1, ReturnCall, Zenon
  <2> QED
    BY <1>0, <1>1, <2>2, <2>3, Zenon DEF MonitorHeldOf
<1>5. ASSUME NEW c \in Addrs, NEW v \in Addrs, Read(t, c) \/ Write(t, c, v) \/ Merge(t, c, v)
      PROVE  MonitorHeldOf(x)'
  <2>1. call[t] = NoCall /\ monitor' = [monitor EXCEPT ![conn[c].ts] = t] /\ UNCHANGED conn
    BY <1>5, Zenon DEF Read, Write, Merge, Idle
  <2>2. \E s \in {"sync", "merge"} : \E w : call' = [call EXCEPT ![t] = Call(s, c, w)]
    BY <1>5, Zenon DEF Read, Write, Merge
  <2>3. /\ call'[t].at # "idle" /\ call'[t].c = c
        /\ \A u \in Threads \ {t} : call'[u] = call[u]
    BY <2>2 DEF Call, IInv, TypeOK
  <2>4. monitor'[x] = IF x = conn[c].ts THEN t ELSE monitor[x]
    BY <2>1, Zenon DEF IInv, TypeOK
  <2>5. CASE x = conn[c].ts
    BY <2>1, <2>3, <2>4, <2>5, Zenon DEF MonitorHeldOf
  <2>6. CASE x # conn[c].ts
    <3>1. monitor[x] # t
      BY <1>0, <2>1, ObjectsAssumption DEF MonitorHeldOf, NoCall, Call
    <3> QED
      BY <1>0, <1>1, <2>3, <2>4, <2>6, <3>1, Zenon DEF MonitorHeldOf
  <2> QED
    BY <2>5, <2>6, Zenon
<1>6. ASSUME NEW overwrite \in BOOLEAN, MergeCopies(t, overwrite)
      PROVE  MonitorHeldOf(x)'
  <2>1. /\ call[t].at = "merge" /\ Goto(t, "merged") /\ UNCHANGED <<conn, held>>
        /\ monitor' = [monitor EXCEPT ![conn[call[t].v].ts] = t]
    BY <1>6, Zenon DEF MergeCopies, At
  <2>2. /\ \A u \in Threads \ {t} : call'[u] = call[u]
        /\ call'[t].at = "merged" /\ call'[t].c = call[t].c /\ call'[t].v = call[t].v
    BY <2>1, GotoCall, Zenon
  <2>3. call[t].v # None
    BY <2>1, Zenon DEF IInv, Refs, CallHeld
  <2>4. monitor'[x] = IF x = conn[call[t].v].ts THEN t ELSE monitor[x]
    BY <2>1, Zenon DEF IInv, TypeOK
  <2>5. CASE x = conn[call[t].v].ts
    BY <2>1, <2>2, <2>3, <2>4, <2>5, Zenon DEF MonitorHeldOf
  <2>6. CASE x # conn[call[t].v].ts
    BY <1>0, <1>1, <2>2, <2>4, <2>6, Zenon DEF MonitorHeldOf
  <2> QED
    BY <2>5, <2>6, Zenon
<1>7. CASE \/ Allocate(t) \/ \E y \in Cells : Create(t, y)
           \/ Receive(t) \/ FreeLock(t) \/ FreeRest(t)
           \/ \E c \in Addrs : Delete(t, c) \/ Release(t, c)
  <2>1. UNCHANGED <<monitor, call>>
    BY <1>7, Zenon DEF Allocate, Create, Receive, FreeLock, FreeRest, Delete, Release, locks
  <2> QED
    BY <1>2, <2>1, Zenon
<1> QED
  BY <1>3, <1>4, <1>5, <1>6, <1>7, Zenon DEF Step, Use

-----------------------------------------------------------------------------
(* The writer's reference.                                                     *)

WriterKeepsOf(x) ==
  props[x] # None /\ writer[x] # None =>
    /\ conn[writer[x]] # None /\ conn[writer[x]].ts = x
    /\ IF Writing(conn[writer[x]].own, writer[x])
       THEN call[conn[writer[x]].own].v = props[x].at
       ELSE cache[writer[x]] = props[x].at
    /\ props[x].live

WritingNext(t, c) ==
  call'[t].at \in {"sync", "compare", "done"} /\ call'[t].c = c /\ call'[t].v # None

\* A step that touches neither the property nor what its writer has of it.
LEMMA WriterSame ==
  ASSUME IInv, NEW x \in Boxes, WriterKeepsOf(x), props'[x] = props[x], writer'[x] = writer[x],
         props[x] # None /\ writer[x] # None =>
           LET w == writer[x]
               u == conn[w].own
           IN  /\ conn'[w] = conn[w]
               /\ WritingNext(u, w) <=> Writing(u, w)
               /\ Writing(u, w) => call'[u].v = call[u].v
               /\ ~Writing(u, w) => cache'[w] = cache[w]
  PROVE  WriterKeepsOf(x)'
<1> SUFFICES ASSUME props[x] # None, writer[x] # None
             PROVE  WriterKeepsOf(x)'
  BY Zenon DEF WriterKeepsOf
<1> DEFINE w == writer[x]
           u == conn[w].own
<1>1. /\ conn'[w] = conn[w]
      /\ WritingNext(u, w) <=> Writing(u, w)
      /\ Writing(u, w) => call'[u].v = call[u].v
      /\ ~Writing(u, w) => cache'[w] = cache[w]
  BY Zenon
<1> QED
  BY <1>1, Zenon DEF WriterKeepsOf, Writing, WritingNext

\* The writer of a property, its thread, and what the thread has.
LEMMA WriterFacts ==
  ASSUME IInv, NEW x \in Boxes, props[x] # None, writer[x] # None
  PROVE  LET w == writer[x]
             u == conn[w].own
         IN  /\ w \in Addrs /\ conn[w] # None /\ conn[w].ts = x /\ u \in Threads
             /\ IF Writing(u, w) THEN call[u].v = props[x].at ELSE cache[w] = props[x].at
             /\ props[x].at \in Addrs /\ props[x].live
<1>1. WriterKeepsOf(x)
  BY Zenon DEF IInv, WriterKeeps, WriterKeepsOf
<1> QED
  BY <1>1, Zenon DEF WriterKeepsOf, IInv, TypeOK

\* The property that is stored is an object somebody refers to.
LEMMA WriterRefers ==
  ASSUME IInv, NEW x \in Boxes, props[x] # None, writer[x] # None
  PROVE  conn[props[x].at] # None /\ ~Unreferenced(props[x].at, held, cache)
<1> DEFINE w == writer[x]
           u == conn[w].own
           p == props[x].at
<1>1. /\ w \in Addrs /\ conn[w] # None /\ u \in Threads /\ p \in Addrs
      /\ IF Writing(u, w) THEN call[u].v = p ELSE cache[w] = p
  BY WriterFacts, Zenon
<1>2. CASE Writing(u, w)
  <2>1. p \in held[u]
    BY <1>1, <1>2, Zenon DEF Writing, IInv, Refs, CallHeld
  <2> QED
    BY <1>1, <2>1, Zenon DEF IInv, Refs, HeldOwn, Owned, Unreferenced
<1>3. CASE ~Writing(u, w)
  BY <1>1, <1>3, ObjectsAssumption, Zenon DEF IInv, Refs, CacheOwn, Owned, Unreferenced
<1> QED
  BY <1>2, <1>3, Zenon

\* Thread t moves in its call on c, starts or ends one, without writing.
LEMMA WriterMoves ==
  ASSUME IInv, NEW t \in Threads, NEW x \in Boxes, props'[x] = props[x], writer'[x] = writer[x],
         \A a \in Addrs : conn[a] # None => conn'[a] = conn[a],
         \A u \in Threads \ {t} : call'[u] = call[u],
         \A c \in Addrs : WritingNext(t, c) <=> Writing(t, c),
         \A c \in Addrs : Writing(t, c) => call'[t].v = call[t].v,
         \A d \in Addrs : cache'[d] = cache[d] \/ Writing(t, d)
                          \/ (props[x] # None => cache[d] # props[x].at) \/ conn[d].ts # x
  PROVE  WriterKeepsOf(x)'
<1>0. WriterKeepsOf(x)
  BY Zenon DEF IInv, WriterKeeps, WriterKeepsOf
<1>1. ASSUME props[x] # None, writer[x] # None
      PROVE  LET w == writer[x]
                 u == conn[w].own
             IN  /\ conn'[w] = conn[w]
                 /\ WritingNext(u, w) <=> Writing(u, w)
                 /\ Writing(u, w) => call'[u].v = call[u].v
                 /\ ~Writing(u, w) => cache'[w] = cache[w]
  <2> DEFINE w == writer[x]
             u == conn[w].own
  <2>1. /\ w \in Addrs /\ conn[w] # None /\ conn[w].ts = x /\ u \in Threads
        /\ IF Writing(u, w) THEN call[u].v = props[x].at ELSE cache[w] = props[x].at
    BY <1>1, WriterFacts, Zenon
  <2>2. CASE u = t
    <3>1. ~Writing(u, w) => cache'[w] = cache[w]
      BY <1>1, <2>1, <2>2, Zenon
    <3> QED
      BY <2>1, <2>2, <3>1, Zenon
  <2>3. CASE u # t
    <3>1. WritingNext(u, w) <=> Writing(u, w)
      BY <2>1, <2>3, Zenon DEF Writing, WritingNext
    <3>2. ~Writing(t, w) \/ u = t
      BY <2>1, Active, Zenon DEF Writing
    <3>3. ~Writing(u, w) => cache'[w] = cache[w]
      BY <1>1, <2>1, <2>3, <3>2, Zenon
    <3> QED
      BY <2>1, <2>3, <3>1, <3>3, Zenon
  <2> QED
    BY <2>2, <2>3, Zenon
<1> QED
  BY <1>0, <1>1, WriterSame, Zenon

LEMMA SyncWriter ==
  ASSUME IInv, NEW t \in Threads, NEW x \in Boxes,
         SyncGone(t) \/ SyncValid(t) \/ SyncKeeps(t) \/ SyncDiffers(t)
  PROVE  WriterKeepsOf(x)'
<1> DEFINE c == call[t].c
<1>1. call[t].at \in {"sync", "compare"} /\ UNCHANGED <<conn, held, props, writer>>
  BY Zenon DEF SyncGone, SyncValid, SyncKeeps, SyncDiffers, DropEntry, At
<1>2. c \in Addrs /\ Cell(t) \in Boxes /\ Owned(t, c)
  BY <1>1, Active, Zenon DEF Owned
<1>3. PICK s \in {"compare", "done"} : Goto(t, s)
  BY Zenon DEF SyncGone, SyncValid, SyncKeeps, SyncDiffers, DropEntry
<1>4. /\ \A u \in Threads \ {t} : call'[u] = call[u]
      /\ call'[t].at = s /\ call'[t].c = call[t].c /\ call'[t].v = call[t].v
  BY <1>1, <1>3, GotoCall, Zenon
<1>5. \A d \in Addrs : WritingNext(t, d) <=> Writing(t, d)
  BY <1>1, <1>4, Zenon DEF Writing, WritingNext
<1>6. \A d \in Addrs : cache'[d] = cache[d] \/ Writing(t, d)
                       \/ (props[x] # None => cache[d] # props[x].at) \/ conn[d].ts # x
  <2>1. CASE SyncValid(t) \/ SyncKeeps(t)
    BY <2>1, Zenon DEF SyncValid, SyncKeeps
  <2>2. CASE SyncGone(t) \/ SyncDiffers(t)
    <3>1. \A d \in Addrs : d # c => cache'[d] = cache[d]
      BY <1>2, <2>2, Zenon DEF SyncGone, SyncDiffers, DropEntry, IInv, TypeOK
    <3>2. ASSUME conn[c].ts = x, props[x] # None, cache[c] = props[x].at PROVE FALSE
      <4>1. Cell(t) = x /\ Names(x, cache[c])
        BY <3>2, Zenon DEF Cell, Names
      <4>2. CASE SyncGone(t)
        BY <4>1, <4>2, Zenon DEF SyncGone, Settled, SameEntry
      <4>3. CASE SyncDiffers(t)
        <5>1. cache[c] \in Addrs /\ cache[c] # None
          BY <1>2, <3>2, ObjectsAssumption DEF IInv, TypeOK
        <5>2. conn[cache[c]] # None
          BY <1>2, <5>1, CachedOwn, Zenon DEF Owned
        <5> QED
          BY <3>2, <4>1, <4>3, <5>2, Zenon DEF SyncDiffers
      <4> QED
        BY <2>2, <4>2, <4>3, Zenon
    <3> QED
      BY <3>1, <3>2, Zenon
  <2> QED
    BY <2>1, <2>2, Zenon
<1>7. \A d \in Addrs : conn'[d] = conn[d]
  BY <1>1, Zenon
<1> QED
  BY <1>1, <1>4, <1>5, <1>6, <1>7, WriterMoves, Zenon

LEMMA EndWriter ==
  ASSUME IInv, NEW t \in Threads, NEW x \in Boxes,
         ReadHit(t) \/ ReadNone(t) \/ ReadMiss(t) \/ Merged(t)
  PROVE  WriterKeepsOf(x)'
<1> DEFINE c == call[t].c
<1>1. /\ call[t].at # "idle" /\ (call[t].v = None \/ call[t].at = "merged")
      /\ Return(t) /\ UNCHANGED <<props, writer>>
  BY SettledBusy, Zenon DEF ReadHit, ReadNone, ReadMiss, Merged, At
<1>2. Local(t)
  BY EndLocal, ReadMissLocal, Zenon
<1>3. call'[t] = NoCall
  BY <1>1, ReturnCall, Zenon
<1>4. \A d \in Addrs : ~WritingNext(t, d) /\ ~Writing(t, d)
  BY <1>1, <1>3 DEF Writing, WritingNext, NoCall, Call
<1>5. c \in Addrs
  BY <1>1, Active, Zenon
<1>6. \A d \in Addrs : cache'[d] = cache[d] \/ (props[x] # None => cache[d] # props[x].at)
  <2>1. CASE ReadMiss(t)
    <3>1. cache[c] = None /\ \E b \in Addrs : cache' = [cache EXCEPT ![c] = b]
      BY <2>1, Zenon DEF ReadMiss
    <3>2. props[x] # None => props[x].at # None
      BY ObjectsAssumption DEF IInv, TypeOK
    <3> QED
      BY <1>5, <3>1, <3>2, Zenon DEF IInv, TypeOK
  <2>2. CASE ~ReadMiss(t)
    BY <2>2, Zenon DEF ReadHit, ReadNone, Merged
  <2> QED
    BY <2>1, <2>2, Zenon
<1> QED
  BY <1>1, <1>2, <1>4, <1>6, WriterMoves, ZenonT(30) DEF Local

LEMMA WrittenWriter ==
  ASSUME IInv, NEW t \in Threads, NEW x \in Boxes, Written(t)
  PROVE  WriterKeepsOf(x)'
<1> DEFINE c == call[t].c
           w == writer[x]
           u == conn[w].own
<1> SUFFICES ASSUME props[x] # None, writer[x] # None PROVE WriterKeepsOf(x)'
  BY Zenon DEF WriterKeepsOf, Written
<1>1. /\ UNCHANGED <<conn, props, writer>> /\ Return(t) /\ Settled(t) /\ call[t].v # None
      /\ cache' = [cache EXCEPT ![c] = call[t].v]
  BY Zenon DEF Written
<1>2. /\ w \in Addrs /\ conn[w] # None /\ conn[w].ts = x /\ u \in Threads
      /\ IF Writing(u, w) THEN call[u].v = props[x].at ELSE cache[w] = props[x].at
      /\ props[x].live
  BY WriterFacts, Zenon
<1>3. call'[t] = NoCall /\ \A r \in Threads \ {t} : call'[r] = call[r]
  BY <1>1, ReturnCall, Zenon
<1>4. c \in Addrs /\ conn[c].own = t
  BY <1>1, SettledBusy, Active, Zenon
<1>5. ~WritingNext(t, w)
  BY <1>3, SMTT(30) DEF WritingNext, NoCall, Call
<1>6. CASE w = c
  <2>1. Writing(t, w) /\ u = t
    BY <1>1, <1>4, <1>6, Zenon DEF Writing, Settled, At
  <2>2. cache'[w] = props[x].at
    BY <1>1, <1>2, <1>4, <1>6, <2>1, Zenon DEF IInv, TypeOK
  <2> QED
    BY <1>1, <1>2, <1>5, <2>1, <2>2, Zenon DEF WriterKeepsOf, Writing, WritingNext
<1>7. CASE w # c
  <2>1. cache'[w] = cache[w]
    BY <1>1, <1>7, Zenon DEF IInv, TypeOK
  <2>2. ~Writing(t, w)
    BY <1>7, Zenon DEF Writing
  <2>3. WritingNext(u, w) <=> Writing(u, w)
    BY <1>2, <1>3, <1>5, <2>2, Zenon DEF Writing, WritingNext
  <2>4. Writing(u, w) => call'[u].v = call[u].v
    BY <1>2, <1>3, <2>2, Zenon
  <2>5. WriterKeepsOf(x)
    BY Zenon DEF IInv, WriterKeeps, WriterKeepsOf
  <2> QED
    BY <1>1, <2>1, <2>3, <2>4, <2>5, WriterSame, Zenon
<1> QED
  BY <1>6, <1>7, Zenon

\* The thread's objects, and its calls, when it is in none.
LEMMA IdleWrites == ASSUME NEW t, Idle(t) PROVE \A c \in Addrs : ~Writing(t, c)
BY DEF Idle, NoCall, Call, Writing

LEMMA StartWriter ==
  ASSUME IInv, NEW t \in Threads, NEW x \in Boxes, NEW c \in Addrs, NEW v \in Addrs,
         Read(t, c) \/ Write(t, c, v) \/ Merge(t, c, v)
  PROVE  WriterKeepsOf(x)'
<1>1. Idle(t) /\ c \in held[t] /\ conn[c].ts \in Boxes /\ UNCHANGED <<conn, cache>>
  BY Zenon DEF Read, Write, Merge
<1>2. Local(t)
  BY StartLocal, Zenon
<1>3. \A d \in Addrs : ~Writing(t, d)
  BY <1>1, IdleWrites, Zenon
<1>4. CASE Read(t, c) \/ Merge(t, c, v)
  <2>1. UNCHANGED <<props, writer>>
    BY <1>4, ZenonT(30) DEF Read, Merge
  <2>2. call'[t] = Call("sync", c, None) \/ call'[t] = Call("merge", c, v)
    BY <1>4, Zenon DEF Read, Merge, IInv, TypeOK
  <2>3. \A d \in Addrs : ~WritingNext(t, d)
    BY <2>2 DEF WritingNext, Call
  <2> QED
    BY <1>1, <1>2, <1>3, <2>1, <2>3, WriterMoves, ZenonT(30) DEF Local
<1>5. CASE Write(t, c, v)
  <2>1. /\ props' = [props EXCEPT ![conn[c].ts] = Named(v)]
        /\ writer' = [writer EXCEPT ![conn[c].ts] = c]
        /\ call' = [call EXCEPT ![t] = Call("sync", c, v)]
    BY <1>5, Zenon DEF Write
  <2>2. call'[t] = Call("sync", c, v)
    BY <2>1, Zenon DEF IInv, TypeOK
  <2>3. call'[t].at = "sync" /\ call'[t].c = c /\ call'[t].v = v /\ v # None
    BY <2>2, ObjectsAssumption DEF Call
  <2>4. conn[c] # None /\ conn[c].own = t
    BY <1>1, Zenon DEF IInv, Refs, HeldOwn, Owned
  <2>5. CASE x = conn[c].ts
    <3>1. props'[x] = Named(v) /\ writer'[x] = c
      BY <2>1, <2>5, Zenon DEF IInv, TypeOK
    <3>2. props'[x].at = v /\ props'[x].live = TRUE
      BY <3>1 DEF Named
    <3>3. conn'[c] = conn[c]
      BY <1>1, Zenon
    <3> QED
      BY <2>3, <2>4, <2>5, <3>1, <3>2, <3>3, SMTT(30) DEF WriterKeepsOf, Writing
  <2>6. CASE x # conn[c].ts
    <3>1. props'[x] = props[x] /\ writer'[x] = writer[x]
      BY <2>1, <2>6, Zenon DEF IInv, TypeOK
    <3>2. WriterKeepsOf(x)
      BY Zenon DEF IInv, WriterKeeps, WriterKeepsOf
    <3>3. ASSUME props[x] # None, writer[x] # None
          PROVE  LET w == writer[x]
                     u == conn[w].own
                 IN  /\ conn'[w] = conn[w]
                     /\ WritingNext(u, w) <=> Writing(u, w)
                     /\ Writing(u, w) => call'[u].v = call[u].v
                     /\ ~Writing(u, w) => cache'[w] = cache[w]
      <4> DEFINE w == writer[x]
                 u == conn[w].own
      <4>1. w \in Addrs /\ u \in Threads /\ w # c
        BY <2>6, <3>3, WriterFacts, Zenon
      <4>2. ~WritingNext(t, w) /\ ~Writing(t, w)
        BY <1>3, <2>3, <4>1, Zenon DEF WritingNext
      <4>3. u # t => call'[u] = call[u]
        BY <1>2, <4>1, Zenon DEF Local
      <4>4. WritingNext(u, w) <=> Writing(u, w)
        BY <4>2, <4>3, Zenon DEF WritingNext, Writing
      <4> QED
        BY <1>1, <4>2, <4>3, <4>4, Zenon
    <3> QED
      BY <3>1, <3>2, <3>3, WriterSame, ZenonT(30)
  <2> QED
    BY <2>5, <2>6, Zenon
<1> QED
  BY <1>4, <1>5, Zenon

\* Thread t removes or replaces the property of c's box and its entry in c's local table.
LEMMA ClearWriter ==
  ASSUME IInv, NEW t \in Threads, NEW x \in Boxes, NEW c \in Addrs, conn[c].ts \in Boxes, Local(t),
         \A d \in Addrs : ~Writing(t, d) /\ ~WritingNext(t, d),
         cache' = [cache EXCEPT ![c] = None],
         NEW p, props' = [props EXCEPT ![conn[c].ts] = p],
         writer' = [writer EXCEPT ![conn[c].ts] = None]
  PROVE  WriterKeepsOf(x)'
<1>1. CASE x = conn[c].ts
  BY <1>1, Zenon DEF WriterKeepsOf, IInv, TypeOK
<1>2. CASE x # conn[c].ts
  <2>1. props'[x] = props[x] /\ writer'[x] = writer[x]
    BY <1>2, Zenon DEF IInv, TypeOK
  <2>2. \A d \in Addrs : cache'[d] = cache[d] \/ conn[d].ts # x
    BY <1>2, Zenon DEF IInv, TypeOK
  <2> QED
    BY <2>1, <2>2, WriterMoves, Zenon DEF Local
<1> QED
  BY <1>1, <1>2, Zenon

LEMMA MergeCopiesWriter ==
  ASSUME IInv, NEW t \in Threads, NEW x \in Boxes, NEW overwrite \in BOOLEAN,
         MergeCopies(t, overwrite)
  PROVE  WriterKeepsOf(x)'
<1> DEFINE c == call[t].c
<1>1. call[t].at = "merge" /\ Goto(t, "merged") /\ UNCHANGED <<conn, held>>
  BY Zenon DEF MergeCopies, At
<1>2. Local(t)
  BY MergeCopiesLocal, Zenon
<1>3. call'[t].at = "merged"
  BY <1>1, GotoCall, Zenon
<1>4. \A d \in Addrs : ~Writing(t, d) /\ ~WritingNext(t, d)
  BY <1>1, <1>3, Zenon DEF Writing, WritingNext
<1>5. c \in Addrs /\ conn[c].ts \in Boxes
  BY <1>1, Active, Zenon DEF Cell
<1>6. CASE UNCHANGED <<props, writer, cache>>
  BY <1>2, <1>4, <1>6, WriterMoves, Zenon DEF Local
<1>7. CASE ~UNCHANGED <<props, writer, cache>>
  <2>1. /\ cache' = [cache EXCEPT ![c] = None]
        /\ props' = [props EXCEPT ![conn[c].ts] = props[conn[call[t].v].ts]]
        /\ writer' = [writer EXCEPT ![conn[c].ts] = None]
    BY <1>7, Zenon DEF MergeCopies, Cell
  <2> QED
    BY <1>2, <1>4, <1>5, <2>1, ClearWriter, Zenon
<1> QED
  BY <1>6, <1>7, Zenon

LEMMA FreeRestWriter ==
  ASSUME IInv, NEW t \in Threads, NEW x \in Boxes, FreeRest(t)
  PROVE  WriterKeepsOf(x)'
<1> DEFINE a == freeing
           w == writer[x]
           u == conn[w].own
<1>1. /\ a # None /\ a = dead[t] /\ UNCHANGED <<held, call>>
      /\ props' = TablesWithout(a)
      /\ writer' = [y \in Boxes |-> IF writer[y] = a \/ props'[y] = None THEN None ELSE writer[y]]
      /\ conn' = [conn EXCEPT ![a] = None] /\ cache' = [cache EXCEPT ![a] = None]
  BY ZenonT(30) DEF FreeRest
<1> SUFFICES ASSUME props'[x] # None, writer'[x] # None PROVE WriterKeepsOf(x)'
  BY Zenon DEF WriterKeepsOf
<1>2. writer'[x] = w /\ w # a /\ w # None
  BY <1>1, Zenon
<1>3. props[x] # None
  BY <1>1, Zenon DEF TablesWithout, Names
<1>4. w \in Addrs /\ conn[w] # None
  BY <1>2, <1>3, WriterFacts, Zenon
<1>5. Unreferenced(a, held, cache) /\ ~Unreferenced(props[x].at, held, cache)
  BY <1>1, <1>2, <1>3, WriterRefers, Zenon DEF IInv, Refs, DeadUnreferenced
<1>6. ~Names(x, a)
  BY <1>5, Zenon DEF Names
<1>7. props'[x] = props[x]
  BY <1>1, <1>6, Zenon DEF TablesWithout
<1>8. conn'[w] = conn[w] /\ cache'[w] = cache[w]
  BY <1>1, <1>2, <1>4, Zenon DEF IInv, TypeOK
<1>9. WriterKeepsOf(x)
  BY Zenon DEF IInv, WriterKeeps, WriterKeepsOf
<1>10. WritingNext(u, w) <=> Writing(u, w)
  BY <1>1, Zenon DEF WritingNext, Writing
<1> QED
  BY <1>1, <1>2, <1>7, <1>8, <1>9, <1>10, WriterSame, ZenonT(30)

LEMMA WriterStep == ASSUME IInv, NEW t \in Threads, Step(t) PROVE WriterKeeps'
<1> SUFFICES ASSUME NEW x \in Boxes PROVE WriterKeepsOf(x)'
  BY Zenon DEF WriterKeeps, WriterKeepsOf
<1>1. ASSUME UNCHANGED <<props, writer, cache, call>>,
             \A a \in Addrs : conn[a] # None => conn'[a] = conn[a]
      PROVE  WriterKeepsOf(x)'
  <2>1. \A d \in Addrs : WritingNext(t, d) <=> Writing(t, d)
    BY <1>1, Zenon DEF WritingNext, Writing
  <2> QED
    BY <1>1, <2>1, WriterMoves, Zenon
<1>2. CASE Allocate(t) \/ (\E y \in Cells : Create(t, y)) \/ Receive(t)
  BY <1>1, <1>2, AllocateLocal, MakeLocal, Zenon DEF Allocate, Create, Receive, Local
<1>3. CASE \E a \in Addrs : Release(t, a)
  BY <1>1, <1>3, Zenon DEF Release
<1>4. CASE FreeLock(t)
  BY <1>1, <1>4, Zenon DEF FreeLock
<1>5. ASSUME NEW c \in Addrs, Delete(t, c) PROVE WriterKeepsOf(x)'
  <2>1. Idle(t) /\ conn[c].ts \in Boxes /\ UNCHANGED call
    BY <1>5, Zenon DEF Delete
  <2>2. \A d \in Addrs : ~Writing(t, d) /\ ~WritingNext(t, d)
    BY <2>1, IdleWrites, Zenon DEF Writing, WritingNext
  <2>3. /\ cache' = [cache EXCEPT ![c] = None] /\ props' = [props EXCEPT ![conn[c].ts] = None]
        /\ writer' = [writer EXCEPT ![conn[c].ts] = None]
    BY <1>5, Zenon DEF Delete
  <2>4. Local(t)
    BY <1>5, DeleteLocal, Zenon
  <2> QED
    BY <2>1, <2>2, <2>3, <2>4, ClearWriter, Zenon
<1> QED
  BY <1>2, <1>3, <1>4, <1>5, SyncWriter, EndWriter, WrittenWriter, StartWriter,
     MergeCopiesWriter, FreeRestWriter, Zenon DEF Step, Use

-----------------------------------------------------------------------------
(* Types.                                                                      *)

TypeObjects ==
  /\ conn \in [Addrs -> {None} \cup [own : Threads, ts : Cells]]
  /\ resolve \in [Threads -> [Cells -> Addrs \cup {None}]]
  /\ refcount \in [Cells -> Nat]
  /\ freeing \in Addrs \cup {None}

TypeRegistry == registry \subseteq Addrs /\ making \in [Threads -> Addrs \cup {None}]

TypeRefs ==
  /\ cache \in [Addrs -> Addrs \cup {None}]
  /\ held \in [Threads -> SUBSET Addrs]
  /\ dead \in [Threads -> Addrs \cup {None}]
  /\ call \in [Threads -> [at : {"idle", "sync", "compare", "done", "merge", "merged"},
                           c : Addrs \cup {None}, v : Addrs \cup {None}]]

TypeRest ==
  /\ props \in [Boxes -> {None} \cup [at : Addrs, live : BOOLEAN]]
  /\ writer \in [Boxes -> Addrs \cup {None}]
  /\ table \subseteq Addrs
  /\ fresh \subseteq Addrs
  /\ monitor \in [Cells -> Threads \cup {None}]

LEMMA TypeParts == TypeOK <=> TypeObjects /\ TypeRegistry /\ TypeRefs /\ TypeRest
BY Zenon DEF TypeOK, TypeObjects, TypeRegistry, TypeRefs, TypeRest

LEMMA TypeObjectsStep == ASSUME IInv, NEW t \in Threads, Step(t) PROVE TypeObjects'
<1>0. TypeObjects
  BY TypeParts, Zenon DEF IInv
<1>1. CASE Quiet
  BY <1>0, <1>1, Zenon DEF TypeObjects, Quiet
<1>2. CASE \E x \in Cells, b \in Addrs : Adds(t, x, b) /\ freeing' = freeing
  BY <1>0, <1>2, SMTT(30) DEF TypeObjects, Adds
<1>3. CASE FreeLock(t)
  <2> DEFINE a == dead[t]
             x == conn[a].ts
  <2>1. a \in Addrs /\ x \in Cells /\ Counts(a, x)
    BY <1>3, DeadCounts, Zenon DEF FreeLock, Counted, Conns, Counts
  <2>2. refcount[x] # 0
    BY <2>1, Zenon DEF IInv, Numbers, ZeroMeansNone
  <2>3. refcount[x] - 1 \in Nat
    BY <1>0, <2>1, <2>2 DEF TypeObjects
  <2>4. refcount' = [refcount EXCEPT ![x] = @ - 1]
    BY <1>3, Zenon DEF FreeLock
  <2>5. refcount' \in [Cells -> Nat]
    BY <1>0, <2>3, <2>4, Zenon DEF TypeObjects
  <2>6. resolve' \in [Threads -> [Cells -> Addrs \cup {None}]]
    BY <1>0, <1>3, <2>1, Zenon DEF FreeLock, TypeObjects
  <2> QED
    BY <1>0, <1>3, <2>1, <2>5, <2>6, Zenon DEF FreeLock, TypeObjects
<1>4. CASE FreeRest(t)
  BY <1>0, <1>4, Zenon DEF FreeRest, Unregistered, TypeObjects
<1> QED
  BY <1>1, <1>2, <1>3, <1>4, Effects, Zenon

\* What a thread lets go of is an address.
LEMMA LetGoType ==
  ASSUME TypeRefs, NEW t \in Threads, NEW a \in Addrs \cup {None}, LetGo(t, a)
  PROVE  dead' \in [Threads -> Addrs \cup {None}]
BY Zenon DEF LetGo, TypeRefs

LEMMA TypeRefsStep == ASSUME IInv, NEW t \in Threads, Step(t) PROVE TypeRefs'
<1>0. TypeRefs
  BY TypeParts, Zenon DEF IInv
<1>1. CASE (\E x \in Cells : Create(t, x)) \/ Receive(t)
  <2>1. \E b \in Addrs : held' = [held EXCEPT ![t] = @ \cup {b}]
    BY <1>1, Zenon DEF Create, Receive, IInv, TypeOK
  <2>2. UNCHANGED <<cache, dead, call>>
    BY <1>1, Zenon DEF Create, Receive
  <2> QED
    BY <1>0, <2>1, <2>2 DEF TypeRefs
<1>2. CASE SyncGone(t) \/ SyncDiffers(t)
  <2>1. DropEntry(t) /\ call[t].at # "idle"
    BY <1>2, Zenon DEF SyncGone, SyncDiffers, At
  <2>2. call[t].c \in Addrs
    BY <2>1, Active, Zenon
  <2>3. dead' \in [Threads -> Addrs \cup {None}]
    BY <1>0, <2>1, <2>2, LetGoType, Zenon DEF DropEntry, TypeRefs
  <2> QED
    BY <1>0, <2>1, <2>2, <2>3, ZenonT(30) DEF DropEntry, TypeRefs, Goto
<1>3. CASE SyncValid(t) \/ SyncKeeps(t)
  <2>1. UNCHANGED <<held, cache, dead>> /\ \E s \in {"compare", "done"} : Goto(t, s)
    BY <1>3, Zenon DEF SyncValid, SyncKeeps
  <2> QED
    BY <1>0, <2>1 DEF TypeRefs, Goto
<1>4. CASE ReadHit(t)
  <2>0. call[t].at # "idle" /\ cache[call[t].c] # None
    BY <1>4, SettledBusy, Zenon DEF ReadHit
  <2>1. call[t].c \in Addrs /\ cache[call[t].c] \in Addrs
    BY <1>0, <2>0, Active DEF TypeRefs
  <2> QED
    BY <1>0, <1>4, <2>1, ObjectsAssumption, Zenon DEF ReadHit, TypeRefs, Return, NoCall, Call
<1>5. CASE ReadNone(t) \/ Merged(t)
  BY <1>0, <1>5 DEF ReadNone, Merged, TypeRefs, Return, NoCall, Call
<1>6. CASE ReadMiss(t)
  <2>1. call[t].c \in Addrs
    BY <1>6, Active, SettledBusy, Zenon DEF ReadMiss
  <2>2. PICK b \in Addrs : /\ held' = [held EXCEPT ![t] = @ \cup {b}]
                           /\ cache' = [cache EXCEPT ![call[t].c] = b]
    BY <1>6, Zenon DEF ReadMiss
  <2>3. Return(t) /\ UNCHANGED dead
    BY <1>6, Zenon DEF ReadMiss
  <2> QED
    BY <1>0, <2>1, <2>2, <2>3, Zenon DEF TypeRefs, Return, NoCall, Call
<1>7. CASE Written(t)
  <2>1. call[t].c \in Addrs /\ call[t].v \in Addrs
    BY <1>7, Active, SettledBusy, Zenon DEF Written
  <2>2. dead' \in [Threads -> Addrs \cup {None}]
    BY <1>0, <1>7, <2>1, LetGoType, Zenon DEF Written, TypeRefs
  <2> QED
    BY <1>0, <1>7, <2>1, <2>2, Zenon DEF Written, TypeRefs, Return, NoCall, Call
<1>8. CASE \E c, v \in Addrs : Read(t, c) \/ Write(t, c, v) \/ Merge(t, c, v)
  <2>1. PICK c, v \in Addrs : Read(t, c) \/ Write(t, c, v) \/ Merge(t, c, v)
    BY <1>8, Zenon
  <2>2. \E s \in {"sync", "merge"}, w \in {v, None} : call' = [call EXCEPT ![t] = Call(s, c, w)]
    BY <2>1, Zenon DEF Read, Write, Merge
  <2>3. UNCHANGED <<held, cache, dead>>
    BY <2>1, Zenon DEF Read, Write, Merge
  <2> QED
    BY <1>0, <2>2, <2>3 DEF TypeRefs, Call
<1>9. CASE \E c \in Addrs : Delete(t, c) \/ Release(t, c)
  <2>1. PICK c \in Addrs : Delete(t, c) \/ Release(t, c)
    BY <1>9, Zenon
  <2>2. dead' \in [Threads -> Addrs \cup {None}]
    BY <1>0, <2>1, LetGoType, Zenon DEF Delete, Release, TypeRefs
  <2> QED
    BY <1>0, <2>1, <2>2, Zenon DEF Delete, Release, TypeRefs
<1>10. CASE \E overwrite \in BOOLEAN : MergeCopies(t, overwrite)
  <2>1. PICK overwrite \in BOOLEAN : MergeCopies(t, overwrite)
    BY <1>10, Zenon
  <2>2. Goto(t, "merged") /\ UNCHANGED held /\ call[t].c \in Addrs
    BY <2>1, Active, Zenon DEF MergeCopies, At
  <2>3. \/ UNCHANGED <<cache, dead>>
        \/ cache' = [cache EXCEPT ![call[t].c] = None] /\ LetGo(t, cache[call[t].c])
    BY <2>1, Zenon DEF MergeCopies
  <2>4. dead' \in [Threads -> Addrs \cup {None}]
    BY <1>0, <2>2, <2>3, LetGoType, Zenon DEF TypeRefs
  <2>5. cache' \in [Addrs -> Addrs \cup {None}]
    BY <1>0, <2>2, <2>3, Zenon DEF TypeRefs
  <2>6. call' \in [Threads -> [at : {"idle", "sync", "compare", "done", "merge", "merged"},
                               c : Addrs \cup {None}, v : Addrs \cup {None}]]
    BY <1>0, <2>2 DEF TypeRefs, Goto
  <2> QED
    BY <1>0, <2>2, <2>4, <2>5, <2>6, Zenon DEF TypeRefs
<1>11. CASE FreeLock(t)
  BY <1>0, <1>11, Zenon DEF FreeLock, TypeRefs
<1>12. CASE FreeRest(t)
  <2>1. freeing \in Addrs
    BY <1>12, Zenon DEF FreeRest, IInv, TypeOK
  <2> QED
    BY <1>0, <1>12, <2>1, Zenon DEF FreeRest, TypeRefs
<1>13. CASE Allocate(t)
  BY <1>0, <1>13, Zenon DEF Allocate, TypeRefs
<1> QED
  BY <1>1, <1>2, <1>3, <1>4, <1>5, <1>6, <1>7, <1>8, <1>9, <1>10, <1>11, <1>12, <1>13, Zenon
  DEF Step, Use

LEMMA TypeRestStep == ASSUME IInv, NEW t \in Threads, Step(t) PROVE TypeRest'
<1>0. TypeRest
  BY TypeParts, Zenon DEF IInv
<1>1. CASE (\E x \in Cells : Create(t, x)) \/ Receive(t)
  <2>1. UNCHANGED <<props, writer, table, fresh, monitor>>
    BY <1>1, Zenon DEF Create, Receive, locks
  <2> QED
    BY <1>0, <2>1, Zenon DEF TypeRest
<1>2. CASE SyncGone(t) \/ SyncDiffers(t) \/ SyncKeeps(t) \/ SyncValid(t)
  <2>1. call[t].c \in Addrs
    BY <1>2, Active, Zenon DEF SyncGone, SyncDiffers, SyncKeeps, SyncValid, At
  <2>2. UNCHANGED <<props, writer, table, monitor>>
    BY <1>2, Zenon DEF SyncGone, SyncDiffers, SyncKeeps, SyncValid, DropEntry, locks
  <2>3. fresh' \in {fresh, fresh \cup {call[t].c}}
    BY <1>2, Zenon DEF SyncGone, SyncDiffers, SyncKeeps, SyncValid, DropEntry
  <2> QED
    BY <1>0, <2>1, <2>2, <2>3, Zenon DEF TypeRest
<1>3. CASE ReadHit(t) \/ ReadNone(t) \/ ReadMiss(t) \/ Written(t) \/ Merged(t)
  <2>1. call[t].c \in Addrs /\ Unlock(t) /\ UNCHANGED <<props, writer>>
    <3>1. Unlock(t) /\ UNCHANGED <<props, writer>> /\ (Settled(t) \/ At(t, "merged"))
      BY <1>3, Zenon DEF ReadHit, ReadNone, ReadMiss, Written, Merged
    <3> QED
      BY <3>1, Active, SettledBusy, Zenon
  <2>2. table' \in {table, table \cup {call[t].c}} /\ fresh' \in {fresh, FreshNow(t)}
    BY <1>3, Zenon DEF ReadHit, ReadNone, ReadMiss, Written, Merged
  <2>3. table' \subseteq Addrs /\ fresh' \subseteq Addrs
    BY <1>0, <2>1, <2>2, Zenon DEF FreshNow, TypeRest
  <2> QED
    BY <1>0, <2>1, <2>3, Zenon DEF TypeRest, Unlock
<1>4. CASE \E c \in Addrs : Read(t, c) \/ Delete(t, c) \/ Release(t, c)
  <2>1. PICK c \in Addrs : Read(t, c) \/ Delete(t, c) \/ Release(t, c)
    BY <1>4, Zenon
  <2>2. CASE Read(t, c) \/ Release(t, c)
    BY <1>0, <2>2, SMTT(30) DEF Read, Release, Cells, locks, TypeRest
  <2>3. CASE Delete(t, c)
    BY <1>0, <2>3, Zenon DEF Delete, FreshAfter, locks, TypeRest
  <2> QED
    BY <2>1, <2>2, <2>3, Zenon
<1>5. CASE \E c, v \in Addrs : Write(t, c, v) \/ Merge(t, c, v)
  <2>1. PICK c, v \in Addrs : Write(t, c, v) \/ Merge(t, c, v)
    BY <1>5, Zenon
  <2>2. conn[c].ts \in Boxes /\ monitor' = [monitor EXCEPT ![conn[c].ts] = t] /\ UNCHANGED table
    BY <2>1, Zenon DEF Write, Merge
  <2>3. \/ UNCHANGED <<props, writer, fresh>>
        \/ /\ props' = [props EXCEPT ![conn[c].ts] = Named(v)]
           /\ writer' = [writer EXCEPT ![conn[c].ts] = c]
           /\ fresh' = FreshAfter(c, conn[c].ts)
    BY <2>1, Zenon DEF Write, Merge
  <2>4. Named(v) \in [at : Addrs, live : BOOLEAN]
    BY Zenon DEF Named
  <2>5. fresh' \subseteq Addrs
    BY <1>0, <2>3, Zenon DEF FreshAfter, TypeRest
  <2> QED
    BY <1>0, <2>2, <2>3, <2>4, <2>5, Zenon DEF Cells, TypeRest
<1>6. CASE \E overwrite \in BOOLEAN : MergeCopies(t, overwrite)
  <2>1. PICK overwrite \in BOOLEAN : MergeCopies(t, overwrite)
    BY <1>6, Zenon
  <2> DEFINE y == conn[call[t].v].ts
  <2>2. y \in Boxes /\ Cell(t) \in Boxes
    BY <2>1, Active, Zenon DEF MergeCopies, At, IInv, Refs, CallHeld
  <2>3. monitor' = [monitor EXCEPT ![y] = t] /\ UNCHANGED table
    BY <2>1, Zenon DEF MergeCopies
  <2>4. \/ UNCHANGED <<props, writer, fresh>>
        \/ /\ props' = [props EXCEPT ![Cell(t)] = props[y]]
           /\ writer' = [writer EXCEPT ![Cell(t)] = None]
           /\ fresh' = FreshAfter(call[t].c, Cell(t))
    BY <2>1, Zenon DEF MergeCopies
  <2> HIDE DEF y
  <2> QED
    BY <1>0, <2>2, <2>3, <2>4, Zenon DEF TypeRest, FreshAfter, Cells
<1>7. CASE FreeLock(t)
  BY <1>0, <1>7, Zenon DEF FreeLock, TypeRest
<1>8. CASE FreeRest(t)
  <2>1. /\ props' = TablesWithout(freeing)
        /\ writer' = [y \in Boxes |-> IF writer[y] = freeing \/ props'[y] = None
                                      THEN None ELSE writer[y]]
        /\ table' = table \ {freeing} /\ fresh' = fresh \ {freeing} /\ UNCHANGED monitor
    BY <1>8, Zenon DEF FreeRest
  <2>2. props' \in [Boxes -> {None} \cup [at : Addrs, live : BOOLEAN]]
    <3>1. ASSUME NEW x \in Boxes, props[x] # None
          PROVE  [props[x] EXCEPT !.live = FALSE] \in [at : Addrs, live : BOOLEAN]
      BY <1>0, <3>1, Zenon DEF TypeRest
    <3> QED
      BY <1>0, <2>1, <3>1, Zenon DEF TablesWithout, Names, TypeRest
  <2> QED
    BY <1>0, <2>1, <2>2, Zenon DEF TypeRest
<1>9. CASE Allocate(t)
  BY <1>0, <1>9, Zenon DEF Allocate, TypeRest, locks
<1> QED
  BY <1>1, <1>2, <1>3, <1>4, <1>5, <1>6, <1>7, <1>8, <1>9, Zenon DEF Step, Use

\* What thread t does to the registry: it allocates, makes an object, connects, or frees.
LEMMA RegistryEffects ==
  ASSUME IInv, NEW t \in Threads, Step(t)
  PROVE  \/ \E a \in Unused : /\ registry' = registry \cup {a}
                              /\ making' = [making EXCEPT ![t] = a]
                              /\ UNCHANGED conn
         \/ /\ making[t] # None /\ making' = [making EXCEPT ![t] = None]
            /\ \E x \in Cells : conn' = [conn EXCEPT ![making[t]] = [own |-> t, ts |-> x]]
            /\ UNCHANGED registry
         \/ \E b \in Unused, x \in Cells :
               /\ registry' = registry \cup {b}
               /\ conn' = [conn EXCEPT ![b] = [own |-> t, ts |-> x]]
               /\ UNCHANGED making
         \/ /\ freeing # None
            /\ registry' = registry \ {freeing} /\ conn' = [conn EXCEPT ![freeing] = None]
            /\ UNCHANGED making
         \/ UNCHANGED <<registry, conn, making>>
<1>1. CASE Allocate(t)
  BY <1>1, Zenon DEF Allocate
<1>2. CASE \E x \in Cells : Create(t, x)
  BY <1>2, Zenon DEF Create
<1>3. ASSUME NEW a \in Addrs, NEW b \in Addrs, conn[a] # None, Connected(t, a, b)
      PROVE  \/ \E x \in Cells : /\ b \in Unused /\ registry' = registry \cup {b}
                                 /\ conn' = [conn EXCEPT ![b] = [own |-> t, ts |-> x]]
             \/ UNCHANGED <<registry, conn>>
  <2>1. conn[a].ts \in Cells
    BY <1>3, Zenon DEF IInv, TypeOK
  <2> QED
    BY <1>3, <2>1, Zenon DEF Connected
<1>4. CASE Receive(t)
  <2>1. PICK u \in Threads \ {t} : \E a \in held[u], b \in Addrs : Connected(t, a, b)
    BY <1>4, Zenon DEF Receive
  <2>2. PICK a \in held[u], b \in Addrs : Connected(t, a, b)
    BY <2>1, Zenon
  <2>3. a \in Addrs /\ conn[a] # None
    BY Zenon DEF IInv, Refs, HeldOwn, Owned
  <2> QED
    BY <1>3, <1>4, <2>2, <2>3, Zenon DEF Receive
<1>5. CASE ReadMiss(t)
  <2> DEFINE a == props[Cell(t)].at
  <2>1. call[t].at # "idle" /\ props[Cell(t)] # None /\ conn[a] # None
    BY <1>5, Zenon DEF ReadMiss, Settled, At
  <2>2. a \in Addrs
    BY <2>1, Active DEF IInv, TypeOK
  <2>3. PICK b \in Addrs : Connected(t, a, b)
    BY <1>5, Zenon DEF ReadMiss
  <2> QED
    BY <1>3, <1>5, <2>1, <2>2, <2>3, Zenon DEF ReadMiss
<1>6. CASE FreeRest(t)
  BY <1>6, Zenon DEF FreeRest, Unregistered
<1>7. CASE SyncGone(t) \/ SyncValid(t) \/ SyncKeeps(t) \/ SyncDiffers(t)
  BY <1>7, Zenon DEF SyncGone, SyncValid, SyncKeeps, SyncDiffers, DropEntry
<1>8. CASE ReadHit(t) \/ ReadNone(t) \/ Written(t) \/ Merged(t) \/ FreeLock(t)
  BY <1>8, Zenon DEF ReadHit, ReadNone, Written, Merged, FreeLock
<1>9. CASE \E c \in Addrs : Read(t, c) \/ Delete(t, c) \/ Release(t, c)
  BY <1>9, Zenon DEF Read, Delete, Release
<1>10. CASE \E c, v \in Addrs : Write(t, c, v) \/ Merge(t, c, v)
  BY <1>10, Zenon DEF Write, Merge
<1>11. CASE \E overwrite \in BOOLEAN : MergeCopies(t, overwrite)
  BY <1>11, Zenon DEF MergeCopies
<1> QED
  BY <1>1, <1>2, <1>4, <1>5, <1>6, <1>7, <1>8, <1>9, <1>10, <1>11, Zenon
  DEF Step, Use

LEMMA RegistryStep ==
  ASSUME IInv, NEW t \in Threads, Step(t)
  PROVE  TypeRegistry' /\ Registered'
<1>0. TypeRegistry /\ Registered /\ conn \in [Addrs -> {None} \cup [own : Threads, ts : Cells]]
  BY Zenon DEF IInv, TypeOK, TypeRegistry
<1>1. \A x \in Cells : [own |-> t, ts |-> x] # None
  BY ObjectsAssumption
<1>2. ASSUME NEW a \in Unused, registry' = registry \cup {a},
             making' = [making EXCEPT ![t] = a], UNCHANGED conn
      PROVE  TypeRegistry' /\ Registered'
  BY <1>0, <1>2, ObjectsAssumption DEF TypeRegistry, Registered, Unused
<1>3. ASSUME NEW x \in Cells, making[t] # None, making' = [making EXCEPT ![t] = None],
             conn' = [conn EXCEPT ![making[t]] = [own |-> t, ts |-> x]], UNCHANGED registry
      PROVE  TypeRegistry' /\ Registered'
  BY <1>0, <1>1, <1>3, ObjectsAssumption DEF TypeRegistry, Registered
<1>4. ASSUME NEW b \in Unused, NEW x \in Cells, registry' = registry \cup {b},
             conn' = [conn EXCEPT ![b] = [own |-> t, ts |-> x]], UNCHANGED making
      PROVE  TypeRegistry' /\ Registered'
  BY <1>0, <1>1, <1>4, ObjectsAssumption DEF TypeRegistry, Registered, Unused
<1>5. ASSUME freeing # None, registry' = registry \ {freeing},
             conn' = [conn EXCEPT ![freeing] = None], UNCHANGED making
      PROVE  TypeRegistry' /\ Registered'
  <2>1. freeing \in Addrs /\ conn[freeing] # None
    BY <1>5, Zenon DEF IInv, TypeOK, Refs, FreeingDead, Owned
  <2> QED
    BY <1>0, <1>5, <2>1, ObjectsAssumption DEF TypeRegistry, Registered
<1>6. CASE UNCHANGED <<registry, conn, making>>
  BY <1>0, <1>6, Zenon DEF TypeRegistry, Registered
<1> QED
  BY <1>2, <1>3, <1>4, <1>5, <1>6, RegistryEffects, Zenon

LEMMA TypeStep == ASSUME IInv, NEW t \in Threads, Step(t) PROVE TypeOK'
<1>1. TypeObjects' /\ TypeRegistry' /\ TypeRefs' /\ TypeRest'
  BY TypeObjectsStep, RegistryStep, TypeRefsStep, TypeRestStep, Zenon
<1> QED
  BY <1>1, Zenon DEF TypeOK, TypeObjects, TypeRegistry, TypeRefs, TypeRest

-----------------------------------------------------------------------------
(* Counts and connections.                                                     *)

LEMMA CountedFinite == \A x : IsFiniteSet(Counted(x)) /\ Cardinality(Counted(x)) \in Nat
<1> TAKE x
<1>1. Counted(x) \subseteq Addrs
  BY Zenon DEF Counted, Conns
<1>2. IsFiniteSet(Counted(x))
  BY <1>1, ObjectsAssumption, FS_Subset, Zenon
<1> QED
  BY <1>2, FS_CardinalityType, Zenon

\* Exact counts are zero only without connections.
LEMMA CountsZero == RefcountExact => ZeroMeansNone
<1> SUFFICES ASSUME RefcountExact, NEW x \in Cells
             PROVE  refcount[x] = 0 <=> \A a \in Addrs : ~Counts(a, x)
  BY Zenon DEF ZeroMeansNone
<1>1. Counted(x) = {} <=> \A a \in Addrs : ~Counts(a, x)
  BY Zenon DEF Counted, Conns, Counts
<1>2. Cardinality(Counted(x)) = 0 <=> Counted(x) = {}
  BY CountedFinite, FS_EmptySet, Zenon
<1> QED
  BY <1>1, <1>2, Zenon DEF RefcountExact

LEMMA CountsZeroNext == RefcountExact' => ZeroMeansNone'
BY CountsZero, PTL

LEMMA InitIInv == Init => IInv
<1> SUFFICES ASSUME Init PROVE IInv
  BY Zenon
<1>1. TypeOK
  BY ObjectsAssumption, Zenon DEF Init, TypeOK, NoCall, Call, Cells
<1>2. Registered /\ MakingIdle /\ ResolvedOne
  BY ObjectsAssumption, Zenon DEF Init, Registered, MakingIdle, ResolvedOne, Counts, Cells
<1>3. RefcountExact
  <2>1. ASSUME NEW x \in Cells PROVE refcount[x] = Cardinality(Counted(x))
    <3>1. Counted(x) = {}
      BY Zenon DEF Init, Counted, Conns
    <3> QED
      BY <3>1, FS_EmptySet, Zenon DEF Init
  <2> QED
    BY <2>1, Zenon DEF RefcountExact
<1>4. Refs
  BY ObjectsAssumption, Zenon
     DEF Init, Refs, HeldOwn, CacheOwn, DeadUnreferenced, FreeingDead, CallHeld, NoCall, Call
<1>5. MonitorHeld /\ WriterKeeps
  BY Zenon DEF Init, MonitorHeld, WriterKeeps
<1> QED
  BY <1>1, <1>2, <1>3, <1>4, <1>5, CountsZero, Zenon DEF IInv, Numbers

LEMMA QuietNumbers == ASSUME Numbers, Quiet PROVE Numbers'
<1>1. ResolvedOne'
  BY DEF Numbers, Quiet, ResolvedOne, Counts
<1>2. \A x : Counted(x)' = Counted(x)
  BY Zenon DEF Quiet, Counted, Conns
<1>3. RefcountExact'
  BY <1>2, Zenon DEF Numbers, Quiet, RefcountExact
<1> QED
  BY <1>1, <1>3, CountsZeroNext, Zenon DEF Numbers

LEMMA AddsNumbers ==
  ASSUME IInv, NEW t \in Threads, NEW x \in Cells, NEW b \in Addrs,
         Adds(t, x, b), freeing' = freeing
  PROVE  Numbers'
<1> DEFINE new == [own |-> t, ts |-> x]
<1>1. new # None /\ b # None
  BY ObjectsAssumption
<1>2. \A a \in Addrs : conn'[a] = IF a = b THEN new ELSE conn[a]
  BY Zenon DEF Adds, IInv, TypeOK
<1>3. b # freeing /\ freeing' = freeing
  BY <1>1, Zenon DEF Adds, IInv, Refs, FreeingDead, Owned
<1>4. \A u \in Threads, y \in Cells :
        resolve'[u][y] = IF u = t /\ y = x THEN b ELSE resolve[u][y]
  BY Zenon DEF Adds, IInv, TypeOK
<1>5. ResolvedOne'
  <2> SUFFICES ASSUME NEW u \in Threads, NEW y \in Cells, NEW a \in Addrs
               PROVE  (Counts(a, y)' /\ conn'[a].own = u) <=> resolve'[u][y] = a
    BY Zenon DEF ResolvedOne
  <2>1. (Counts(a, y) /\ conn[a].own = u) <=> resolve[u][y] = a
    BY Zenon DEF IInv, Numbers, ResolvedOne
  <2>2. CASE a = b
    BY <1>1, <1>2, <1>3, <1>4, <2>1, <2>2, SMTT(30) DEF Counts, Adds
  <2>3. CASE a # b
    BY <1>1, <1>2, <1>3, <1>4, <2>1, <2>3, ObjectsAssumption, SMTT(30) DEF Counts, Adds
  <2> QED
    BY <2>2, <2>3, Zenon
<1>6. RefcountExact'
  <2> SUFFICES ASSUME NEW y \in Cells
               PROVE  refcount'[y] = Cardinality(Counted(y)')
    BY Zenon DEF RefcountExact
  <2>1. refcount[y] = Cardinality(Counted(y))
    BY Zenon DEF IInv, Numbers, RefcountExact
  <2>2. CASE y = x
    <3>1. Counted(y)' = Counted(y) \cup {b} /\ b \notin Counted(y)
      BY <1>1, <1>2, <1>3, <2>2 DEF Counted, Conns, Adds
    <3>2. refcount'[y] = refcount[y] + 1
      BY <2>2, Zenon DEF Adds, IInv, TypeOK
    <3>3. Cardinality(Counted(y) \cup {b}) = Cardinality(Counted(y)) + 1
      BY <3>1, CountedFinite, FS_AddElement, Zenon
    <3> QED
      BY <2>1, <3>1, <3>2, <3>3, Zenon
  <2>3. CASE y # x
    <3>1. Counted(y)' = Counted(y)
      BY <1>1, <1>2, <1>3, <2>3 DEF Counted, Conns, Adds
    <3>2. refcount'[y] = refcount[y]
      BY <2>3, Zenon DEF Adds, IInv, TypeOK
    <3> QED
      BY <2>1, <3>1, <3>2, Zenon
  <2> QED
    BY <2>2, <2>3, Zenon
<1> QED
  BY <1>5, <1>6, CountsZeroNext, Zenon DEF Numbers

LEMMA FreeLockNumbers ==
  ASSUME IInv, NEW t \in Threads, FreeLock(t)
  PROVE  Numbers'
<1> DEFINE a == dead[t]
           x == conn[a].ts
<1>0. freeing = None /\ freeing' = a /\ UNCHANGED conn
  BY Zenon DEF FreeLock, GlobalsFree
<1>1. a \in Addrs /\ conn[a] # None /\ conn[a].own = t /\ x \in Cells /\ a \in Counted(x)
      /\ resolve[t][x] = a
  BY DeadCounts, Zenon DEF FreeLock
<1>2. resolve' = [resolve EXCEPT ![t][x] = None]
  BY <1>1, Zenon DEF FreeLock
<1>3. \A u \in Threads, y \in Cells :
        resolve'[u][y] = IF u = t /\ y = x THEN None ELSE resolve[u][y]
  BY <1>1, <1>2, Zenon DEF IInv, TypeOK
<1> HIDE DEF a, x
<1>4. ResolvedOne'
  <2> SUFFICES ASSUME NEW u \in Threads, NEW y \in Cells, NEW d \in Addrs
               PROVE  (Counts(d, y)' /\ conn'[d].own = u) <=> resolve'[u][y] = d
    BY Zenon DEF ResolvedOne
  <2>1. (Counts(d, y) /\ conn[d].own = u) <=> resolve[u][y] = d
    BY Zenon DEF IInv, Numbers, ResolvedOne
  <2>2. (Counts(a, y) /\ conn[a].own = u) <=> resolve[u][y] = a
    BY <1>1, Zenon DEF IInv, Numbers, ResolvedOne
  <2>3. d # None
    BY ObjectsAssumption, Zenon
  <2>4. conn[a].ts = x
    BY Zenon DEF x
  <2> QED
    BY <1>0, <1>1, <1>3, <2>1, <2>2, <2>3, <2>4 DEF Counts
<1>5. RefcountExact'
  <2> SUFFICES ASSUME NEW y \in Cells
               PROVE  refcount'[y] = Cardinality(Counted(y)')
    BY Zenon DEF RefcountExact
  <2>1. refcount[y] = Cardinality(Counted(y))
    BY Zenon DEF IInv, Numbers, RefcountExact
  <2>2. refcount' = [refcount EXCEPT ![x] = @ - 1]
    BY Zenon DEF FreeLock, a, x
  <2>3. CASE y = x
    <3>1. Counted(y)' = Counted(y) \ {a}
      BY <1>0, <1>1, <2>3, ObjectsAssumption, Zenon DEF Counted, Conns
    <3>2. refcount'[y] = refcount[y] - 1
      BY <2>2, <2>3, Zenon DEF IInv, TypeOK
    <3>3. Cardinality(Counted(y) \ {a}) = Cardinality(Counted(y)) - 1
      BY <1>1, <2>3, CountedFinite, FS_RemoveElement, Zenon
    <3> QED
      BY <2>1, <3>1, <3>2, <3>3, Zenon
  <2>4. CASE y # x
    <3>1. Counted(y)' = Counted(y)
      <4>1. \A d \in Addrs : conn[d] # None /\ conn[d].ts = y => d # a
        BY <2>4, Zenon DEF a, x
      <4> QED
        BY <1>0, <4>1, ObjectsAssumption, Zenon DEF Counted, Conns
    <3>2. refcount'[y] = refcount[y]
      BY <2>2, <2>4, Zenon DEF IInv, TypeOK
    <3> QED
      BY <2>1, <3>1, <3>2, Zenon
  <2> QED
    BY <2>3, <2>4, Zenon
<1> QED
  BY <1>4, <1>5, CountsZeroNext, Zenon DEF Numbers

LEMMA FreeRestNumbers ==
  ASSUME IInv, NEW t \in Threads, FreeRest(t)
  PROVE  Numbers'
<1> DEFINE a == freeing
<1>1. a \in Addrs /\ conn[a] # None
  BY Zenon DEF FreeRest, IInv, TypeOK, Refs, FreeingDead, Owned
<1>2. \A d \in Addrs : conn'[d] = IF d = a THEN None ELSE conn[d]
  BY <1>1, Zenon DEF FreeRest, IInv, TypeOK
<1>3. freeing' = None /\ UNCHANGED <<resolve, refcount>>
  BY Zenon DEF FreeRest
<1>4. \A d \in Addrs : d # None
  BY ObjectsAssumption, Zenon
<1>5. ResolvedOne'
  <2> SUFFICES ASSUME NEW u \in Threads, NEW y \in Cells, NEW d \in Addrs
               PROVE  (Counts(d, y)' /\ conn'[d].own = u) <=> resolve'[u][y] = d
    BY Zenon DEF ResolvedOne
  <2>1. (Counts(d, y) /\ conn[d].own = u) <=> resolve[u][y] = d
    BY Zenon DEF IInv, Numbers, ResolvedOne
  <2> QED
    BY <1>2, <1>3, <1>4, <2>1, Zenon DEF Counts
<1>6. \A y : Counted(y)' = Counted(y)
  BY <1>2, <1>3, <1>4, Zenon DEF Counted, Conns
<1>7. RefcountExact'
  BY <1>3, <1>6, Zenon DEF RefcountExact, IInv, Numbers
<1> QED
  BY <1>5, <1>7, CountsZeroNext, Zenon DEF Numbers

LEMMA NumbersStep == ASSUME IInv, NEW t \in Threads, Step(t) PROVE Numbers'
BY Effects, QuietNumbers, AddsNumbers, FreeLockNumbers, FreeRestNumbers, Zenon DEF IInv

-----------------------------------------------------------------------------
(* The theorems.                                                               *)

LEMMA IInvStep == IInv /\ [Next]_vars => IInv'
<1> SUFFICES ASSUME IInv, [Next]_vars PROVE IInv'
  BY Zenon
<1>1. ASSUME NEW t \in Threads, Step(t) PROVE IInv'
  BY <1>1, TypeStep, RegistryStep, MakingStep, NumbersStep, RefsStep, MonitorStep, WriterStep,
     Zenon DEF IInv
<1>2. CASE UNCHANGED vars
  <2>1. TypeOK'
    BY <1>2, Zenon DEF vars, locks, IInv, TypeOK
  <2>2. Registered' /\ MakingIdle' /\ Numbers'
    BY <1>2, QuietNumbers, Zenon DEF vars, locks, IInv, Registered, MakingIdle, Quiet
  <2>3. HeldOwn' /\ CacheOwn' /\ FreeingDead' /\ CallHeld'
    BY <1>2, Zenon DEF vars, locks, IInv, Refs, HeldOwn, CacheOwn, FreeingDead, CallHeld, Owned
  <2>4. DeadUnreferenced'
    BY <1>2, Zenon DEF vars, locks, IInv, Refs, DeadUnreferenced, Owned, Unreferenced
  <2>5. MonitorHeld'
    BY <1>2, Zenon DEF vars, locks, IInv, MonitorHeld
  <2>6. WriterKeeps'
    BY <1>2, Zenon DEF vars, locks, IInv, WriterKeeps, Writing
  <2> QED
    BY <2>1, <2>2, <2>3, <2>4, <2>5, <2>6, Zenon DEF IInv, Refs
<1> QED
  BY <1>1, <1>2, Zenon DEF Next

\* In every reachable state the strengthened invariant of the object model holds.
THEOREM ObjectsInductive == Spec => []IInv
BY InitIInv, IInvStep, PTL DEF Spec

\* The count of every shared object is the number of connections that threads have to it,
\* with any number of threads that connect and free at the same time (++refcount in
\* pmmpthread_object_connect, --refcount in pmmpthread_base_free).
THEOREM RefcountAlwaysExact == Spec => []RefcountExact
<1>1. IInv => RefcountExact
  BY Zenon DEF IInv, Numbers
<1> QED
  BY <1>1, ObjectsInductive, PTL

\* No thread ever has two objects for one shared object, and its table of connections finds
\* the one it has (pmmpthread_object_connect, pmmpthread_base_free).
THEOREM AlwaysOneConnection == Spec => []OneConnection
<1>1. IInv => OneConnection
  <2> SUFFICES ASSUME IInv, NEW t \in Threads, NEW x \in Cells
               PROVE  {a \in Counted(x) : conn[a].own = t} = {resolve[t][x]} \ {None}
    BY Zenon DEF OneConnection
  <2>1. \A a \in Addrs : (Counts(a, x) /\ conn[a].own = t) <=> resolve[t][x] = a
    BY Zenon DEF IInv, Numbers, ResolvedOne
  <2>2. resolve[t][x] \in Addrs \cup {None}
    BY DEF IInv, TypeOK
  <2> QED
    BY <2>1, <2>2, ObjectsAssumption, Zenon DEF Counted, Counts, Conns
<1> QED
  BY <1>1, ObjectsInductive, PTL

\* A monitor is destroyed only when nobody holds it: whoever holds it has a variable that
\* counts (pmmpthread_ts_object_free, called when the count is zero).
THEOREM DestroyedAlwaysUnlocked == Spec => []DestroyedUnlocked
<1>1. IInv => DestroyedUnlocked
  <2> SUFFICES ASSUME IInv, NEW x \in Cells, refcount[x] = 0, monitor[x] # None PROVE FALSE
    BY Zenon DEF DestroyedUnlocked
  <2> DEFINE t == monitor[x]
  <2>1. t \in Threads /\ call[t].at # "idle"
    BY SMTT(30) DEF IInv, TypeOK, MonitorHeld
  <2>2. PICK a \in Addrs : conn[a] # None /\ conn[a].ts = x /\ a \in held[t]
    <3>1. CASE conn[call[t].c].ts = x
      BY <2>1, <3>1, Active, Zenon
    <3>2. CASE call[t].v # None /\ conn[call[t].v].ts = x
      BY <2>1, <3>2, Active, Zenon DEF IInv, Refs, CallHeld
    <3> QED
      BY <3>1, <3>2, ZenonT(30) DEF IInv, MonitorHeld
  <2>3. a # freeing
    <3>1. freeing # None => conn[freeing].own \in Threads
                            /\ dead[conn[freeing].own] = freeing
      BY Zenon DEF IInv, TypeOK, Refs, FreeingDead, Owned
    <3> QED
      BY <2>1, <2>2, <3>1, ObjectsAssumption, Zenon
         DEF IInv, Refs, DeadUnreferenced, Unreferenced
  <2>4. a \in Counted(x)
    BY <2>2, <2>3, Zenon DEF Counted, Conns
  <2>5. Cardinality(Counted(x)) = 0
    BY Zenon DEF IInv, Numbers, RefcountExact
  <2> QED
    BY <2>4, <2>5, CountedFinite, FS_EmptySet, Zenon
<1> QED
  BY <1>1, ObjectsInductive, PTL

\* What is stored can be read as long as the connection that wrote it exists and nothing was
\* merged over it, whatever the allocator does (pmmpthread_store_write caches what it wrote).
THEOREM StoredAlwaysReachable == Spec => []StoredReachable
<1>1. IInv => StoredReachable
  BY Zenon DEF IInv, WriterKeeps, StoredReachable
<1> QED
  BY <1>1, ObjectsInductive, PTL
=============================================================================
