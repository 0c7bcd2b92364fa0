------------------------------- MODULE Store -------------------------------
(* The property table of one thread-safe object (src/store.c).  The table      *)
(* itself is shared and guarded by the object's monitor.  Every thread has a   *)
(* connection with a local cache of the values that are costly to restore; a   *)
(* modification count tells a connection whether its cache may be out of date. *)
(* A locked stretch is one step; read, write and delete touch the local cache  *)
(* once more after they have unlocked (Update).                                *)
EXTENDS Integers

CONSTANTS
  Threads,          \* each has at most one connection to the object
  Keys,
  Objects,          \* thread-safe objects, stored by reference; they stay alive here
  Plains,           \* null, booleans, numbers and enum cases: never cached
  Strings,
  NoValue,          \* no such property, or nothing cached
  Nobody,           \* the owner of a string that lives outside every thread's heap
  NoCall,
  MaxModCount       \* bound on the modification count

ASSUME StoreAssumption ==
  /\ NoValue \notin Objects \cup Plains \cup [str : Strings, owner : Threads \cup {Nobody}]
  /\ Objects \cap Plains = {}
  /\ (Objects \cup Plains) \cap [str : Strings, owner : Threads \cup {Nobody}] = {}
  /\ Nobody \notin Threads
  /\ NoCall \notin [key : Keys, val : Objects \cup Plains \cup {NoValue}
                               \cup [str : Strings, owner : Threads \cup {Nobody}]]
  /\ MaxModCount \in Nat

VARIABLES
  props,     \* the shared table
  modcount,
  open,      \* the threads that have a connection
  local,     \* local_props_modcount of each connection
  table,     \* the connections whose local table exists
  cache,     \* the local tables
  call       \* the key and value of a call that has unlocked but not touched its cache

vars == <<props, modcount, open, local, table, cache, call>>

\* A string is a pointer into the heap of its owner, or a persistent copy.
StringsOf(T) == [str : Strings, owner : T]

Storages == Objects \cup Plains \cup StringsOf(Threads \cup {Nobody})

\* A string's copy, in no heap that the table knows of.
CopyOf(v) == [str |-> v.str, owner |-> Nobody]

Cacheable(v) == v # NoValue /\ v \notin Plains

NoCache == [k \in Keys |-> NoValue]

-----------------------------------------------------------------------------
Init ==
  /\ props = NoCache
  /\ modcount = 0
  /\ \E t \in Threads : open = {t}
  /\ local = [t \in Threads |-> -1]
  /\ table = {}
  /\ cache = [t \in Threads |-> NoCache]
  /\ call = [t \in Threads |-> NoCall]

Idle(t) == t \in open /\ call[t] = NoCall

\* The value a thread gets out of the table: its own string, or a copy.
Restore(t, v) ==
  IF v \in StringsOf(Threads \ {t}) THEN CopyOf(v) ELSE v

\* Whether a cache entry outlives a sync: an object that is still there, or a string
\* of this thread that is still there.
Keeps(t, c, v) == c \in Objects \cup StringsOf({t}) /\ v = c

Filtered(t, c, p) ==
  [k \in Keys |-> IF c[k] # NoValue /\ Keeps(t, c[k], p[k]) THEN c[k] ELSE NoValue]

\* The cache of t after a sync with table p and counts l (local) and n (shared).
Synced(t, l, n, p) == IF l = n THEN cache[t] ELSE Filtered(t, cache[t], p)

CountAfter(bump) == IF bump THEN modcount + 1 ELSE modcount

\* Mutant of LocalAfter: the local count takes the shared one.
LocalCurrent(t, bump) == IF bump THEN modcount + 1 ELSE local[t]

\* A connection that is behind stays behind.
LocalAfter(t, bump) ==
  IF bump /\ local[t] = modcount THEN local[t] + 1 ELSE local[t]

Bump(t, bump) ==
  /\ CountAfter(bump) <= MaxModCount
  /\ modcount' = CountAfter(bump)

-----------------------------------------------------------------------------
(* Reading.                                                                    *)

\* synchronized, and a dump of the properties into a table of its own: only a sync.
Sync(t) ==
  /\ Idle(t)
  /\ cache' = [cache EXCEPT ![t] = Synced(t, local[t], modcount, props)]
  /\ local' = [local EXCEPT ![t] = modcount]
  /\ \/ UNCHANGED table
     \/ table' = table \cup {t}
  /\ UNCHANGED <<props, modcount, open, call>>

\* The sync of a read, and the cache it leaves.
ReadSync(t) == IF t \in table THEN Synced(t, local[t], modcount, props) ELSE cache[t]

ReadCache(t) ==
  /\ Idle(t)
  /\ cache' = [cache EXCEPT ![t] = ReadSync(t)]
  /\ local' = [local EXCEPT ![t] = IF t \in table THEN modcount ELSE @]
  /\ UNCHANGED <<props, modcount, open, table>>

ReadHit(t, k) ==
  /\ ReadCache(t)
  /\ ReadSync(t)[k] # NoValue
  /\ UNCHANGED call

\* No such property, or the caller asked for write access to what is not an object.
ReadFails(t, k) ==
  /\ ReadCache(t)
  /\ ReadSync(t)[k] = NoValue
  /\ props[k] \notin Objects
  /\ UNCHANGED call

ReadMiss(t, k) ==
  /\ ReadCache(t)
  /\ ReadSync(t)[k] = NoValue
  /\ props[k] # NoValue
  /\ call' = [call EXCEPT ![t] = [key |-> k, val |-> Restore(t, props[k])]]

\* What read, write and delete do to the local table after they have unlocked.
Update(t) ==
  /\ call[t] # NoCall
  /\ cache' = IF call[t].val \in Plains THEN cache
              ELSE [cache EXCEPT ![t][call[t].key] = call[t].val]
  /\ table' = IF Cacheable(call[t].val) THEN table \cup {t} ELSE table
  /\ call' = [call EXCEPT ![t] = NoCall]
  /\ UNCHANGED <<props, modcount, open, local>>

\* The object's own property table is filled with everything there is.
ToHash(t) ==
  /\ Idle(t)
  /\ LET c == Synced(t, local[t], modcount, props)
         missing == {k \in Keys : props[k] # NoValue /\ c[k] = NoValue}
     IN /\ cache' = [cache EXCEPT ![t] = [k \in Keys |->
                       IF k \in missing THEN Restore(t, props[k]) ELSE c[k]]]
        /\ local' = [local EXCEPT ![t] = IF missing = {} THEN modcount ELSE modcount - 1]
  /\ table' = table \cup {t}
  /\ UNCHANGED <<props, modcount, open, call>>

\* A join copies every cacheable property into the joining thread's cache.
FullSync(t) ==
  /\ Idle(t)
  /\ LET c == Synced(t, local[t], modcount, props)
     IN cache' = [cache EXCEPT ![t] = [k \in Keys |->
                    IF c[k] = NoValue /\ Cacheable(props[k]) THEN Restore(t, props[k])
                    ELSE c[k]]]
  /\ local' = [local EXCEPT ![t] = modcount]
  /\ table' = table \cup {t}
  /\ UNCHANGED <<props, modcount, open, call>>

-----------------------------------------------------------------------------
(* Changing.                                                                   *)

\* What thread t may store: a string is one of its own heap or a permanent one.
Writable(t) == Objects \cup Plains \cup StringsOf({t, Nobody})

Write(t, k, v) ==
  /\ Idle(t)
  /\ props' = [props EXCEPT ![k] = v]
  /\ Bump(t, Cacheable(props[k]))
  /\ cache' = [cache EXCEPT ![t] =
                Synced(t, LocalAfter(t, Cacheable(props[k])), modcount', props')]
  /\ local' = [local EXCEPT ![t] = modcount']
  /\ call' = [call EXCEPT ![t] = [key |-> k, val |-> v]]
  /\ UNCHANGED <<open, table>>

Delete(t, k) ==
  /\ Idle(t)
  /\ props[k] # NoValue
  /\ props' = [props EXCEPT ![k] = NoValue]
  /\ Bump(t, Cacheable(props[k]))
  /\ local' = [local EXCEPT ![t] = LocalAfter(t, Cacheable(props[k]))]
  /\ call' = [call EXCEPT ![t] = [key |-> k, val |-> NoValue]]
  /\ UNCHANGED <<open, table, cache>>

\* shift, pop and chunk: which properties come first or last is StoreBounds' matter.
Take(t, S) ==
  /\ Idle(t)
  /\ S # {}
  /\ \A k \in S : props[k] # NoValue
  /\ props' = [k \in Keys |-> IF k \in S THEN NoValue ELSE props[k]]
  /\ cache' = [cache EXCEPT ![t] = [k \in Keys |-> IF k \in S THEN NoValue ELSE @[k]]]
  /\ Bump(t, \E k \in S : Cacheable(props[k]))
  /\ local' = [local EXCEPT ![t] = LocalAfter(t, \E k \in S : Cacheable(props[k]))]
  /\ UNCHANGED <<open, table, call>>

\* What the merge of another thread-safe array brings: its strings are copied.
MergeValues == Objects \cup Plains \cup StringsOf({Nobody})

Merge(t, S, f, overwrite) ==
  /\ Idle(t)
  /\ LET D == {k \in S : overwrite \/ props[k] = NoValue}
         bump == \E k \in D : Cacheable(props[k])
     IN /\ Bump(t, bump)
        /\ props' = [k \in Keys |-> IF k \in D THEN f[k] ELSE props[k]]
        /\ cache' = [cache EXCEPT ![t] = [k \in Keys |-> IF k \in D THEN NoValue ELSE @[k]]]
        /\ local' = [local EXCEPT ![t] = LocalAfter(t, bump)]
  /\ UNCHANGED <<open, table, call>>

-----------------------------------------------------------------------------
(* Connections.                                                                *)

Connect(t) ==
  /\ t \notin open
  /\ open' = open \cup {t}
  /\ local' = [local EXCEPT ![t] = modcount - 1]
  /\ UNCHANGED <<props, modcount, table, cache, call>>

\* Mutant of Persisted: nothing is copied.
NotPersisted(t, v) == v

\* A string of t is copied out of its heap before t lets go of it.
Persisted(t, v) == IF v \in StringsOf({t}) THEN CopyOf(v) ELSE v

\* With the last connection the object itself goes, which is not modelled.
Free(t) ==
  /\ Idle(t)
  /\ open # {t}
  /\ open' = open \ {t}
  /\ props' = [k \in Keys |-> Persisted(t, props[k])]
  /\ table' = table \ {t}
  /\ cache' = [cache EXCEPT ![t] = NoCache]
  /\ local' = [local EXCEPT ![t] = -1]
  /\ UNCHANGED <<modcount, call>>

Next == \E t \in Threads :
  \/ Sync(t) \/ ToHash(t) \/ FullSync(t) \/ Update(t) \/ Connect(t) \/ Free(t)
  \/ \E k \in Keys :
       \/ ReadHit(t, k) \/ ReadFails(t, k) \/ ReadMiss(t, k) \/ Delete(t, k)
       \/ \E v \in Writable(t) : Write(t, k, v)
  \/ \E S \in SUBSET Keys :
       \/ Take(t, S)
       \/ \E f \in [S -> MergeValues], b \in BOOLEAN : Merge(t, S, f, b)

Spec == Init /\ [][Next]_vars

-----------------------------------------------------------------------------
\* Types.  A thread's cache and its calls never hold a pointer into another thread's
\* heap (convert copies a string that the reader does not own), no local count is ahead
\* of the shared one (bump), and only a connection with a table has cache entries.
TypeOK ==
  /\ props \in [Keys -> Storages \cup {NoValue}]
  /\ modcount \in 0..MaxModCount
  /\ open \in SUBSET Threads
  /\ table \in SUBSET open
  /\ local \in [Threads -> Int]
  /\ cache \in [Threads -> [Keys -> Storages \cup {NoValue}]]
  /\ call \in [Threads -> [key : Keys, val : Storages \cup {NoValue}] \cup {NoCall}]
  /\ \A t \in Threads :
       /\ local[t] <= modcount
       /\ \A k \in Keys : cache[t][k] \in Writable(t) \cup {NoValue}
       /\ call[t] # NoCall => call[t].val \in Writable(t) \cup {NoValue}
       /\ t \notin table => cache[t] = NoCache

SameValue(c, v) ==
  IF c \in Objects \cup Plains THEN v = c
  ELSE v \in StringsOf(Threads \cup {Nobody}) /\ v.str = c.str

\* The connection of t counts as up to date, and its cache has another value for k than
\* the table has, which no call is about to replace.
Stale(t, k) ==
  /\ local[t] = modcount
  /\ cache[t][k] # NoValue
  /\ ~(call[t] # NoCall /\ call[t].key = k /\ call[t].val \notin Plains)
  /\ ~SameValue(cache[t][k], props[k])

\* In this step t itself replaces property k by a plain value.
StartsPlainWrite(t, k) ==
  /\ props'[k] \in Plains /\ props'[k] # props[k]
  /\ call'[t] = [key |-> k, val |-> props'[k]]

\* Whatever the threads do, an entry of an up-to-date cache, the one a read takes without
\* looking at the table (store_read, full_sync, tohash), goes stale in one way only: its own
\* thread writes a plain value over what it has cached, which bumps both counts and leaves
\* the entry where it is (store_write, bump_modcount, update_local_property).
CacheFresh ==
  [][\A t \in Threads, k \in Keys : Stale(t, k)' => Stale(t, k) \/ StartsPlainWrite(t, k)]_vars

\* A string that the table holds by pointer is kept alive by its owner: by the owner's
\* cache, or by the write that is about to put it there.  Other threads copy from it
\* (convert), so it may not go before persist_local_properties has replaced it.
StringsHeld ==
  \A k \in Keys, t \in Threads : props[k] \in StringsOf({t}) =>
    /\ t \in open
    /\ \/ cache[t][k] = props[k]
       \/ call[t] # NoCall /\ call[t] = [key |-> k, val |-> props[k]]
=============================================================================
