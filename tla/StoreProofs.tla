---------------------------- MODULE StoreProofs ----------------------------
(* Proofs about the property table and its local caches, for every program.    *)
(* Freshness is shown for all entries but those in a set E of pairs of a thread  *)
(* and a key, of which nothing is assumed: an entry outside E stays fresh unless *)
(* its own thread writes a plain value over it.                                  *)
EXTENDS Store, TLAPS

\* A call that has unlocked is of an open connection, and if the table holds a string
\* of the caller under its key, that string is what the call will cache.
OwnCall ==
  \A t \in Threads : call[t] # NoCall =>
    /\ t \in open
    /\ props[call[t].key] \in StringsOf({t}) => call[t].val = props[call[t].key]

SInv == TypeOK /\ StringsHeld /\ OwnCall

FreshCache(t, E) ==
  \A k \in Keys :
    /\ cache[t][k] \notin Plains
    /\ \/ <<t, k>> \in E
       \/ cache[t][k] = NoValue
       \/ call[t] # NoCall /\ call[t].key = k /\ call[t].val \notin Plains
       \/ SameValue(cache[t][k], props[k])

FreshCall(t) ==
  call[t] # NoCall /\ Cacheable(call[t].val) => SameValue(call[t].val, props[call[t].key])

\* A connection whose count equals the shared one caches no plain value, nothing stale
\* outside E, and will cache nothing stale.
FInv(E) == \A t \in Threads : local[t] = modcount => FreshCache(t, E) /\ FreshCall(t)

\* No entry outside E is written over by a plain value of its thread.
Spares(E) == \A t \in Threads, k \in Keys : StartsPlainWrite(t, k) => <<t, k>> \in E

-----------------------------------------------------------------------------
(* Values.                                                                     *)

\* The kinds of values are disjoint, and a string has one owner.
LEMMA Kinds ==
  /\ NoValue \notin Storages
  /\ \A t \in Threads : Writable(t) \subseteq Storages
  /\ MergeValues \subseteq Storages
  /\ \A t \in Threads : \A v \in StringsOf({t}) :
       v \in Storages /\ v \notin Plains /\ v # NoValue
  /\ \A t, u \in Threads : \A v \in Writable(t) : v \in StringsOf({u}) => u = t
  /\ \A t, u \in Threads : \A v \in StringsOf({t}) : v \in StringsOf({u}) => u = t
  /\ \A u \in Threads : \A v \in MergeValues : v \notin StringsOf({u})
  BY StoreAssumption DEF Storages, Writable, MergeValues, StringsOf

\* A value is the same as itself, and what is the same as a cacheable value is cacheable.
LEMMA Sameness ==
  /\ \A v \in Storages : SameValue(v, v)
  /\ \A c \in Storages, v \in Storages \cup {NoValue} :
       Cacheable(c) /\ SameValue(c, v) => Cacheable(v)
  BY StoreAssumption, Zenon DEF Storages, StringsOf, SameValue, Cacheable

\* What a thread restores is its own, is the same value, and is the string itself when the
\* thread owns it.
LEMMA Restoring ==
  ASSUME NEW t \in Threads, NEW v \in Storages
  PROVE  /\ Restore(t, v) \in Writable(t)
         /\ SameValue(Restore(t, v), v)
         /\ Restore(t, v) # NoValue
         /\ Restore(t, v) \in Plains <=> v \in Plains
         /\ v \in StringsOf({t}) => Restore(t, v) = v
  <1>1. CASE v \in StringsOf(Threads \ {t})
    BY <1>1, StoreAssumption DEF Restore, CopyOf, Writable, SameValue, StringsOf, Storages
  <1>2. CASE v \notin StringsOf(Threads \ {t})
    BY <1>2, StoreAssumption, Zenon DEF Restore, CopyOf, Writable, SameValue, StringsOf, Storages
  <1> QED BY <1>1, <1>2, Zenon

\* Persisting takes the strings of one thread out of its heap and changes no value.
LEMMA Persisting ==
  ASSUME NEW t \in Threads, NEW v \in Storages \cup {NoValue}
  PROVE  /\ Persisted(t, v) \in Storages \cup {NoValue}
         /\ Persisted(t, v) \notin StringsOf({t})
         /\ \A u \in Threads : Persisted(t, v) \in StringsOf({u}) => Persisted(t, v) = v
         /\ \A c \in Storages : SameValue(c, v) => SameValue(c, Persisted(t, v))
  <1>1. CASE v \in StringsOf({t})
    BY <1>1, StoreAssumption DEF Persisted, CopyOf, SameValue, StringsOf, Storages
  <1>2. CASE v \notin StringsOf({t})
    BY <1>2, StoreAssumption, Zenon DEF Persisted, CopyOf, SameValue, StringsOf, Storages
  <1> QED BY <1>1, <1>2, Zenon

\* A sync keeps only what the table still holds, and keeps the thread's own strings.
LEMMA Filtering ==
  ASSUME NEW t \in Threads, NEW c \in [Keys -> Writable(t) \cup {NoValue}],
         NEW p \in [Keys -> Storages \cup {NoValue}]
  PROVE  /\ Filtered(t, c, p) \in [Keys -> Writable(t) \cup {NoValue}]
         /\ c = NoCache => Filtered(t, c, p) = NoCache
         /\ \A k \in Keys :
              /\ Filtered(t, c, p)[k] \notin Plains
              /\ Filtered(t, c, p)[k] = NoValue \/ Filtered(t, c, p)[k] = p[k]
              /\ c[k] = p[k] /\ p[k] \in StringsOf({t}) => Filtered(t, c, p)[k] = p[k]
  <1>1. \A v, w : Keeps(t, v, w) => w = v /\ v \notin Plains
    BY StoreAssumption DEF Keeps, StringsOf
  <1>2. \A v \in StringsOf({t}) : Keeps(t, v, v) /\ v # NoValue
    BY Kinds, Zenon DEF Keeps
  <1>3. NoValue \notin Plains
    BY StoreAssumption, Zenon
  <1> QED BY <1>1, <1>2, <1>3 DEF Filtered, NoCache

\* Whatever it is given, a filtered cache holds no plain value and nothing stale.
LEMMA FilteredAt ==
  ASSUME NEW t \in Threads, NEW c, NEW p, NEW k \in Keys
  PROVE  /\ Filtered(t, c, p)[k] \notin Plains
         /\ Filtered(t, c, p)[k] = NoValue \/ Filtered(t, c, p)[k] = p[k]
  <1>1. \A v, w : Keeps(t, v, w) => w = v /\ v \notin Plains
    BY StoreAssumption DEF Keeps, StringsOf
  <1>2. NoValue \notin Plains
    BY StoreAssumption, Zenon
  <1> QED BY <1>1, <1>2 DEF Filtered

\* The same for a sync, which leaves a cache alone whose count is up to date.
LEMMA Syncing ==
  ASSUME TypeOK, NEW t \in Threads, NEW c, c = Synced(t, local[t], modcount, props)
  PROVE  /\ c \in [Keys -> Writable(t) \cup {NoValue}]
         /\ t \notin table => c = NoCache
         /\ \A k \in Keys :
              cache[t][k] = props[k] /\ props[k] \in StringsOf({t}) => c[k] = props[k]
  <1>1. /\ cache[t] \in [Keys -> Writable(t) \cup {NoValue}]
        /\ props \in [Keys -> Storages \cup {NoValue}]
        /\ t \notin table => cache[t] = NoCache
    BY Zenon DEF TypeOK
  <1>2. CASE local[t] = modcount
    <2>1. c = cache[t]
      BY <1>2, Zenon DEF Synced
    <2> QED BY <1>1, <2>1, Zenon
  <1>3. CASE local[t] # modcount
    <2>1. c = Filtered(t, cache[t], props)
      BY <1>3, Zenon DEF Synced
    <2>2. c \in [Keys -> Writable(t) \cup {NoValue}]
      BY <1>1, <2>1, Zenon DEF Filtered
    <2>3. cache[t] = NoCache => c = NoCache
      <3>1. Filtered(t, NoCache, props) = NoCache
        BY Zenon DEF Filtered, NoCache
      <3> QED BY <2>1, <3>1, Zenon
    <2>4. \A k \in Keys :
            cache[t][k] = props[k] /\ props[k] \in StringsOf({t}) => c[k] = props[k]
      BY <1>1, <2>1, Filtering
    <2> QED BY <1>1, <2>2, <2>3, <2>4, Zenon
  <1> QED BY <1>2, <1>3, Zenon

-----------------------------------------------------------------------------
(* A step of thread t changes nothing of another thread's connection.  What is  *)
(* left to show of each action is what it does to the connection of t, and what *)
(* its change of the table means for the others.                                *)

Acts(t) ==
  /\ cache' = [cache EXCEPT ![t] = cache'[t]]
  /\ local' = [local EXCEPT ![t] = local'[t]]
  /\ call' = [call EXCEPT ![t] = call'[t]]
  /\ open' \in {open, open \cup {t}, open \ {t}}
  /\ table' \in {table, table \cup {t}, table \ {t}}

OwnTypes(t) ==
  /\ cache'[t] \in [Keys -> Writable(t) \cup {NoValue}]
  /\ local'[t] \in Int /\ local'[t] <= modcount'
  /\ call'[t] \in [key : Keys, val : Writable(t) \cup {NoValue}] \cup {NoCall}
  /\ t \in table' => t \in open'
  /\ t \notin table' => cache'[t] = NoCache
  /\ props' \in [Keys -> Storages \cup {NoValue}]
  /\ modcount' \in {modcount, modcount + 1} /\ modcount' <= MaxModCount

OwnStrings(t) ==
  /\ \A k \in Keys, u \in Threads \ {t} :
       props'[k] \in StringsOf({u}) => props'[k] = props[k]
  /\ \A k \in Keys : props'[k] \in StringsOf({t}) =>
       /\ t \in open'
       /\ \/ cache'[t][k] = props'[k]
          \/ call'[t] # NoCall /\ call'[t] = [key |-> k, val |-> props'[k]]
  /\ call'[t] # NoCall =>
       /\ t \in open'
       /\ props'[call'[t].key] \in StringsOf({t}) => call'[t].val = props'[call'[t].key]

OwnFresh(t, E) ==
  /\ modcount' = modcount => \A k \in Keys, c \in Storages :
       Cacheable(c) /\ SameValue(c, props[k]) => SameValue(c, props'[k])
  /\ local'[t] = modcount' => FreshCache(t, E)' /\ FreshCall(t)'

\* Such a step keeps the types.
LEMMA TypeStep ==
  ASSUME TypeOK, NEW t \in Threads, Acts(t), OwnTypes(t)
  PROVE  TypeOK'
  <1>1. \A u \in Threads : Writable(u) \subseteq Storages
    BY Kinds, Zenon
  <1>2. modcount' \in 0..MaxModCount /\ modcount <= modcount'
    BY StoreAssumption DEF TypeOK, OwnTypes
  <1>3. local' \in [Threads -> Int] /\ \A u \in Threads : local'[u] <= modcount'
    BY <1>2, StoreAssumption DEF TypeOK, Acts, OwnTypes
  <1>4. cache' \in [Threads -> [Keys -> Storages \cup {NoValue}]]
    BY <1>1 DEF TypeOK, Acts, OwnTypes
  <1>5. \A u \in Threads : cache'[u] = IF u = t THEN cache'[t] ELSE cache[u]
    BY Zenon DEF TypeOK, Acts
  <1>6. \A u \in Threads, k \in Keys : cache'[u][k] \in Writable(u) \cup {NoValue}
    BY <1>5, Zenon DEF TypeOK, OwnTypes
  <1>7. /\ \A u \in Threads \ {t} : u \in table' <=> u \in table
        /\ table' \in SUBSET open' /\ open' \in SUBSET Threads
    BY Zenon DEF TypeOK, Acts, OwnTypes
  <1>8. \A u \in Threads : u \notin table' => cache'[u] = NoCache
    BY <1>5, <1>7, Zenon DEF TypeOK, OwnTypes
  <1>9. call'[t] \in [key : Keys, val : Storages \cup {NoValue}] \cup {NoCall}
    BY <1>1, Zenon DEF OwnTypes
  <1>10. call' \in [Threads -> [key : Keys, val : Storages \cup {NoValue}] \cup {NoCall}]
    BY <1>9, Zenon DEF TypeOK, Acts
  <1>11. \A u \in Threads : call'[u] # NoCall => call'[u].val \in Writable(u) \cup {NoValue}
    BY DEF TypeOK, Acts, OwnTypes
  <1>12. props' \in [Keys -> Storages \cup {NoValue}]
    BY Zenon DEF OwnTypes
  <1> QED BY <1>2, <1>3, <1>4, <1>6, <1>7, <1>8, <1>10, <1>11, <1>12, Zenon DEF TypeOK, NoCache

\* And it keeps the strings.
LEMMA StringsStep ==
  ASSUME SInv, NEW t \in Threads, Acts(t), OwnTypes(t), OwnStrings(t)
  PROVE  SInv'
  <1>1. TypeOK'
    BY TypeStep, Zenon DEF SInv
  <1>2. \A u \in Threads \ {t} : /\ cache'[u] = cache[u] /\ call'[u] = call[u]
                                 /\ u \in open' <=> u \in open
    BY Zenon DEF Acts, SInv, TypeOK
  <1>3. StringsHeld'
    <2> SUFFICES ASSUME NEW k \in Keys, NEW u \in Threads, props'[k] \in StringsOf({u})
                 PROVE  /\ u \in open'
                        /\ \/ cache'[u][k] = props'[k]
                           \/ call'[u] # NoCall /\ call'[u] = [key |-> k, val |-> props'[k]]
      BY Zenon DEF StringsHeld, StringsOf
    <2>1. CASE u = t
      BY <2>1, Zenon DEF OwnStrings
    <2>2. CASE u # t
      BY <1>2, <2>2 DEF OwnStrings, SInv, StringsHeld
    <2> QED BY <2>1, <2>2, Zenon
  <1>4. OwnCall'
    <2> SUFFICES ASSUME NEW u \in Threads, call'[u] # NoCall
                 PROVE  /\ u \in open'
                        /\ props'[call'[u].key] \in StringsOf({u}) =>
                             call'[u].val = props'[call'[u].key]
      BY Zenon DEF OwnCall, StringsOf
    <2>1. CASE u = t
      BY <2>1, Zenon DEF OwnStrings
    <2>2. CASE u # t
      <3>1. call'[u] = call[u] /\ call[u].key \in Keys
        BY <1>2, <2>2, Zenon DEF SInv, TypeOK
      <3> QED BY <1>2, <2>2, <3>1 DEF OwnStrings, SInv, OwnCall
    <2> QED BY <2>1, <2>2, Zenon
  <1> QED BY <1>1, <1>3, <1>4, Zenon DEF SInv

\* And it keeps the caches fresh.
LEMMA FreshStep ==
  ASSUME NEW E, TypeOK, FInv(E), NEW t \in Threads, Acts(t), OwnTypes(t), OwnFresh(t, E)
  PROVE  FInv(E)'
  <1>1. TypeOK'
    BY TypeStep, Zenon
  <1> SUFFICES ASSUME NEW u \in Threads, local'[u] = modcount'
               PROVE  FreshCache(u, E)' /\ FreshCall(u)'
    BY Zenon DEF FInv
  <1>2. CASE u = t
    BY <1>2, Zenon DEF OwnFresh
  <1>3. CASE u # t
    <2>1. local'[u] = local[u] /\ cache'[u] = cache[u] /\ call'[u] = call[u]
      BY <1>3, Zenon DEF Acts, TypeOK
    <2>2. modcount' = modcount /\ local[u] = modcount
      BY <2>1 DEF OwnTypes, TypeOK
    <2>3. \A k \in Keys, c \in Storages :
            Cacheable(c) /\ SameValue(c, props[k]) => SameValue(c, props'[k])
      BY <2>2, Zenon DEF OwnFresh
    <2>4. FreshCache(u, E) /\ FreshCall(u)
      BY <2>2, Zenon DEF FInv
    <2>5. FreshCache(u, E)'
      <3> SUFFICES ASSUME NEW k \in Keys
                   PROVE  /\ cache'[u][k] \notin Plains
                          /\ \/ <<u, k>> \in E
                             \/ cache'[u][k] = NoValue
                             \/ call'[u] # NoCall /\ call'[u].key = k /\ call'[u].val \notin Plains
                             \/ SameValue(cache'[u][k], props'[k])
        BY Zenon DEF FreshCache, SameValue, StringsOf
      <3>1. cache[u][k] \in Storages \cup {NoValue}
        BY Zenon DEF TypeOK
      <3> QED BY <2>1, <2>3, <2>4, <3>1, Zenon DEF FreshCache, Cacheable
    <2>6. FreshCall(u)'
      <3> SUFFICES ASSUME call'[u] # NoCall, Cacheable(call'[u].val)
                   PROVE  SameValue(call'[u].val, props'[call'[u].key])
        BY Zenon DEF FreshCall, SameValue, StringsOf, Cacheable
      <3>1. call[u].key \in Keys /\ call[u].val \in Storages \cup {NoValue}
        BY <2>1, Zenon DEF TypeOK
      <3> QED BY <2>1, <2>3, <2>4, <3>1, Zenon DEF FreshCall, Cacheable
    <2> QED BY <2>5, <2>6, Zenon
  <1> QED BY <1>2, <1>3, Zenon

-----------------------------------------------------------------------------
(* The actions that leave the table alone.                                     *)

\* A sync, whatever else a read or a join adds to the cache.
LEMMA SyncKeeps ==
  ASSUME SInv, NEW t \in Threads, t \in open, call[t] = NoCall,
         UNCHANGED <<props, modcount, open>>,
         NEW c \in [Keys -> Writable(t) \cup {NoValue}], cache' = [cache EXCEPT ![t] = c],
         \A k \in Keys : cache[t][k] = props[k] /\ props[k] \in StringsOf({t}) => c[k] = props[k],
         NEW l \in Int, l <= modcount, local' = [local EXCEPT ![t] = l],
         table' \in {table, table \cup {t}}, t \notin table' => c = NoCache,
         NEW q, call' = [call EXCEPT ![t] = q],
         q = NoCall \/ \E k \in Keys : /\ props[k] # NoValue
                                       /\ q = [key |-> k, val |-> Restore(t, props[k])]
  PROVE  Acts(t) /\ OwnTypes(t) /\ OwnStrings(t)
  <1>1. cache'[t] = c /\ local'[t] = l /\ call'[t] = q
    BY Zenon DEF SInv, TypeOK
  <1>2. Acts(t)
    BY <1>1, Zenon DEF Acts
  <1>3. ASSUME q # NoCall
        PROVE  /\ q \in [key : Keys, val : Writable(t) \cup {NoValue}]
               /\ props[q.key] \in StringsOf({t}) => q.val = props[q.key]
    <2>1. PICK k \in Keys : props[k] # NoValue /\ q = [key |-> k, val |-> Restore(t, props[k])]
      BY <1>3, Zenon
    <2>2. props[k] \in Storages
      BY <2>1, Zenon DEF SInv, TypeOK
    <2> QED BY <2>1, <2>2, Restoring, Zenon
  <1>4. OwnTypes(t)
    <2>1. /\ call'[t] \in [key : Keys, val : Writable(t) \cup {NoValue}] \cup {NoCall}
          /\ props' \in [Keys -> Storages \cup {NoValue}]
          /\ t \in table' => t \in open'
      BY <1>1, <1>3, Zenon DEF SInv, TypeOK
    <2> QED BY <1>1, <2>1 DEF OwnTypes, SInv, TypeOK
  <1>5. OwnStrings(t)
    <2>1. \A k \in Keys : props[k] \in StringsOf({t}) => cache[t][k] = props[k]
      BY Zenon DEF SInv, StringsHeld
    <2> QED BY <1>1, <1>3, <2>1, Zenon DEF OwnStrings
  <1> QED BY <1>2, <1>4, <1>5, Zenon

\* A cache that was fresh or has been synced, and a value that was just restored.
LEMMA SyncFresh ==
  ASSUME SInv, NEW E, NEW t \in Threads, UNCHANGED props,
         NEW c \in [Keys -> Writable(t) \cup {NoValue}], cache' = [cache EXCEPT ![t] = c],
         NEW q, call' = [call EXCEPT ![t] = q],
         q = NoCall \/ \E k \in Keys : /\ props[k] # NoValue /\ c[k] = NoValue
                                       /\ q = [key |-> k, val |-> Restore(t, props[k])],
         local'[t] = modcount' => \A k \in Keys :
           /\ c[k] \notin Plains
           /\ <<t, k>> \in E \/ c[k] = NoValue \/ SameValue(c[k], props[k])
  PROVE  OwnFresh(t, E)
  <1>1. cache'[t] = c /\ call'[t] = q
    BY Zenon DEF SInv, TypeOK
  <1>2. local'[t] = modcount' => FreshCache(t, E)'
    <2> SUFFICES ASSUME local'[t] = modcount', NEW k \in Keys
                 PROVE  /\ cache'[t][k] \notin Plains
                        /\ <<t, k>> \in E \/ cache'[t][k] = NoValue
                           \/ SameValue(cache'[t][k], props'[k])
      BY Zenon DEF FreshCache, SameValue, StringsOf
    <2> QED BY <1>1, Zenon
  <1>3. FreshCall(t)'
    <2> SUFFICES ASSUME q # NoCall, Cacheable(q.val)
                 PROVE  SameValue(q.val, props'[q.key])
      BY <1>1, Zenon DEF FreshCall, SameValue, StringsOf, Cacheable
    <2>1. PICK k \in Keys : /\ props[k] # NoValue /\ c[k] = NoValue
                            /\ q = [key |-> k, val |-> Restore(t, props[k])]
      BY Zenon
    <2>2. props[k] \in Storages
      BY <2>1, Zenon DEF SInv, TypeOK
    <2> QED BY <2>1, <2>2, Restoring, Zenon DEF Cacheable
  <1> QED BY <1>2, <1>3, Zenon DEF OwnFresh

\* What a sync leaves is fresh.
LEMMA SyncedFresh ==
  ASSUME SInv, NEW E, FInv(E), NEW t \in Threads, call[t] = NoCall, NEW k \in Keys
  PROVE  LET c == Synced(t, local[t], modcount, props)
         IN /\ c[k] \notin Plains
            /\ <<t, k>> \in E \/ c[k] = NoValue \/ SameValue(c[k], props[k])
  <1> DEFINE c == Synced(t, local[t], modcount, props)
  <1>1. CASE local[t] = modcount
    <2>1. c = cache[t] /\ FreshCache(t, E)
      BY <1>1, Zenon DEF Synced, FInv
    <2> QED BY <2>1, Zenon DEF FreshCache
  <1>2. CASE local[t] # modcount
    <2>1. /\ cache[t] \in [Keys -> Writable(t) \cup {NoValue}]
          /\ props \in [Keys -> Storages \cup {NoValue}]
      BY Zenon DEF SInv, TypeOK
    <2>2. c = Filtered(t, cache[t], props)
      BY <1>2, Zenon DEF Synced
    <2> HIDE DEF c
    <2>3. c[k] \notin Plains /\ (c[k] = NoValue \/ c[k] = props[k])
      BY <2>2, FilteredAt
    <2>4. CASE c[k] = NoValue
      BY <2>3, <2>4, Zenon DEF c
    <2>5. CASE c[k] # NoValue
      <3>1. props[k] \in Storages /\ c[k] = props[k]
        BY <2>1, <2>3, <2>5, Zenon
      <3>2. SameValue(props[k], props[k])
        BY <3>1, Sameness, Zenon
      <3> QED BY <2>3, <3>1, <3>2, Zenon DEF c
    <2> QED BY <2>4, <2>5, Zenon
  <1> QED BY <1>1, <1>2, Zenon

\* synchronized, and a dump of the properties.
LEMMA SyncStep ==
  ASSUME SInv, NEW E, NEW t \in Threads, Sync(t)
  PROVE  SInv' /\ (FInv(E) => FInv(E)')
  <1> DEFINE c == Synced(t, local[t], modcount, props)
  <1>0. TypeOK /\ props \in [Keys -> Storages \cup {NoValue}]
    BY Zenon DEF SInv, TypeOK
  <1>1. /\ c \in [Keys -> Writable(t) \cup {NoValue}] /\ (t \notin table => c = NoCache)
        /\ \A k \in Keys : cache[t][k] = props[k] /\ props[k] \in StringsOf({t}) => c[k] = props[k]
    <2>1. c = Synced(t, local[t], modcount, props)
      BY Zenon
    <2> HIDE DEF c
    <2> QED BY <1>0, <2>1, Syncing, Zenon
  <1>2. /\ cache' = [cache EXCEPT ![t] = c] /\ local' = [local EXCEPT ![t] = modcount]
        /\ call' = [call EXCEPT ![t] = NoCall] /\ table' \in {table, table \cup {t}}
        /\ UNCHANGED <<props, modcount, open>> /\ t \in open /\ call[t] = NoCall
        /\ modcount \in Int /\ modcount <= modcount
        /\ t \notin table' => t \notin table
    BY StoreAssumption DEF Sync, Idle, SInv, TypeOK
  <1>3. FInv(E) => \A k \in Keys : c[k] \notin Plains
                                   /\ (<<t, k>> \in E \/ c[k] = NoValue \/ SameValue(c[k], props[k]))
    BY <1>2, SyncedFresh, Zenon
  <1> HIDE DEF c
  <1>4. Acts(t) /\ OwnTypes(t) /\ OwnStrings(t)
    BY <1>1, <1>2, SyncKeeps, Zenon
  <1>5. FInv(E) => OwnFresh(t, E)
    BY <1>1, <1>2, <1>3, SyncFresh, Zenon
  <1> QED BY <1>4, <1>5, StringsStep, FreshStep, Zenon DEF SInv

\* The object's own table is filled.
LEMMA ToHashStep ==
  ASSUME SInv, NEW E, NEW t \in Threads, ToHash(t)
  PROVE  SInv' /\ (FInv(E) => FInv(E)')
  <1> DEFINE b == Synced(t, local[t], modcount, props)
             missing == {k \in Keys : props[k] # NoValue /\ b[k] = NoValue}
             c == [k \in Keys |-> IF k \in missing THEN Restore(t, props[k]) ELSE b[k]]
             l == IF missing = {} THEN modcount ELSE modcount - 1
  <1>0. TypeOK /\ props \in [Keys -> Storages \cup {NoValue}]
    BY Zenon DEF SInv, TypeOK
  <1>1. /\ b \in [Keys -> Writable(t) \cup {NoValue}]
        /\ \A k \in Keys : cache[t][k] = props[k] /\ props[k] \in StringsOf({t}) => b[k] = props[k]
    <2>1. b = Synced(t, local[t], modcount, props)
      BY Zenon
    <2> HIDE DEF b
    <2> QED BY <1>0, <2>1, Syncing, Zenon
  <1>2. /\ cache' = [cache EXCEPT ![t] = c] /\ local' = [local EXCEPT ![t] = l]
        /\ call' = [call EXCEPT ![t] = NoCall] /\ table' = table \cup {t}
        /\ UNCHANGED <<props, modcount, open>> /\ t \in open /\ call[t] = NoCall
    BY Zenon DEF ToHash, Idle, SInv, TypeOK
  <1>3. l \in Int /\ l <= modcount /\ (l = modcount => missing = {})
    BY StoreAssumption DEF SInv, TypeOK
  <1>4. FInv(E) => \A k \in Keys : b[k] \notin Plains
                                   /\ (<<t, k>> \in E \/ b[k] = NoValue \/ SameValue(b[k], props[k]))
    BY <1>2, SyncedFresh, Zenon
  <1>5. \A k \in Keys : props[k] # NoValue => Restore(t, props[k]) \in Writable(t)
    BY <1>0, Restoring, Zenon
  <1>6. /\ c \in [Keys -> Writable(t) \cup {NoValue}]
        /\ \A k \in Keys : cache[t][k] = props[k] /\ props[k] \in StringsOf({t}) => c[k] = props[k]
    <2>1. \A k \in Keys : props[k] \in StringsOf({t}) => props[k] # NoValue
      BY Kinds, Zenon
    <2> HIDE DEF b
    <2> QED BY <1>1, <1>5, <2>1, Zenon
  <1>7. missing = {} => c = b
    <2> HIDE DEF b
    <2> QED BY <1>1, Zenon
  <1>8. /\ local'[t] = l /\ modcount' = modcount
        /\ FInv(E) /\ local'[t] = modcount' =>
             \A k \in Keys : c[k] \notin Plains
                             /\ (<<t, k>> \in E \/ c[k] = NoValue \/ SameValue(c[k], props[k]))
    <2>1. local'[t] = l
      BY <1>2, Zenon DEF SInv, TypeOK
    <2> HIDE DEF b, c, l, missing
    <2> QED BY <1>2, <1>3, <1>4, <1>7, <2>1, Zenon
  <1> HIDE DEF b, c, l, missing
  <1>9. Acts(t) /\ OwnTypes(t) /\ OwnStrings(t)
    BY <1>2, <1>3, <1>6, SyncKeeps, Zenon
  <1>10. FInv(E) => OwnFresh(t, E)
    BY <1>2, <1>6, <1>8, SyncFresh, Zenon
  <1> QED BY <1>9, <1>10, StringsStep, FreshStep, Zenon DEF SInv

\* A join copies what is cacheable.
LEMMA FullSyncStep ==
  ASSUME SInv, NEW E, NEW t \in Threads, FullSync(t)
  PROVE  SInv' /\ (FInv(E) => FInv(E)')
  <1> DEFINE b == Synced(t, local[t], modcount, props)
             c == [k \in Keys |-> IF b[k] = NoValue /\ Cacheable(props[k])
                                  THEN Restore(t, props[k]) ELSE b[k]]
  <1>0. TypeOK /\ props \in [Keys -> Storages \cup {NoValue}]
    BY Zenon DEF SInv, TypeOK
  <1>1. /\ b \in [Keys -> Writable(t) \cup {NoValue}]
        /\ \A k \in Keys : cache[t][k] = props[k] /\ props[k] \in StringsOf({t}) => b[k] = props[k]
    <2>1. b = Synced(t, local[t], modcount, props)
      BY Zenon
    <2> HIDE DEF b
    <2> QED BY <1>0, <2>1, Syncing, Zenon
  <1>2. /\ cache' = [cache EXCEPT ![t] = c] /\ local' = [local EXCEPT ![t] = modcount]
        /\ call' = [call EXCEPT ![t] = NoCall] /\ table' = table \cup {t}
        /\ UNCHANGED <<props, modcount, open>> /\ t \in open /\ call[t] = NoCall
        /\ modcount \in Int /\ modcount <= modcount
    BY StoreAssumption DEF FullSync, Idle, SInv, TypeOK
  <1>3. FInv(E) => \A k \in Keys : b[k] \notin Plains
                                   /\ (<<t, k>> \in E \/ b[k] = NoValue \/ SameValue(b[k], props[k]))
    BY <1>2, SyncedFresh, Zenon
  <1>4. \A k \in Keys : Cacheable(props[k]) =>
          /\ Restore(t, props[k]) \in Writable(t) /\ Restore(t, props[k]) \notin Plains
          /\ SameValue(Restore(t, props[k]), props[k])
    <2> TAKE k \in Keys
    <2> HAVE Cacheable(props[k])
    <2>1. props[k] \in Storages /\ props[k] \notin Plains
      BY <1>0, Zenon DEF Cacheable
    <2> QED BY <2>1, Restoring, Zenon
  <1>5. /\ c \in [Keys -> Writable(t) \cup {NoValue}]
        /\ \A k \in Keys : cache[t][k] = props[k] /\ props[k] \in StringsOf({t}) => c[k] = props[k]
    <2>1. \A k \in Keys : props[k] \in StringsOf({t}) => props[k] # NoValue
      BY Kinds, Zenon
    <2> HIDE DEF b
    <2> QED BY <1>1, <1>4, <2>1, Zenon
  <1>6. FInv(E) => \A k \in Keys : c[k] \notin Plains
                                   /\ (<<t, k>> \in E \/ c[k] = NoValue \/ SameValue(c[k], props[k]))
    <2> HIDE DEF b
    <2> QED BY <1>3, <1>4, Zenon
  <1> HIDE DEF b, c
  <1>7. Acts(t) /\ OwnTypes(t) /\ OwnStrings(t)
    BY <1>2, <1>5, SyncKeeps, Zenon
  <1>8. FInv(E) => OwnFresh(t, E)
    BY <1>2, <1>5, <1>6, SyncFresh, Zenon
  <1> QED BY <1>7, <1>8, StringsStep, FreshStep, Zenon DEF SInv

\* A read that hits, fails or misses.
LEMMA ReadStep ==
  ASSUME SInv, NEW E, NEW t \in Threads, NEW k \in Keys,
         ReadHit(t, k) \/ ReadFails(t, k) \/ ReadMiss(t, k)
  PROVE  SInv' /\ (FInv(E) => FInv(E)')
  <1> DEFINE c == ReadSync(t)
             l == IF t \in table THEN modcount ELSE local[t]
             q == call'[t]
  <1>0. TypeOK /\ props \in [Keys -> Storages \cup {NoValue}]
    BY Zenon DEF SInv, TypeOK
  <1>1. /\ c \in [Keys -> Writable(t) \cup {NoValue}] /\ (t \notin table => c = NoCache)
        /\ \A j \in Keys : cache[t][j] = props[j] /\ props[j] \in StringsOf({t}) => c[j] = props[j]
    <2>1. CASE t \in table
      <3>1. c = Synced(t, local[t], modcount, props)
        BY <2>1, Zenon DEF ReadSync
      <3> HIDE DEF c
      <3>2. c \in [Keys -> Writable(t) \cup {NoValue}]
        BY <1>0, <3>1, Syncing, Zenon
      <3>3. \A j \in Keys :
              cache[t][j] = props[j] /\ props[j] \in StringsOf({t}) => c[j] = props[j]
        BY <1>0, <3>1, Syncing, Zenon
      <3> QED BY <2>1, <3>2, <3>3, Zenon
    <2>2. CASE t \notin table
      BY <2>2, Zenon DEF ReadSync, SInv, TypeOK
    <2> QED BY <2>1, <2>2, Zenon
  <1>2. /\ cache' = [cache EXCEPT ![t] = c] /\ local' = [local EXCEPT ![t] = l]
        /\ table' = table
        /\ UNCHANGED <<props, modcount, open>> /\ t \in open /\ call[t] = NoCall
        /\ l \in Int /\ l <= modcount
    BY StoreAssumption DEF ReadHit, ReadFails, ReadMiss, ReadCache, Idle, SInv, TypeOK
  <1>3. /\ call' = [call EXCEPT ![t] = q]
        /\ q = NoCall \/ \E j \in Keys : /\ props[j] # NoValue /\ c[j] = NoValue
                                         /\ q = [key |-> j, val |-> Restore(t, props[j])]
    BY <1>2, Zenon DEF ReadHit, ReadFails, ReadMiss, SInv, TypeOK
  <1>4. FInv(E) => \A j \in Keys : c[j] \notin Plains
                                   /\ (<<t, j>> \in E \/ c[j] = NoValue \/ SameValue(c[j], props[j]))
    <2>1. CASE t \in table
      BY <1>2, <2>1, SyncedFresh, Zenon DEF ReadSync
    <2>2. CASE t \notin table
      <3>1. \A j \in Keys : c[j] = NoValue
        BY <1>1, <2>2, Zenon DEF NoCache
      <3>2. NoValue \notin Plains
        BY StoreAssumption, Zenon
      <3> QED BY <3>1, <3>2, Zenon
    <2> QED BY <2>1, <2>2, Zenon
  <1> HIDE DEF c, l, q
  <1>5. Acts(t) /\ OwnTypes(t) /\ OwnStrings(t)
    BY <1>1, <1>2, <1>3, SyncKeeps, Zenon
  <1>6. FInv(E) => OwnFresh(t, E)
    BY <1>1, <1>2, <1>3, <1>4, SyncFresh, Zenon
  <1> QED BY <1>5, <1>6, StringsStep, FreshStep, Zenon DEF SInv

\* What a call does to the cache after it has unlocked.
LEMMA UpdateStep ==
  ASSUME SInv, NEW E, NEW t \in Threads, Update(t)
  PROVE  SInv' /\ (FInv(E) => FInv(E)')
  <1> DEFINE j == call[t].key
             v == call[t].val
  <1>1. /\ j \in Keys /\ v \in Writable(t) \cup {NoValue} /\ t \in open /\ call[t] # NoCall
        /\ cache[t] \in [Keys -> Writable(t) \cup {NoValue}]
        /\ props \in [Keys -> Storages \cup {NoValue}]
    BY Zenon DEF Update, SInv, TypeOK, OwnCall
  <1>2. cache' = [cache EXCEPT ![t] = IF v \in Plains THEN cache[t] ELSE [cache[t] EXCEPT ![j] = v]]
    BY Zenon DEF Update, SInv, TypeOK
  <1>3. /\ cache'[t] = IF v \in Plains THEN cache[t] ELSE [cache[t] EXCEPT ![j] = v]
        /\ local' = local /\ call'[t] = NoCall /\ call' = [call EXCEPT ![t] = NoCall]
        /\ table' \in {table, table \cup {t}} /\ (t \notin table' => t \notin table /\ ~Cacheable(v))
        /\ UNCHANGED <<props, modcount, open>>
    BY <1>2, Zenon DEF Update, SInv, TypeOK
  <1> HIDE DEF j, v
  <1>4. Acts(t)
    BY <1>2, <1>3, Zenon DEF Acts, SInv, TypeOK
  <1>5. OwnTypes(t)
    <2>1. cache'[t] \in [Keys -> Writable(t) \cup {NoValue}]
      BY <1>1, <1>3, Zenon
    <2>2. t \notin table' => cache'[t] = NoCache
      <3>1. t \notin table' => cache[t] = NoCache /\ (v \in Plains \/ v = NoValue)
        BY <1>3, Zenon DEF SInv, TypeOK, Cacheable
      <3> QED BY <1>1, <1>3, <3>1, Zenon DEF NoCache
    <2> QED BY <1>1, <1>3, <2>1, <2>2 DEF OwnTypes, SInv, TypeOK
  <1>6. OwnStrings(t)
    <2>1. ASSUME NEW k \in Keys, props[k] \in StringsOf({t}) PROVE cache'[t][k] = props[k]
      <3>1. CASE k = j
        <4>1. v = props[k]
          BY <1>1, <2>1, <3>1, Zenon DEF SInv, OwnCall, j, v
        <4>2. v \notin Plains
          BY <4>1, <2>1, Kinds, Zenon
        <4> QED BY <1>1, <1>3, <3>1, <4>1, <4>2, Zenon
      <3>2. CASE k # j
        <4>1. cache[t][k] = props[k]
          <5>1. call[t] # [key |-> k, val |-> props[k]]
            BY <3>2 DEF j
          <5> QED BY <2>1, <5>1, Zenon DEF SInv, StringsHeld
        <4> QED BY <1>1, <1>3, <3>2, <4>1, Zenon
      <3> QED BY <3>1, <3>2, Zenon
    <2> QED BY <1>1, <1>3, <2>1, Zenon DEF OwnStrings
  <1>7. FInv(E) => OwnFresh(t, E)
    <2> SUFFICES ASSUME FInv(E) PROVE OwnFresh(t, E)
      BY Zenon
    <2>1. FreshCall(t)'
      BY <1>3, Zenon DEF FreshCall
    <2>2. ASSUME local'[t] = modcount' PROVE FreshCache(t, E)'
      <3>1. FreshCache(t, E) /\ FreshCall(t)
        BY <1>3, <2>2, Zenon DEF FInv
      <3> SUFFICES ASSUME NEW k \in Keys
                   PROVE  /\ cache'[t][k] \notin Plains
                          /\ <<t, k>> \in E \/ cache'[t][k] = NoValue
                             \/ SameValue(cache'[t][k], props'[k])
        BY Zenon DEF FreshCache, SameValue, StringsOf
      <3>2. NoValue \notin Plains
        BY StoreAssumption, Zenon
      <3>3. CASE k # j
        <4>1. cache'[t][k] = cache[t][k]
          BY <1>1, <1>3, <3>3, Zenon
        <4> QED BY <1>3, <3>1, <3>3, <4>1, Zenon DEF FreshCache, j
      <3>4. CASE k = j /\ v \in Plains
        <4>1. cache'[t][k] = cache[t][k]
          BY <1>3, <3>4, Zenon
        <4> QED BY <1>3, <3>1, <3>4, <4>1, Zenon DEF FreshCache, j, v
      <3>5. CASE k = j /\ v \notin Plains
        <4>1. cache'[t][k] = v
          BY <1>1, <1>3, <3>5, Zenon
        <4>2. v = NoValue \/ SameValue(v, props[k])
          BY <1>1, <3>1, <3>5, Zenon DEF FreshCall, Cacheable, j, v
        <4> QED BY <1>3, <3>5, <4>1, <4>2, Zenon
      <3> QED BY <3>3, <3>4, <3>5, Zenon
    <2> QED BY <1>3, <2>1, <2>2, Zenon DEF OwnFresh
  <1> QED BY <1>4, <1>5, <1>6, <1>7, StringsStep, FreshStep, Zenon DEF SInv

-----------------------------------------------------------------------------
(* Connections.                                                                *)

\* A new connection is one behind.
LEMMA ConnectStep ==
  ASSUME SInv, NEW E, NEW t \in Threads, Connect(t)
  PROVE  SInv' /\ (FInv(E) => FInv(E)')
  <1>1. /\ t \notin open /\ call[t] = NoCall /\ t \notin table
        /\ \A k \in Keys : props[k] \notin StringsOf({t})
    BY Zenon DEF Connect, SInv, OwnCall, StringsHeld, TypeOK
  <1>2. /\ open' = open \cup {t} /\ UNCHANGED <<props, modcount, table, cache, call>>
        /\ local' = [local EXCEPT ![t] = modcount - 1] /\ local'[t] = modcount - 1
    BY Zenon DEF Connect, SInv, TypeOK
  <1>3. Acts(t)
    BY <1>2, Zenon DEF Acts, SInv, TypeOK
  <1>4. OwnTypes(t)
    <2>1. /\ cache[t] \in [Keys -> Writable(t) \cup {NoValue}] /\ cache[t] = NoCache
          /\ props \in [Keys -> Storages \cup {NoValue}]
      BY <1>1, Zenon DEF SInv, TypeOK
    <2>2. modcount \in Int /\ modcount <= MaxModCount
      BY StoreAssumption DEF SInv, TypeOK
    <2> QED BY <1>1, <1>2, <2>1, <2>2 DEF OwnTypes
  <1>5. OwnStrings(t)
    BY <1>1, <1>2, Zenon DEF OwnStrings
  <1>6. OwnFresh(t, E)
    <2>1. local'[t] # modcount'
      BY <1>2, StoreAssumption DEF SInv, TypeOK
    <2> QED BY <1>2, <2>1, Zenon DEF OwnFresh
  <1> QED BY <1>3, <1>4, <1>5, <1>6, StringsStep, FreshStep, Zenon DEF SInv

\* A connection that is freed leaves none of its strings in the table.
LEMMA FreeStep ==
  ASSUME SInv, NEW E, NEW t \in Threads, Free(t)
  PROVE  SInv' /\ (FInv(E) => FInv(E)')
  <1>1. /\ call[t] = NoCall /\ open' = open \ {t} /\ table' = table \ {t}
        /\ UNCHANGED <<modcount, call>>
        /\ cache' = [cache EXCEPT ![t] = NoCache] /\ cache'[t] = NoCache
        /\ local' = [local EXCEPT ![t] = -1] /\ local'[t] = -1
        /\ props' = [k \in Keys |-> Persisted(t, props[k])]
        /\ modcount \in Int /\ 0 <= modcount /\ modcount <= MaxModCount
        /\ props \in [Keys -> Storages \cup {NoValue}]
    BY StoreAssumption DEF Free, Idle, SInv, TypeOK
  <1>2. \A k \in Keys :
          /\ props'[k] \in Storages \cup {NoValue}
          /\ props'[k] \notin StringsOf({t})
          /\ \A u \in Threads : props'[k] \in StringsOf({u}) => props'[k] = props[k]
          /\ \A c \in Storages : SameValue(c, props[k]) => SameValue(c, props'[k])
    <2> TAKE k \in Keys
    <2>1. props'[k] = Persisted(t, props[k]) /\ props[k] \in Storages \cup {NoValue}
      BY <1>1, Zenon
    <2> DEFINE w == props[k]
               p == Persisted(t, w)
    <2>2. /\ p \in Storages \cup {NoValue} /\ p \notin StringsOf({t})
          /\ \A u \in Threads : p \in StringsOf({u}) => p = w
          /\ \A c \in Storages : SameValue(c, w) => SameValue(c, p)
      <3>1. w \in Storages \cup {NoValue}
        BY <2>1, Zenon
      <3> HIDE DEF w
      <3> QED BY <3>1, Persisting, Zenon
    <2>3. props'[k] = p
      BY <2>1, Zenon
    <2> HIDE DEF p
    <2> QED BY <2>2, <2>3, Zenon
  <1>3. Acts(t)
    BY <1>1, Zenon DEF Acts, SInv, TypeOK
  <1>4. OwnTypes(t)
    <2>1. NoCache \in [Keys -> Writable(t) \cup {NoValue}]
      BY Zenon DEF NoCache
    <2>2. props' \in [Keys -> Storages \cup {NoValue}]
      BY <1>1, <1>2, Zenon
    <2> QED BY <1>1, <2>1, <2>2 DEF OwnTypes
  <1>5. OwnStrings(t)
    BY <1>1, <1>2, Zenon DEF OwnStrings
  <1>6. OwnFresh(t, E)
    <2>1. local'[t] # modcount'
      BY <1>1
    <2> QED BY <1>2, <2>1, Zenon DEF OwnFresh
  <1> QED BY <1>3, <1>4, <1>5, <1>6, StringsStep, FreshStep, Zenon DEF SInv

-----------------------------------------------------------------------------
(* The actions that change the table.                                          *)

\* What a bump does for the properties D that a step replaces: when the shared count stays,
\* none of them was cacheable, and a connection that was behind stays behind.
Counted(t, D) ==
  /\ modcount' \in {modcount, modcount + 1} /\ modcount' <= MaxModCount
  /\ modcount' = modcount => \A k \in D : ~Cacheable(props[k])
  /\ LET l == IF local[t] = modcount THEN modcount' ELSE local[t]
     IN /\ local' = [local EXCEPT ![t] = l] /\ local'[t] = l
        /\ l \in Int /\ l <= modcount'
        /\ l = modcount' => local[t] = modcount

\* A bump counts what a step replaces.
LEMMA Counting ==
  ASSUME TypeOK, NEW t \in Threads, NEW D \in SUBSET Keys,
         Bump(t, \E k \in D : Cacheable(props[k])),
         local' = [local EXCEPT ![t] = LocalAfter(t, \E k \in D : Cacheable(props[k]))]
  PROVE  Counted(t, D)
  <1>1. modcount \in Int /\ local[t] \in Int /\ local[t] <= modcount /\ local \in [Threads -> Int]
    BY DEF TypeOK
  <1>2. CASE \E k \in D : Cacheable(props[k])
    <2>1. /\ modcount' = modcount + 1 /\ modcount' <= MaxModCount
          /\ local' = [local EXCEPT ![t] = IF local[t] = modcount THEN modcount' ELSE local[t]]
      BY <1>2, Zenon DEF Bump, CountAfter, LocalAfter
    <2>2. local'[t] = IF local[t] = modcount THEN modcount' ELSE local[t]
      BY <1>1, <2>1, Zenon
    <2>3. modcount' # modcount /\ modcount' \in Int /\ local[t] # modcount'
      BY <1>1, <2>1
    <2>4. local[t] <= modcount'
      BY <1>1, <2>1
    <2> DEFINE l == IF local[t] = modcount THEN modcount' ELSE local[t]
    <2>5. l \in Int /\ l <= modcount' /\ (l = modcount' => local[t] = modcount)
      BY <1>1, <2>3, <2>4
    <2>6. local' = [local EXCEPT ![t] = l] /\ local'[t] = l
      BY <2>1, <2>2, Zenon
    <2> HIDE DEF l
    <2> QED BY <2>1, <2>3, <2>5, <2>6, Zenon DEF Counted, l
  <1>3. CASE ~\E k \in D : Cacheable(props[k])
    <2>1. modcount' = modcount /\ modcount' <= MaxModCount /\ local' = [local EXCEPT ![t] = local[t]]
      BY <1>3, Zenon DEF Bump, CountAfter, LocalAfter
    <2> QED BY <1>1, <1>3, <2>1, Zenon DEF Counted
  <1> QED BY <1>2, <1>3, Zenon

\* The values that other threads have cached are still there when the count stays.
LEMMA OthersFresh ==
  ASSUME SInv, NEW t \in Threads, NEW D \in SUBSET Keys, Counted(t, D), modcount' = modcount,
         \A k \in Keys \ D : props'[k] = props[k],
         NEW k \in Keys, NEW c \in Storages, Cacheable(c), SameValue(c, props[k])
  PROVE  SameValue(c, props'[k])
  <1>1. props[k] \in Storages \cup {NoValue}
    BY Zenon DEF SInv, TypeOK
  <1>2. Cacheable(props[k])
    BY <1>1, Sameness, Zenon
  <1>3. k \notin D
    BY <1>2, Zenon DEF Counted
  <1> QED BY <1>3, Zenon

\* Properties that are taken out, or replaced by what no thread owns.
LEMMA DropStep ==
  ASSUME SInv, NEW E, NEW t \in Threads, Idle(t), NEW D \in SUBSET Keys, Counted(t, D),
         props' \in [Keys -> Storages \cup {NoValue}],
         \A k \in Keys \ D : props'[k] = props[k],
         \A k \in D, u \in Threads : props'[k] \notin StringsOf({u}),
         cache' = [cache EXCEPT ![t] = [k \in Keys |-> IF k \in D THEN NoValue ELSE cache[t][k]]],
         UNCHANGED <<open, table, call>>
  PROVE  SInv' /\ (FInv(E) => FInv(E)')
  <1>1. /\ t \in open /\ call[t] = NoCall
        /\ cache[t] \in [Keys -> Writable(t) \cup {NoValue}]
        /\ t \notin table => cache[t] = NoCache
        /\ cache'[t] = [k \in Keys |-> IF k \in D THEN NoValue ELSE cache[t][k]]
    BY Zenon DEF Idle, SInv, TypeOK
  <1>2. Acts(t)
    <2>1. local' = [local EXCEPT ![t] = local'[t]]
      BY Zenon DEF Counted
    <2> QED BY <1>1, <2>1, Zenon DEF Acts, SInv, TypeOK
  <1>3. OwnTypes(t)
    <2>1. cache'[t] \in [Keys -> Writable(t) \cup {NoValue}]
      BY <1>1, SMTT(30)
    <2>2. t \notin table' => cache'[t] = NoCache
      BY <1>1, Zenon DEF NoCache
    <2>3. local'[t] \in Int /\ local'[t] <= modcount'
      BY Zenon DEF Counted
    <2>4. modcount' \in {modcount, modcount + 1} /\ modcount' <= MaxModCount
      BY Zenon DEF Counted
    <2> QED BY <1>1, <2>1, <2>2, <2>3, <2>4, Zenon DEF OwnTypes
  <1>4. OwnStrings(t)
    <2>1. ASSUME NEW k \in Keys, props'[k] \in StringsOf({t}) PROVE cache'[t][k] = props'[k]
      <3>1. k \notin D /\ props'[k] = props[k]
        BY <2>1, Zenon
      <3>2. cache[t][k] = props[k]
        BY <1>1, <2>1, <3>1, Zenon DEF SInv, StringsHeld
      <3> QED BY <1>1, <3>1, <3>2, Zenon
    <2>2. \A k \in Keys, u \in Threads : props'[k] \in StringsOf({u}) => props'[k] = props[k]
      BY Zenon
    <2>3. t \in open' /\ call'[t] = NoCall
      BY <1>1, Zenon
    <2> QED BY <2>1, <2>2, <2>3, Zenon DEF OwnStrings
  <1>5. FInv(E) => OwnFresh(t, E)
    <2>1. modcount' = modcount => \A k \in Keys, c \in Storages :
            Cacheable(c) /\ SameValue(c, props[k]) => SameValue(c, props'[k])
      BY OthersFresh, Zenon
    <2>2. FreshCall(t)'
      BY <1>1, Zenon DEF FreshCall
    <2>3. ASSUME FInv(E), local'[t] = modcount' PROVE FreshCache(t, E)'
      <3>1. FreshCache(t, E)
        BY <2>3, Zenon DEF FInv, Counted
      <3>2. NoValue \notin Plains
        BY StoreAssumption, Zenon
      <3> SUFFICES ASSUME NEW k \in Keys
                   PROVE  /\ cache'[t][k] \notin Plains
                          /\ <<t, k>> \in E \/ cache'[t][k] = NoValue
                             \/ SameValue(cache'[t][k], props'[k])
        BY Zenon DEF FreshCache, SameValue, StringsOf
      <3> QED BY <1>1, <3>1, <3>2 DEF FreshCache
    <2> QED BY <2>1, <2>2, <2>3, Zenon DEF OwnFresh
  <1> QED BY <1>2, <1>3, <1>4, <1>5, StringsStep, FreshStep, Zenon DEF SInv

\* shift, pop and chunk.
LEMMA TakeStep ==
  ASSUME SInv, NEW E, NEW t \in Threads, NEW S \in SUBSET Keys, Take(t, S)
  PROVE  SInv' /\ (FInv(E) => FInv(E)')
  <1>1. Counted(t, S)
    BY Counting, Zenon DEF Take, SInv
  <1>2. \A u \in Threads : NoValue \notin StringsOf({u})
    BY Kinds, Zenon
  <1>3. /\ props' \in [Keys -> Storages \cup {NoValue}]
        /\ \A k \in Keys \ S : props'[k] = props[k]
        /\ \A k \in S, u \in Threads : props'[k] \notin StringsOf({u})
    BY <1>2, Zenon DEF Take, SInv, TypeOK
  <1>4. /\ cache' = [cache EXCEPT ![t] = [k \in Keys |-> IF k \in S THEN NoValue ELSE cache[t][k]]]
        /\ Idle(t) /\ UNCHANGED <<open, table, call>>
    BY Zenon DEF Take, SInv, TypeOK
  <1> QED BY <1>1, <1>3, <1>4, DropStep, Zenon

\* A merge of another thread-safe array.
LEMMA MergeStep ==
  ASSUME SInv, NEW E, NEW t \in Threads, NEW S \in SUBSET Keys, NEW f \in [S -> MergeValues],
         NEW o \in BOOLEAN, Merge(t, S, f, o)
  PROVE  SInv' /\ (FInv(E) => FInv(E)')
  <1> DEFINE D == {k \in S : o \/ props[k] = NoValue}
  <1>1. Counted(t, D)
    BY Counting, Zenon DEF Merge, SInv
  <1>2. \A k \in D : f[k] \in Storages /\ \A u \in Threads : f[k] \notin StringsOf({u})
    BY Kinds, Zenon
  <1>3. /\ props' = [k \in Keys |-> IF k \in D THEN f[k] ELSE props[k]]
        /\ cache' = [cache EXCEPT ![t] = [k \in Keys |-> IF k \in D THEN NoValue ELSE cache[t][k]]]
        /\ Idle(t) /\ UNCHANGED <<open, table, call>>
        /\ D \in SUBSET Keys /\ props \in [Keys -> Storages \cup {NoValue}]
    BY Zenon DEF Merge, SInv, TypeOK
  <1> HIDE DEF D
  <1>4. /\ props' \in [Keys -> Storages \cup {NoValue}]
        /\ \A k \in Keys \ D : props'[k] = props[k]
        /\ \A k \in D, u \in Threads : props'[k] \notin StringsOf({u})
    BY <1>2, <1>3, Zenon
  <1> QED BY <1>1, <1>3, <1>4, DropStep, Zenon

\* A delete, up to its unlock.
LEMMA DeleteStep ==
  ASSUME SInv, NEW E, NEW t \in Threads, NEW k \in Keys, Delete(t, k)
  PROVE  SInv' /\ (FInv(E) => FInv(E)')
  <1> DEFINE q == [key |-> k, val |-> NoValue]
  <1>1. Counted(t, {k})
    <2>1. (\E j \in {k} : Cacheable(props[j])) <=> Cacheable(props[k])
      BY Zenon
    <2>2. CASE Cacheable(props[k])
      <3>1. Bump(t, \E j \in {k} : Cacheable(props[j]))
            /\ local' = [local EXCEPT ![t] = LocalAfter(t, \E j \in {k} : Cacheable(props[j]))]
        BY <2>1, <2>2, Zenon DEF Delete, Bump, CountAfter, LocalAfter
      <3> QED BY <3>1, Counting, Zenon DEF SInv
    <2>3. CASE ~Cacheable(props[k])
      <3>1. Bump(t, \E j \in {k} : Cacheable(props[j]))
            /\ local' = [local EXCEPT ![t] = LocalAfter(t, \E j \in {k} : Cacheable(props[j]))]
        BY <2>1, <2>3, Zenon DEF Delete, Bump, CountAfter, LocalAfter
      <3> QED BY <3>1, Counting, Zenon DEF SInv
    <2> QED BY <2>2, <2>3, Zenon
  <1>2. /\ t \in open /\ call[t] = NoCall /\ UNCHANGED <<open, table, cache>>
        /\ call' = [call EXCEPT ![t] = q] /\ call'[t] = q
        /\ props' = [props EXCEPT ![k] = NoValue]
        /\ props' \in [Keys -> Storages \cup {NoValue}]
        /\ \A j \in Keys \ {k} : props'[j] = props[j]
        /\ props'[k] = NoValue
    BY Zenon DEF Delete, Idle, SInv, TypeOK
  <1>3. \A u \in Threads : NoValue \notin StringsOf({u})
    BY Kinds, Zenon
  <1>4. Acts(t)
    <2>1. local' = [local EXCEPT ![t] = local'[t]]
      BY <1>1, Zenon DEF Counted
    <2> QED BY <1>2, <2>1, Zenon DEF Acts, SInv, TypeOK
  <1>5. OwnTypes(t)
    <2>1. /\ cache[t] \in [Keys -> Writable(t) \cup {NoValue}]
          /\ t \notin table => cache[t] = NoCache
          /\ t \in table => t \in open
      BY Zenon DEF SInv, TypeOK
    <2>2. /\ local'[t] \in Int /\ local'[t] <= modcount'
          /\ modcount' \in {modcount, modcount + 1} /\ modcount' <= MaxModCount
      BY <1>1, Zenon DEF Counted
    <2> QED BY <1>2, <2>1, <2>2 DEF OwnTypes
  <1>6. OwnStrings(t)
    <2>1. ASSUME NEW j \in Keys, props'[j] \in StringsOf({t}) PROVE cache'[t][j] = props'[j]
      <3>1. j # k /\ props'[j] = props[j]
        BY <1>2, <1>3, <2>1, Zenon
      <3> QED BY <1>2, <2>1, <3>1, Zenon DEF SInv, StringsHeld
    <2>2. \A j \in Keys, u \in Threads :
            props'[j] \in StringsOf({u}) => props'[j] = props[j]
      BY <1>2, <1>3, Zenon
    <2>3. q.key = k /\ props'[q.key] \notin StringsOf({t})
      BY <1>2, <1>3, Zenon
    <2> HIDE DEF q
    <2> QED BY <1>2, <2>1, <2>2, <2>3, Zenon DEF OwnStrings
  <1>7. FInv(E) => OwnFresh(t, E)
    <2>1. modcount' = modcount => \A j \in Keys, c \in Storages :
            Cacheable(c) /\ SameValue(c, props[j]) => SameValue(c, props'[j])
      BY <1>1, <1>2, OthersFresh, Zenon
    <2>2. FreshCall(t)'
      <3>1. ~Cacheable(NoValue)
        BY Zenon DEF Cacheable
      <3> SUFFICES Cacheable(q.val) => SameValue(q.val, props'[q.key])
        BY <1>2, Zenon DEF FreshCall, SameValue, StringsOf, Cacheable
      <3> QED BY <3>1, Zenon
    <2>3. ASSUME FInv(E), local'[t] = modcount' PROVE FreshCache(t, E)'
      <3>1. FreshCache(t, E)
        BY <1>1, <2>3, Zenon DEF FInv, Counted
      <3>2. q # NoCall /\ q.val \notin Plains
        BY StoreAssumption, SMTT(30)
      <3> SUFFICES ASSUME NEW j \in Keys
                   PROVE  /\ cache'[t][j] \notin Plains
                          /\ \/ <<t, j>> \in E
                             \/ cache'[t][j] = NoValue
                             \/ q.key = j
                             \/ SameValue(cache'[t][j], props'[j])
        BY <1>2, <3>2, Zenon DEF FreshCache, SameValue, StringsOf
      <3>3. CASE j = k
        BY <1>2, <3>1, <3>3, Zenon DEF FreshCache
      <3>4. CASE j # k
        BY <1>2, <3>1, <3>4, Zenon DEF FreshCache
      <3> QED BY <3>3, <3>4, Zenon
    <2> QED BY <2>1, <2>2, <2>3, Zenon DEF OwnFresh
  <1> QED BY <1>4, <1>5, <1>6, <1>7, StringsStep, FreshStep, Zenon DEF SInv

\* A write syncs after it has bumped both counts: a connection that was up to date
\* keeps its cache as it is, one that was behind is filtered.
LEMMA WriteCounts ==
  ASSUME SInv, NEW t \in Threads, NEW k \in Keys, NEW v \in Writable(t), Write(t, k, v)
  PROVE  /\ modcount' \in {modcount, modcount + 1} /\ modcount' <= MaxModCount
         /\ modcount' = modcount => ~Cacheable(props[k])
         /\ cache' = [cache EXCEPT ![t] = IF local[t] = modcount THEN cache[t]
                                          ELSE Filtered(t, cache[t], props')]
         /\ local' = [local EXCEPT ![t] = modcount']
  <1>1. modcount \in Int /\ local[t] \in Int /\ local[t] <= modcount
    BY DEF SInv, TypeOK
  <1>2. CASE Cacheable(props[k])
    <2>1. modcount' = modcount + 1 /\ modcount' <= MaxModCount
      BY <1>2, Zenon DEF Write, Bump, CountAfter
    <2>2. LocalAfter(t, Cacheable(props[k])) = modcount' <=> local[t] = modcount
      BY <1>1, <1>2, <2>1, SMTT(30) DEF LocalAfter
    <2>3. /\ cache' = [cache EXCEPT ![t] =
                         Synced(t, LocalAfter(t, Cacheable(props[k])), modcount', props')]
          /\ local' = [local EXCEPT ![t] = modcount']
      BY Zenon DEF Write
    <2>4. Synced(t, LocalAfter(t, Cacheable(props[k])), modcount', props')
            = IF local[t] = modcount THEN cache[t] ELSE Filtered(t, cache[t], props')
      BY <2>2, Zenon DEF Synced
    <2>5. modcount' \in {modcount, modcount + 1} /\ (modcount' = modcount => ~Cacheable(props[k]))
      BY <1>1, <1>2, <2>1
    <2> QED BY <2>1, <2>3, <2>4, <2>5, Zenon
  <1>3. CASE ~Cacheable(props[k])
    <2>1. modcount' = modcount /\ modcount' <= MaxModCount
      BY <1>3, Zenon DEF Write, Bump, CountAfter
    <2>2. LocalAfter(t, Cacheable(props[k])) = modcount' <=> local[t] = modcount
      BY <1>1, <1>3, <2>1, Zenon DEF LocalAfter
    <2>3. /\ cache' = [cache EXCEPT ![t] =
                         Synced(t, LocalAfter(t, Cacheable(props[k])), modcount', props')]
          /\ local' = [local EXCEPT ![t] = modcount']
      BY Zenon DEF Write
    <2>4. Synced(t, LocalAfter(t, Cacheable(props[k])), modcount', props')
            = IF local[t] = modcount THEN cache[t] ELSE Filtered(t, cache[t], props')
      BY <2>2, Zenon DEF Synced
    <2>5. modcount' \in {modcount, modcount + 1} /\ (modcount' = modcount => ~Cacheable(props[k]))
      BY <1>1, <1>3, <2>1, Zenon
    <2> QED BY <2>1, <2>3, <2>4, <2>5, Zenon
  <1> QED BY <1>2, <1>3, Zenon

\* A write, up to its unlock.
LEMMA WriteStep ==
  ASSUME SInv, NEW E, NEW t \in Threads, NEW k \in Keys, NEW v \in Writable(t), Write(t, k, v)
  PROVE  SInv' /\ (FInv(E) /\ Spares(E) => FInv(E)')
  <1> DEFINE q == [key |-> k, val |-> v]
             c == IF local[t] = modcount THEN cache[t] ELSE Filtered(t, cache[t], props')
  <1>1. /\ t \in open /\ call[t] = NoCall /\ UNCHANGED <<open, table>>
        /\ call' = [call EXCEPT ![t] = q] /\ call'[t] = q
    BY Zenon DEF Write, Idle, SInv, TypeOK
  <1>2. /\ props' \in [Keys -> Storages \cup {NoValue}]
        /\ \A j \in Keys \ {k} : props'[j] = props[j]
        /\ props'[k] = v
    BY Kinds, Zenon DEF Write, SInv, TypeOK
  <1>3. cache' = [cache EXCEPT ![t] = c] /\ cache'[t] = c
        /\ local' = [local EXCEPT ![t] = modcount'] /\ local'[t] = modcount'
    BY WriteCounts, Zenon DEF SInv, TypeOK
  <1>4. /\ cache[t] \in [Keys -> Writable(t) \cup {NoValue}]
        /\ t \notin table => cache[t] = NoCache
        /\ t \in table => t \in open
    BY Zenon DEF SInv, TypeOK
  <1>5. /\ c \in [Keys -> Writable(t) \cup {NoValue}]
        /\ cache[t] = NoCache => c = NoCache
        /\ \A j \in Keys : cache[t][j] = props'[j] /\ props'[j] \in StringsOf({t}) => c[j] = props'[j]
    <2>1. CASE local[t] = modcount
      BY <1>4, <2>1, Zenon
    <2>2. CASE local[t] # modcount
      <3>1. c = Filtered(t, cache[t], props')
        BY <2>2, Zenon
      <3> HIDE DEF c
      <3> QED BY <1>2, <1>4, <3>1, Filtering, SMTT(30)
    <2> QED BY <2>1, <2>2, Zenon
  <1>6. local[t] = modcount => c = cache[t]
    BY Zenon
  <1>7. local[t] # modcount => \A j \in Keys : c[j] \notin Plains /\ (c[j] = NoValue \/ c[j] = props'[j])
    <2> SUFFICES ASSUME local[t] # modcount, NEW j \in Keys
                 PROVE  c[j] \notin Plains /\ (c[j] = NoValue \/ c[j] = props'[j])
      BY Zenon
    <2>1. c = Filtered(t, cache[t], props')
      BY Zenon
    <2> HIDE DEF c
    <2> QED BY <2>1, FilteredAt, SMTT(30)
  <1>8. q.key = k /\ q.val = v /\ q \in [key : Keys, val : Writable(t) \cup {NoValue}] /\ q # NoCall
    <2>1. v \in Storages
      BY Kinds, Zenon
    <2> QED BY <2>1, StoreAssumption DEF Storages, StringsOf
  <1> HIDE DEF c
  <1>9. Acts(t)
    BY <1>1, <1>3, ZenonT(30) DEF Acts
  <1>10. OwnTypes(t)
    <2>1. /\ modcount' \in {modcount, modcount + 1} /\ modcount' <= MaxModCount
      BY WriteCounts, Zenon
    <2>2. modcount' \in Int /\ modcount' <= modcount'
      BY <2>1, SMTT(30) DEF SInv, TypeOK
    <2> QED BY <1>1, <1>2, <1>3, <1>4, <1>5, <1>8, <2>1, <2>2, Zenon DEF OwnTypes
  <1>11. OwnStrings(t)
    <2>1. ASSUME NEW j \in Keys, j # k, props'[j] \in StringsOf({t}) PROVE cache'[t][j] = props'[j]
      <3>1. props'[j] = props[j]
        BY <1>2, <2>1, Zenon
      <3>2. cache[t][j] = props[j]
        BY <1>1, <2>1, <3>1, Zenon DEF SInv, StringsHeld
      <3> QED BY <1>3, <1>5, <2>1, <3>1, <3>2, Zenon
    <2>2. \A j \in Keys, u \in Threads \ {t} :
            props'[j] \in StringsOf({u}) => props'[j] = props[j]
      BY <1>2, Kinds, Zenon
    <2>3. call'[t] = [key |-> k, val |-> props'[k]] /\ call'[t] # NoCall
      BY <1>1, <1>2, <1>8, Zenon
    <2>4. call'[t].key = k /\ call'[t].val = props'[k]
      BY <1>1, <1>2, <1>8, Zenon
    <2>5. t \in open'
      BY <1>1, Zenon
    <2>6. ASSUME NEW j \in Keys, props'[j] \in StringsOf({t})
          PROVE  \/ cache'[t][j] = props'[j]
                 \/ call'[t] # NoCall /\ call'[t] = [key |-> j, val |-> props'[j]]
      <3>1. CASE j = k
        BY <2>3, <3>1, Zenon
      <3>2. CASE j # k
        BY <2>1, <2>6, <3>2, Zenon
      <3> QED BY <3>1, <3>2, Zenon
    <2> QED BY <2>2, <2>4, <2>5, <2>6, Zenon DEF OwnStrings
  <1>12. FInv(E) /\ Spares(E) => OwnFresh(t, E)
    <2> SUFFICES ASSUME FInv(E), Spares(E) PROVE OwnFresh(t, E)
      BY Zenon
    <2>1. modcount' = modcount => \A j \in Keys, b \in Storages :
            Cacheable(b) /\ SameValue(b, props[j]) => SameValue(b, props'[j])
      <3> SUFFICES ASSUME modcount' = modcount, NEW j \in Keys, NEW b \in Storages,
                          Cacheable(b), SameValue(b, props[j])
                   PROVE  SameValue(b, props'[j])
        BY Zenon
      <3>1. props[j] \in Storages \cup {NoValue} /\ ~Cacheable(props[k])
        BY WriteCounts, Zenon DEF SInv, TypeOK
      <3>2. j # k
        BY <3>1, Sameness, Zenon
      <3> QED BY <1>2, <3>2, Zenon
    <2>2. local[t] = modcount => FreshCache(t, E)
      BY Zenon DEF FInv
    <2>3. v \in Plains => <<t, k>> \in E \/ props'[k] = props[k]
      BY <1>1, <1>2, Zenon DEF Spares, StartsPlainWrite
    <2>4. FreshCache(t, E)'
      <3> SUFFICES ASSUME NEW j \in Keys
                   PROVE  /\ c[j] \notin Plains
                          /\ \/ <<t, j>> \in E \/ c[j] = NoValue
                             \/ j = k /\ v \notin Plains
                             \/ SameValue(c[j], props'[j])
        <4>1. call'[t] # NoCall /\ call'[t].key = k /\ call'[t].val = v /\ cache'[t] = c
          BY <1>1, <1>3, <1>8, Zenon
        <4> QED BY <4>1, Zenon DEF FreshCache, SameValue, StringsOf
      <3>1. CASE local[t] = modcount
        <4>1. FreshCache(t, E) /\ c = cache[t] /\ call[t] = NoCall
          BY <1>1, <1>6, <2>2, <3>1, Zenon
        <4>2. c[j] \notin Plains
              /\ (<<t, j>> \in E \/ c[j] = NoValue \/ SameValue(c[j], props[j]))
          BY <4>1, Zenon DEF FreshCache
        <4>3. j # k => props'[j] = props[j]
          BY <1>2, Zenon
        <4> QED BY <2>3, <4>2, <4>3, Zenon
      <3>2. CASE local[t] # modcount
        <4>1. c[j] \notin Plains /\ (c[j] = NoValue \/ c[j] = props'[j])
          BY <1>7, <3>2, Zenon
        <4>2. c[j] # NoValue => props'[j] \in Storages /\ SameValue(props'[j], props'[j])
          BY <1>2, <4>1, Sameness, SMTT(30)
        <4> QED BY <4>1, <4>2, Zenon
      <3> QED BY <3>1, <3>2, Zenon
    <2>5. FreshCall(t)'
      <3>1. SameValue(v, v)
        BY Kinds, Sameness, Zenon
      <3> SUFFICES Cacheable(q.val) => SameValue(q.val, props'[q.key])
        BY <1>1, <1>3, Zenon DEF FreshCall, SameValue, StringsOf, Cacheable
      <3> QED BY <1>2, <1>8, <3>1, Zenon
    <2> QED BY <2>1, <2>4, <2>5, Zenon DEF OwnFresh
  <1> QED BY <1>9, <1>10, <1>11, <1>12, StringsStep, FreshStep, Zenon DEF SInv

-----------------------------------------------------------------------------
(* The theorems.                                                               *)

\* Types and strings are inductive together; so is the freshness of what is outside E.
LEMMA StoreNext ==
  ASSUME SInv, NEW E, [Next]_vars
  PROVE  SInv' /\ (FInv(E) /\ Spares(E) => FInv(E)')
  <1>1. CASE UNCHANGED vars
    <2>1. SInv'
      BY <1>1, Zenon DEF vars, SInv, TypeOK, StringsHeld, OwnCall, NoCache, StringsOf
    <2>2. FInv(E) => FInv(E)'
      BY <1>1, Zenon DEF vars, FInv, FreshCache, FreshCall, SameValue, Cacheable, StringsOf
    <2> QED BY <2>1, <2>2, Zenon
  <1>2. CASE Next
    <2>1. PICK t \in Threads :
            \/ Sync(t) \/ ToHash(t) \/ FullSync(t) \/ Update(t) \/ Connect(t) \/ Free(t)
            \/ \E k \in Keys : \/ ReadHit(t, k) \/ ReadFails(t, k) \/ ReadMiss(t, k) \/ Delete(t, k)
                               \/ \E v \in Writable(t) : Write(t, k, v)
            \/ \E S \in SUBSET Keys :
                 Take(t, S) \/ \E f \in [S -> MergeValues], b \in BOOLEAN : Merge(t, S, f, b)
      BY <1>2, Zenon DEF Next
    <2> QED BY <2>1, SyncStep, ToHashStep, FullSyncStep, UpdateStep, ConnectStep, FreeStep,
               ReadStep, DeleteStep, WriteStep, TakeStep, MergeStep, Zenon
  <1> QED BY <1>1, <1>2, Zenon

\* It all holds of a new object.
LEMMA StoreInit == ASSUME Init, NEW E PROVE SInv /\ FInv(E)
  <1>1. TypeOK
    BY StoreAssumption DEF Init, TypeOK, NoCache
  <1>2. StringsHeld /\ OwnCall
    BY Kinds, Zenon DEF Init, StringsHeld, OwnCall, NoCache
  <1>3. FInv(E)
    BY DEF Init, FInv
  <1> QED BY <1>1, <1>2, <1>3, Zenon DEF SInv

\* What is true of every entry: no up-to-date cache holds a plain value, and no call is
\* about to cache anything stale.
Entries == Threads \X Keys

LEMMA StoreInductive == Spec => [](SInv /\ FInv(Entries))
  <1>1. Init => SInv /\ FInv(Entries)
    BY StoreInit, Zenon
  <1>2. SInv /\ FInv(Entries) /\ [Next]_vars => (SInv /\ FInv(Entries))'
    <2>1. Spares(Entries)
      BY DEF Spares, Entries
    <2> QED BY <2>1, StoreNext, Zenon
  <1> QED BY <1>1, <1>2, PTL DEF Spec

\* Every reachable state has the types, so no thread ever holds a pointer into the heap of
\* another one (convert).
THEOREM StoreTypes == Spec => []TypeOK
  <1>1. SInv => TypeOK
    BY Zenon DEF SInv
  <1> QED BY <1>1, StoreInductive, PTL

\* For all threads, keys and values and every program: a string in the table belongs to an
\* open connection that still holds it, until persist_local_properties has replaced it.
THEOREM StringsHeldAlways == Spec => []StringsHeld
  <1>1. SInv => StringsHeld
    BY Zenon DEF SInv
  <1> QED BY <1>1, StoreInductive, PTL

\* For all threads, keys and values and every program: no step makes an entry of an
\* up-to-date cache stale, except a thread's own write of a plain value over that entry
\* (sync_local_properties, bump_modcount_nolock, update_local_property).
THEOREM CacheFreshAlways == Spec => CacheFresh
  <1>1. ASSUME SInv, FInv(Entries), [Next]_vars, NEW t \in Threads, NEW k \in Keys,
               ~Stale(t, k), ~StartsPlainWrite(t, k)
        PROVE  ~Stale(t, k)'
    <2> DEFINE E == Entries \ {<<t, k>>}
    <2>1. \A u \in Threads, j \in Keys : <<u, j>> \in E <=> ~(u = t /\ j = k)
      BY DEF Entries
    <2> HIDE DEF E
    <2>2. FInv(E)
      <3> SUFFICES ASSUME NEW u \in Threads, local[u] = modcount
                   PROVE  FreshCache(u, E) /\ FreshCall(u)
        BY Zenon DEF FInv
      <3>1. FreshCache(u, Entries) /\ FreshCall(u)
        BY <1>1, Zenon DEF FInv
      <3> QED BY <1>1, <2>1, <3>1, Zenon DEF FreshCache, Stale
    <2>3. Spares(E)
      BY <1>1, <2>1, Zenon DEF Spares
    <2>4. FInv(E)'
      BY <1>1, <2>2, <2>3, StoreNext, Zenon
    <2>5. <<t, k>> \notin E
      BY <2>1, Zenon
    <2>6. ASSUME local'[t] = modcount' PROVE FreshCache(t, E)'
      BY <2>4, <2>6, Zenon DEF FInv
    <2> QED BY <2>5, <2>6, Zenon DEF FreshCache, Stale, SameValue, StringsOf
  <1>2. SInv /\ FInv(Entries) /\ [Next]_vars =>
          [\A t \in Threads, k \in Keys : Stale(t, k)' => Stale(t, k) \/ StartsPlainWrite(t, k)]_vars
    BY <1>1, Zenon
  <1> QED BY <1>2, StoreInductive, PTL DEF Spec, CacheFresh
=============================================================================
