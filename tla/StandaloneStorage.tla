-------------------------- MODULE StandaloneStorage --------------------------
(***************************************************************************)
(* storage/standalone_storage.rs and storage/reader.rs: one RocksDB and an *)
(* LRU cache of values.  The cache key is made with from_utf8_lossy, so    *)
(* keys that are not UTF-8 may share one: CacheKeyOf need not be injective.*)
(***************************************************************************)
EXTENDS Engine

CONSTANT CacheKeyOf     \* "{cf}:{lossy key}" of an encoded key

VARIABLES
  db,      \* the database; survives a crash
  cache    \* cache: cache key -> value, None when absent

CacheKeys == {CacheKeyOf[k] : k \in Keys}
EmptyCache == [c \in CacheKeys |-> None]

StandaloneInit(stored) == db = stored /\ cache = EmptyCache

\* A Modify is <<key, value>>, a deletion has value None.  The value of the last
\* one of a batch that hits, otherwise what was there before.
LastOn(batch, hit(_), before) ==
  LET I == {i \in 1..Len(batch) : hit(batch[i])}
  IN  IF I = {} THEN before ELSE batch[CHOOSE i \in I : \A j \in I : j <= i][2]

DbAfter(batch) == [k \in Keys |-> LastOn(batch, LAMBDA m : m[1] = k, db[k])]

CacheAfterMutant(batch) ==
  [c \in CacheKeys |-> LastOn(batch, LAMBDA m : CacheKeyOf[m[1]] = c /\ m[2] # None, cache[c])]
CacheAfter(batch) == [c \in CacheKeys |-> LastOn(batch, LAMBDA m : CacheKeyOf[m[1]] = c, cache[c])]

\* The LRU drops an entry when it is full.
Evict(c) ==
  /\ cache[c] # None
  /\ cache' = [cache EXCEPT ![c] = None]
  /\ UNCHANGED db
==============================================================================
