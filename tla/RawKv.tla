-------------------------------- MODULE RawKv --------------------------------
(***************************************************************************)
(* The raw and multi-level key-value API over either storage: gRPC clients *)
(* and the CLI issue one call at a time, each call runs as a task whose    *)
(* steps are its database calls and lock acquisitions, and the mover, cache*)
(* eviction, failing or dropped calls and crashes interleave with them.    *)
(***************************************************************************)
EXTENDS TieredStorage, StandaloneStorage

CONSTANTS Clients,
          Backends,       \* subset of {"tiered", "standalone"}
          Stored,         \* contents an earlier run of the server may have left
          Batches,        \* batches a write may carry: <<key, value or None>>
          FullKey,        \* encode_multi_level_key: region and secondary key -> Keys
          Limit,          \* limit of a scan
          MaxCalls,       \* bound: calls per client
          MaxRounds,      \* bound: rounds of the mover
          MaxCrashes      \* bound: crashes and failed calls

StoredValues == {s[t][k] : s \in Stored, t \in Tiers, k \in Keys}
Modifies == Keys \X (Values \cup {None})

ASSUME RawKvAssumption ==
  /\ Stored \subseteq [Tiers -> [Keys -> StoredValues]]
  /\ Batches \subseteq Seq(Modifies)
  /\ \A rs \in DOMAIN FullKey : FullKey[<<rs[1], rs[2]>>] \in Keys

VARIABLES
  backend,   \* the Storage the server was created with
  task,      \* the call each client is executing
  bounds,    \* [calls, rounds, crashes] so far
  erased,    \* ghost: keys some delete was begun on
  kept,      \* ghost: other keys with an acknowledged put
  spoilt     \* ghost: cache keys whose entry may miss the last write to the database

kvVars == <<task, bounds, erased, kept, spoilt>>
vars == <<backend, tiers, access, mover, db, cache, kvVars>>

NoTask == [pc |-> "idle", batch |-> <<>>, i |-> 1, d |-> 1, key |-> 0, got |-> None,
           snaps |-> <<>>, alone |-> FALSE]

\* write and scan tasks work on several keys.
Busy(c) == task[c].pc # "idle"
Touches(t) == {t.batch[i][1] : i \in 1..Len(t.batch)} \cup ({t.key} \ {0})
CacheKeysOf(t) == {CacheKeyOf[k] : k \in Touches(t)}
Puts(b) == {b[i][1] : i \in {j \in 1..Len(b) : b[j][2] # None}}
Deletes(b) == {b[i][1] : i \in {j \in 1..Len(b) : b[j][2] = None}}

AnyCopy(s) == [k \in Keys |-> IF s.hot[k] # None THEN s.hot[k]
                              ELSE IF s.warm[k] # None THEN s.warm[k] ELSE s.cold[k]]

Init ==
  /\ backend \in Backends
  /\ \E s \in Stored : TieredInit(s) /\ StandaloneInit(AnyCopy(s))
  /\ task = [c \in Clients |-> NoTask]
  /\ bounds = [calls |-> 0, rounds |-> 0, crashes |-> 0]
  /\ kept = {k \in Keys : db[k] # None}
  /\ erased = {} /\ spoilt = {}

tieredUnchanged == UNCHANGED <<tiers, access, mover>>
standaloneUnchanged == UNCHANGED <<db, cache>>

-----------------------------------------------------------------------------
(* Calls begin. *)
\* alone is a ghost: nothing else has run during the call so far.
NotAlone(ts) == [c \in Clients |-> [ts[c] EXCEPT !.alone = FALSE]]

Begin(c, t) ==
  LET alone == mover.pc = "idle" /\ \A o \in Clients : ~Busy(o)
  IN  /\ ~Busy(c) /\ bounds.calls < MaxCalls
      /\ task' = [NotAlone(task) EXCEPT ![c] = [t EXCEPT !.alone = alone]]
      /\ bounds' = [bounds EXCEPT !.calls = @ + 1]
      /\ erased' = erased \cup Deletes(t.batch)
      /\ kept' = kept \ Deletes(t.batch)
      /\ UNCHANGED <<spoilt, backend>> /\ tieredUnchanged /\ standaloneUnchanged

Write(c, b) == Begin(c, [NoTask EXCEPT !.pc = "apply", !.batch = b])
RawPut(c, k, v) == Write(c, <<<<k, v>>>>)
RawDelete(c, k) == Write(c, <<<<k, None>>>>)
RawGet(c, k) == Begin(c, [NoTask EXCEPT !.pc = "get", !.key = k])
RawScan(c, k) == Begin(c, [NoTask EXCEPT !.pc = "scan", !.key = k])

\* The multi-level API builds the key from the context's region and then does
\* the same; every request it makes is also one of the raw requests.
MultiLevelPut(c, r, s, v) == Write(c, <<<<FullKey[<<r, s>>], v>>>>)
MultiLevelGet(c, r, s) == RawGet(c, FullKey[<<r, s>>])
MultiLevelDelete(c, r, s) == Write(c, <<<<FullKey[<<r, s>>], None>>>>)

\* The gRPC handlers of the raw API pass key, column family and value on.
GrpcRawGet(c) == \E k \in Keys : RawGet(c, k)
GrpcRawPut(c) == \E k \in Keys, v \in Values : RawPut(c, k, v)
GrpcRawDelete(c) == \E k \in Keys : RawDelete(c, k)
GrpcRawScan(c) == \E k \in Keys : RawScan(c, k)

\* The commands GET, SET, DEL and SCAN of the client, one call each; a line with
\* missing arguments makes none.
CliGet(c) == GrpcRawGet(c)
CliSet(c) == GrpcRawPut(c)
CliDel(c) == GrpcRawDelete(c)
CliScan(c) == GrpcRawScan(c)
RunCli(c) == CliGet(c) \/ CliSet(c) \/ CliDel(c) \/ CliScan(c)

MultiLevelService(c) ==
  \E rs \in DOMAIN FullKey :
    \/ \E v \in Values : MultiLevelPut(c, rs[1], rs[2], v)
    \/ MultiLevelGet(c, rs[1], rs[2])
    \/ MultiLevelDelete(c, rs[1], rs[2])

\* Batches of several modifications come from the transactional handlers.
BatchWrite(c) == \E b \in Batches : Write(c, b)

-----------------------------------------------------------------------------
(* Calls proceed. *)
Return(c) == task' = [task EXCEPT ![c] = NoTask]
ghostsUnchanged == UNCHANGED <<erased, kept, spoilt, bounds, backend>>

\* A write that ends successfully.
Acknowledge(c) ==
  LET b == task[c].batch
  IN  /\ Return(c)
      /\ kept' = kept \cup (Puts(b) \ erased)
      /\ UNCHANGED <<erased, spoilt, bounds, backend>>

Current(c) == task[c].batch[task[c].i]
More(c) == task[c].i <= Len(task[c].batch)

\* TieredStorage::write: a put is batched and counted at once ...
ApplyPut(c) ==
  /\ backend = "tiered" /\ task[c].pc = "apply" /\ More(c) /\ Current(c)[2] # None
  /\ access' = Bumped(access, Current(c)[1])
  /\ task' = [task EXCEPT ![c].i = @ + 1]
  /\ UNCHANGED <<tiers, mover>> /\ standaloneUnchanged /\ ghostsUnchanged

\* ... a delete goes to the three tiers in turn, before any put of the batch ...
ApplyDelete(c) ==
  /\ backend = "tiered" /\ task[c].pc = "apply" /\ More(c) /\ Current(c)[2] = None
  /\ tiers' = [tiers EXCEPT ![TierOrder[task[c].d]][Current(c)[1]] = None]
  /\ task' = [task EXCEPT ![c].d = IF @ < 3 THEN @ + 1 ELSE 1,
                          ![c].i = IF task[c].d < 3 THEN @ ELSE @ + 1]
  /\ UNCHANGED <<access, mover>> /\ standaloneUnchanged /\ ghostsUnchanged

\* ... and the batched puts reach the warm tier in one write.
LastPut(batch, k, before) == LastOn(batch, LAMBDA m : m[1] = k /\ m[2] # None, before)
ApplyCommit(c) ==
  /\ backend = "tiered" /\ task[c].pc = "apply" /\ ~More(c)
  /\ tiers' = [tiers EXCEPT !["warm"] = [k \in Keys |-> LastPut(task[c].batch, k, @[k])]]
  /\ Acknowledge(c)
  /\ UNCHANGED <<access, mover>> /\ standaloneUnchanged

\* StandaloneStorage::write: the database, then the cache under its lock.
\* A call that meanwhile has a value for the same cache key in hand may put an
\* older one there; with no such call the entry is as good as new.
InHand(c, e) == task[c].pc \in {"cache", "fill"} /\ e \in CacheKeysOf(task[c])
WriteDb(c) ==
  /\ backend = "standalone" /\ task[c].pc = "apply"
  /\ db' = DbAfter(task[c].batch) /\ UNCHANGED cache
  /\ task' = [task EXCEPT ![c].pc = "cache"]
  /\ spoilt' = (spoilt \ CacheKeysOf(task[c]))
                 \cup {e \in CacheKeysOf(task[c]) : \E o \in Clients \ {c} : InHand(o, e)}
  /\ tieredUnchanged /\ UNCHANGED <<erased, kept, bounds, backend>>

WriteCache(c) ==
  /\ task[c].pc = "cache"
  /\ cache' = CacheAfter(task[c].batch) /\ UNCHANGED db
  /\ Acknowledge(c)
  /\ tieredUnchanged

\* A database access of the call fails, or its client goes away and the call is
\* dropped where it waits for a lock: what it has done so far stays, so an entry
\* may miss the write to the database.
CallFails(c) ==
  /\ Busy(c) /\ bounds.crashes < MaxCrashes
  /\ bounds' = [bounds EXCEPT !.crashes = @ + 1]
  /\ Return(c)
  /\ spoilt' = IF task[c].pc = "cache" THEN spoilt \cup CacheKeysOf(task[c]) ELSE spoilt
  /\ UNCHANGED <<erased, kept, backend>> /\ tieredUnchanged /\ standaloneUnchanged

\* TieredReader::get_cf: hot, warm, cold; a hit is counted.
GetTier(c) ==
  LET v == tiers[TierOrder[task[c].d]][task[c].key]
  IN  /\ backend = "tiered" /\ task[c].pc = "get"
      /\ IF v # None THEN task' = [task EXCEPT ![c].pc = "bump", ![c].got = v]
         ELSE IF task[c].d < 3 THEN task' = [task EXCEPT ![c].d = @ + 1]
         ELSE Return(c)
      /\ tieredUnchanged /\ standaloneUnchanged /\ ghostsUnchanged

GetBump(c) ==
  /\ task[c].pc = "bump"
  /\ access' = Bumped(access, task[c].key)
  /\ Return(c)
  /\ UNCHANGED <<tiers, mover>> /\ standaloneUnchanged /\ ghostsUnchanged

\* StandaloneReader::get_cf: the cache, the database, then the cache is filled.
GetPeek(c) ==
  /\ backend = "standalone" /\ task[c].pc = "get"
  /\ IF cache[CacheKeyOf[task[c].key]] # None THEN Return(c)
     ELSE task' = [task EXCEPT ![c].pc = "read"]
  /\ tieredUnchanged /\ standaloneUnchanged /\ ghostsUnchanged

GetRead(c) ==
  /\ task[c].pc = "read"
  /\ IF db[task[c].key] = None THEN Return(c)
     ELSE task' = [task EXCEPT ![c].pc = "fill", ![c].got = db[task[c].key]]
  /\ tieredUnchanged /\ standaloneUnchanged /\ ghostsUnchanged

GetFill(c) ==
  /\ task[c].pc = "fill"
  /\ cache' = [cache EXCEPT ![CacheKeyOf[task[c].key]] = task[c].got] /\ UNCHANGED db
  /\ Return(c)
  /\ tieredUnchanged /\ ghostsUnchanged

\* raw_scan: an iterator per database, each over its own snapshot.
ScanOpen(c) ==
  /\ task[c].pc = "scan"
  /\ IF backend = "tiered" /\ task[c].d < 3
     THEN task' = [task EXCEPT ![c].d = @ + 1,
                               ![c].snaps = Append(@, tiers[TierOrder[task[c].d]])]
     ELSE Return(c)
  /\ tieredUnchanged /\ standaloneUnchanged /\ ghostsUnchanged

-----------------------------------------------------------------------------
(* The background mover, eviction and crashes. *)
Rebalance ==
  /\ backend = "tiered"
  /\ \/ /\ MoverStart /\ bounds.rounds < MaxRounds
        /\ bounds' = [bounds EXCEPT !.rounds = @ + 1]
        /\ task' = NotAlone(task)
        /\ UNCHANGED <<erased, kept, spoilt, backend>>
     \/ /\ MoverStep
        /\ UNCHANGED kvVars /\ UNCHANGED backend
     \/ /\ MoverFail /\ bounds.crashes < MaxCrashes
        /\ bounds' = [bounds EXCEPT !.crashes = @ + 1]
        /\ UNCHANGED <<task, erased, kept, spoilt, backend>>
  /\ standaloneUnchanged

EvictEntry ==
  /\ \E c \in CacheKeys : Evict(c)
  /\ tieredUnchanged /\ UNCHANGED kvVars /\ UNCHANGED backend

\* The process dies: the databases stay, the rest is lost.
Crash ==
  /\ bounds.crashes < MaxCrashes
  /\ bounds' = [bounds EXCEPT !.crashes = @ + 1]
  /\ task' = [c \in Clients |-> NoTask]
  /\ access' = [k \in Keys |-> 0] /\ mover' = Idle /\ cache' = EmptyCache
  /\ spoilt' = {}
  /\ UNCHANGED <<tiers, db, erased, kept, backend>>

Step(c) ==
  \/ ApplyPut(c) \/ ApplyDelete(c) \/ ApplyCommit(c) \/ WriteDb(c) \/ WriteCache(c)
  \/ GetTier(c) \/ GetBump(c) \/ GetPeek(c) \/ GetRead(c) \/ GetFill(c) \/ ScanOpen(c)

Next ==
  \/ \E c \in Clients : RunCli(c) \/ MultiLevelService(c) \/ BatchWrite(c)
  \/ \E c \in Clients : Step(c) \/ CallFails(c)
  \/ Rebalance \/ EvictEntry \/ Crash

Spec == Init /\ [][Next]_vars

-----------------------------------------------------------------------------
HasCopy(k) == IF backend = "tiered" THEN \E t \in Tiers : tiers[t][k] # None
                                    ELSE db[k] # None

\* A key that was put and never deleted is in some tier (or in the database) in
\* every state: rewriting it during a move, a failing move and a crash between
\* the mover's put and its delete never lose the last copy.  Which value it has is
\* left open: the mover may put an older one in place of one written meanwhile.
PutSurvives == \A k \in kept : HasCopy(k)

\* The cache entry of a key with a cache key of its own is the stored value of
\* that key, unless a call is between its writes to database and cache, whatever
\* gets and writes overlap and fail and whatever is evicted.  Only two things
\* spoil an entry, until the next write that meets no other call or the next
\* start: a write to the database while another call has the entry in hand, and a
\* call dropped between its two writes.
CacheMatchesDb ==
  \A k \in Keys :
    LET e == CacheKeyOf[k]
    IN  /\ \A j \in Keys : CacheKeyOf[j] = e => j = k
        /\ e \notin spoilt /\ cache[e] # None
        => \/ cache[e] = db[k]
           \/ \E c \in Clients : task[c].pc = "cache" /\ e \in CacheKeysOf(task[c])
==============================================================================
