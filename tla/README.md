# A verification project for AegisDB core

TLA+ specifications of AegisDB core, model-checked with TLC, with proofs checked
by TLAPS. `PROJECT.json` says which definition models which lines of the source.

## 1. The system

| part | source | state | operations | interacts with |
|---|---|---|---|---|
| Latches | `transaction/latches` | map from key to `Notify` | acquire, release, wait | all writing handlers |
| Transaction handlers | `server/transaction_api.rs`, `transaction/mvcc` | `CF_LOCK`, `CF_WRITE`, `CF_DEFAULT` | Get, Scan, Prewrite, Commit, CheckTxnStatus, BatchRollback, ResolveLock | latches, storage, clients |
| Storage | `storage`, `engine_util` | database, LRU cache, three tiers, batches | batch write, point read, iterator, rebalance | raw API, handlers |
| Raft | `raft` | term, vote, log, progress, messages | tick, step, propose, ready/advance, membership, snapshot | raftstore |
| Raftstore | `raftstore` | regions and ranges, peers, local metadata | route, split, snapshot, recover, failure detection, placement | Raft, scheduler |
| Scheduler and PD | `scheduler`, `pd` | stores, regions, operators, streams, identifiers | heartbeats, operators, balancing, allocation | raftstore |
| Ingest service | `bin/ingest_http.rs` | running flag, worker, events, metrics, migration | start, stop, execute, migrate | raw API, Redis |

What is hard here: handlers interleave at every `await`, and the read path holds
no latch; clients retry, lose answers and disappear; a handler that fails keeps
its latches; a background task moves values while they are read and written; Raft
messages are lost and reordered; a peer crashes between the steps of a `Ready`;
several structures are updated in more than one critical section; heartbeats
arrive late and over more than one stream. `hazards` in `PROJECT.json` lists each
at its line.

## 2. Modules

| module | what it is |
|---|---|
| `KeyLatches` | what latches promise: all keys of a command at once, exclusively |
| `Latches` | `latches.rs`: the map, `Notify`, the wait loop, commands that die |
| `Mvcc` | locks, records and the searches over them |
| `TransactionApi` | the handlers, run by concurrent tasks, any requests in any order |
| `KvScan` | `kv_scan` and the `Scanner`, beside the handlers |
| `TxnClients` | `TransactionApi` with clients that follow two-phase commit (external) |
| `KeyCodec` | the key encodings, as operators on byte sequences |
| `Engine` | encoded keys and values, shared by the storages |
| `StandaloneStorage`, `TieredStorage` | database with LRU cache; three tiers with a mover |
| `RawKv`, `RawKvHistory` | the raw and multi-level API over either storage; the same with a history of writes |
| `RawScanAnswer` | the RocksDB iterator, the merged iterator of the tiers, what a raw scan answers |
| `Engines` | write batches with a safe point, engines with a log that survives crashes in part |
| `RaftLog`, `Raft` | the log of a node; election, replication, commit, restarts |
| `RawNode` | one peer: `ready`, `advance`, the records on disk, crashes |
| `StoreMeta`, `Splits` | region map and ranges; split check, split requests, the admin command |
| `RegionData` | region states and data on disk, snapshots, destroyed ranges, recovery |
| `BasicCluster`, `Schedulers`, `Pd` | PD's picture of the cluster; the operators schedulers propose; PD, its streams and the stores that report to it |
| `FailureDetector`, `StoreBalancer` | node health and leader switches; loads and placement of peers |
| `Ingest` | the worker, its records, the migration |
| `LatchesProofs`, `TransactionApiProofs`, `TxnClientsProofs`, `RaftProofs`, `RaftstoreProofs`, `StoreProofs`, `PdProofs`, `SupportProofs` | proofs |
| `MC*` | instances for TLC |

`Latches`: `latch_map` is the map. `pc` is the place in `wait_for_latches`:
`try` (before `acquire_latches`), `busy` (it returned a `Notify`), `await`
(`notified()` was called), `holding`. Each function body under the mutex is one
step. `late` is a history variable.

`TransactionApi`: `lock`, `write` and `data` are the column families. A handler is
`wait`, `latched` (all its reads, under latches), `write` (batch and release).
`Fail` is a return through `?` or a dropped future: latches leak. `KvGet` takes
one step per access. The keys of a request are a set: a list with a key twice is
not modelled. Values are named by their transaction. Primary keys are not empty.
The store of the handlers is atomic: a batch takes effect at once and a read sees
it. The storages below are not: keys that share a lossy cache key answer for one
another, the iterators of the tiers return nothing for a column family other than
the first, and a batch reaches the tiers in several writes. The results about
transactions are about the handlers over a store that is atomic, and do not carry
over to these storages.

`KvScan`: the iterator reads the records as they were when the scan began; values
and locks are read when their turn comes, the lock after the value.

`RawKv`: a call is a task whose steps are its database calls and lock
acquisitions. Keys are numbered in byte order and have a column family. The mover
takes one step per database call, and writes may fail or the process may crash at
any of them; a call may also be dropped where it waits for a lock, in particular
between database and cache. The cache key of the standalone storage is lossy, so
two keys share one in the instance. `kept`, `erased` and `spoilt` are history
variables; `spoilt` are the cache keys whose entry may miss the last write, because
another call had a value for them in hand or because the call was dropped.

`Raft`: a handler is an operator from a node's state and a message to a new state
and messages to send; `Hup`, `Beat`, `Propose`, `Receive` and `Restart` apply one
to a node. `votes` is the two sets `granted` and `rejected`; tick counters are
left out, a timer may fire at any moment. An entry is named by term, index and
the leader that made it. A panic stops the node. The driver that stores and sends
what is in a `Ready` is not in the repository: `Raft` takes it to store every
change before the messages leave. `stored` is the disk of a node: the entries by
index, as `write_raft_log` puts them, and the last index. What is stored is what
`unstable_entries` hands out, so a log with an index twice, or one of which a
persisted entry was replaced in memory, comes back from `Restart` as another log.

`RawNode` looks at that driver step by step for one peer: `at` is its place
between writing the log, writing the state, sending, applying and `advance`, and
a crash may come at each. What Raft does to the log meanwhile is any append after
the commit index and any commit. `clean` is a history variable: no persisted
entry was overwritten, which `stabled` does not survive (see below).

`Splits`: `asks` are split requests on their way to PD and to the admin command,
`halves` splits between their two `set_region` calls. The queue between the
message handler and the scheduler task, and the call of `AdminHandler::execute`,
are outside the repository. The split checker turns the start key into text before
it seeks, so for bytes that are not UTF-8 it begins elsewhere (`SeekPosition`).

`RegionData`: metadata and data share one key space, in byte order, as in the
code; `apply_snapshot` is two writes with a crash possible between them. `live` is a
history variable: the regions last written as Normal whose own range was not
destroyed since.

`Pd`: `conn` is the handler task of a heartbeat stream, with the region it is
handling; `truth` is what the Raft groups know (external), `regions` what PD last
heard. `put_region` takes three steps, `dispatch` two, as the code drops its
locks. Stores only log the commands they get.

`FailureDetector`, `Ingest`: one step per critical section or `await`; the mutexes
of `Ingest` on events and metrics are held across awaits and are variables. Requests
may be dropped at their awaits. `owner` and `ordered` are history variables: the
start that set `running` last, and that none did so between the two steps of a stop.
Time is whether a heartbeat is old.

`StoreBalancer`: `taken` is a history variable, the stores the last step chose.

## 3. Runs

| run | shows | instance |
|---|---|---|
| `txn_handlers` | locks are not stolen, values exist, commits consume locks and stay, prewrite is all or nothing, no dirty read, latches are used as promised | 2 tasks, 2 keys, 2 overlapping transactions, one failing handler; the locks of transaction 1 are resolved |
| `txn_clients` | without resolvers: atomic commit, outcomes kept, every transaction ends; values of the snapshot; scans return committed values, each key once, in order, and agree with `kv_get`; with a resolver no key stays locked | 2 coordinators, of which the first can disappear (beside a resolver both), and a reader, a resolver or a scan; timestamps up to 5, scans at the two commit timestamps |
| `raft` | entries come from elected leaders, committed entries are not rewritten by a running node, nor a leader's log; what a peer acknowledged is on its disk, entries are applied in order and once, `has_ready` is exact; latches: exclusion, wake-up of registered waiters, refinement of `KeyLatches` | 3 nodes replicating with one that restarts, or failing over in term 2, node n1 elected with the vote of n2 alone; 1 peer, 3 entries, a crash; 3 tasks, 2 keys in both orders |
| `store` | four parts, below | below |
| `support` | five parts, below | below |

A run holds parts that share no state: `part` (in `raft` `scenario`, in
`txn_clients` `third`) is chosen at the start and the other parts rest.

`store`:
- raw: a key put and never deleted keeps a copy through moves, failures and crashes
  (`PutSurvives`; the copy may be older than the last put, see below); the cache
  entry of a key with a cache key of its own is right unless it is spoilt
  (`CacheMatchesDb`); a scan of the standalone storage skips nothing
  (`ScanIsComplete`). 2 clients with 2 calls, puts of one value, 3 keys in 2
  families, each tier in use at the start, one round of the mover, a crash or a
  dropped call.
- splits: every key has exactly one region and is routed to it, however many
  splits of a region overlap (`EveryKeyRouted`). 3 keys that are not UTF-8, with
  distributions of sizes over 2 families, up to 3 splits.
- codec: encoding keeps order (`EncodingKeepsOrder`) and decoding inverts it
  (`DecodingInverts`), for both encodings. All keys
  up to length 3 over the bytes 0, 1 and 255, groups of 2: shorter than, equal to
  and longer than a group.
- pd: the indexes of `BasicCluster` agree with its regions (`IndexAgrees`), a
  stream that is bound has a live handler (`BoundStreamIsAlive`), and a command to
  remove a peer never goes out on a view with too few (`ScaleDownKeepsMinimum`).
  3 stores, 1 region, 2 streams of two stores or of one that reconnects, and
  every budget of one membership change, leader change, report or restart with one
  or two heartbeats. Regions of which two heartbeats were handled at once are left
  out of `IndexAgrees` and `ScaleDownKeepsMinimum`.

`support`:
- detector: an outage is reported once (`OneReportPerOutage`); a leader that stays
  silent is reported in the end (`SilentLeaderIsReported`). 2 nodes, of which one
  has its last outage, 1 region.
- control: while `running` is set, a worker that was not aborted is there to clear
  it, or the start that set it has not spawned one yet or was dropped before it could
  (`RunningMeansWorker`); it is cleared in the end, if that start was neither dropped
  nor deadlocked (`RunningEnds`). Both leave out a start that overtook a stop. 3
  requests, 2 workers.
- migration: it ends whatever fails (`MigrationEnds`). 2 migrations, 2 rows.
- balancer: no allocation takes a store that is set down, whatever updates of its
  load arrived before (`DownStoreGetsNothing`). 3 stores.
- engines: a rollback restores the safe point (`RollbackRestores`), an answered
  write survives (`PromisedSurvives`). 1 or 2 engines, 2 writes.

Bounds. Two tasks make every pair of handlers race, two transactions every kind
of conflict; the number of requests is not bounded. `txn_handlers` takes steps that
commute with all others (the answer of a handler, latches that are free) at once,
which leaves out no store, latch map or answer. A scan sees the same at every
timestamp between two commits, so it is started at the commits. `LogicalUnit` is 2 instead of
2^16 and `U64` is 8, so that both sides of the TTL test happen. Two clients and
the mover meet in every pair of steps of the storages; two calls are a write and
what follows it. Raft: each bound is a set of pairs, which node starts which
election, proposes at which last index, beats at which commit index; a message
stays on the network, so it can come late, twice or never. `MaxEntries` is 2:
repeated appends make a log grow without end, and two entries are enough for a log
with one index twice. Four `Notify` objects are all that three tasks can refer to at
once; a new one is the first that nobody refers to, as all are alike. Deadlock is checked in `txn_handlers`, where only
tasks that wait for leaked latches may stay for ever. It is off where the system
may stop: leaked latches, panicked nodes, clients that come to an end, and
parts whose bounds run out.

Symmetry: the two tasks of `txn_handlers`, the clients and the streams of `store`;
no liveness property is checked in these runs.

Fairness. Weak fairness of a task's steps: the runtime polls tasks that can run.
Latch waits are single steps in `TxnClients`, so a lost wake-up (below) is
excluded there. Weak fairness of coordinators and the timestamp oracle: they are
live clients. Strong fairness of `AskStatus`: somebody keeps asking about a lock
that blocks them. Weak fairness of the detection loop, of its callback, of the
leader monitor (both run on a timer for ever) and of the steps of a migration
(every request to Redis is answered or fails). Weak fairness of the steps of a start
and of a key operation that has the mutex on events, and strong fairness of the
workers: the mutexes are tokio's, which serve waiters in order, and the server
answers or the connection fails. `ResolverFreesLocks` is about locks
only: whether the resolver decides rightly is `resolved_commit`.

### Disagreements between the code and its comments and tests

Seven runs end in a counterexample; `findings` quotes the lines.

- `latches_lost_wakeup`: a release between `acquire_latches` and `notified()`.
- `prewrite_conflict`: the search stops at `start_ts`, so it finds no conflict.
- `resolved_commit`: `current_write` looks under `start_ts` while commits are
  stored under `commit_ts`, so a resolver takes a committed transaction for a
  rolled-back one and rolls half of it back.
- `rollback_hides`: a rollback record hides the version below it.
- `raft_agreement`: `RaftLog::append` does not cut a conflicting first entry, and
  two nodes commit different entries.
- `raw_get`: a put goes to the warm tier while an older copy in the hot tier keeps
  answering.
- `region_survives`: `destroy_range` means to skip metadata, but tests the first byte
  for a prefix that the stored keys do not have; a range that begins at the empty key
  takes the states of other regions along.

Visible in the definitions, without a run:
- the repeated commit of a committed key is refused (`KvCommit`), a rollback
  record is reported as a commit (`KvCheckTxnStatus`), lock time plus TTL wraps
  around (`TtlExpired`);
- a candidate goes back to an older term and may vote twice in it
  (`step_candidate`), a cluster of one or two nodes never commits (`CommitIndex`),
  a late rejection takes `next_index` to 0 and the leader panics (`SendPanics`);
- `next_entries` includes an entry past the commit index, and panics when all is
  committed (`NextPanics`); what `RawNode` applies may therefore be uncommitted, and
  `AppliesInOrder` says nothing against it;
- `stabled` is not lowered when entries are cut, which is what `clean` leaves out of
  the properties of `RawNode`; for the same reason, and because entries are stored by
  index, a restart may put another entry at a committed position, which
  `CommittedNotOverwritten` leaves out (`Restart`);
- a put during a move can be lost although a copy of the key remains: the mover puts
  the value it read into the other tier and deletes the key from the tier in which the
  new value is (`MoverPut`, `tiered_storage.rs:112-120`); after a delete and a put the
  key is lost altogether. `PutSurvives` leaves both out;
- a scan of the tiers drops its first item, ignores the start key, returns nothing for
  a column family other than the first, returns a key once per copy, and misses a key
  that is promoted between the snapshots of two tiers (`MergedItems`, `TieredScan`,
  `ScanOpen`); `ScanIsComplete` is about the standalone storage only;
- a cache entry is stale, until the next write that meets no other call or the next
  start, after a write to the database while another call had a value for it in hand,
  and after a call dropped between database and cache (`spoilt`); and keys that share
  a lossy cache key get each other's values (`CacheKeyOf`);
- after a crash between the two writes of `apply_snapshot` a region is recovered as
  Normal without its data (`ApplyBegin`, `StoreRestart`);
- an old heartbeat stream that ends unbinds the live stream that replaced it
  (`StreamEnds`, `pd/service.rs:197`), and its store gets no commands until it connects
  again; `BoundStreamIsAlive` says only that no ended stream stays bound;
- two heartbeats of one region handled at once can leave the indexes of
  `BasicCluster` wrong (`PutRead`, `PutUnindex`, `PutIndex`), and `dispatch` may then send the command of
  another operator than the one it checked;
- a sort whose comparator takes unknown stores as equal to all may scale down a
  follower that is not the most loaded (`ScaleDown`), and the split checker may count
  keys outside its region (`SeekKey`);
- `check_and_switch_leader` may remove a leader set meanwhile (`SwitchRemove`);
- `start` and `record` of the ingest service take their two mutexes in opposite
  orders and can stop for good (`StartEvents`, `RecordMetric`); a start dropped before
  its spawn leaves the service "already running" without a worker (`CallDropped`), and
  a stop can abort the worker of a start that came between its two steps;
- a second store that bootstraps is answered Ok and not registered
  (`StateBootstrap`).

## 4. Proofs

For all values of the constants that meet the named assumptions.

`LatchesProofs`: `LatchesTypes`, `LatchesExclude`, `WakeupReachesWaiters`,
`LatchesRefine`. The inductive invariant adds what a command knows at each place
of `wait_for_latches` and that all keys of a holding command are in the map under
one `Notify`.

`TransactionApiProofs`: type correctness (`HandlersTyped`) and all seven properties
of `txn_handlers`, and of the scan (`ScansReadCommitted`). None is inductive alone: a batch was decided on earlier. `IInv`
adds that a task past its latch wait holds the latches of its keys, that a
buffered change is still justified by the store (`WellBuffered`, `Pending`), that
locks and records come from transactions, and that a read in progress has seen a
commit (`ReadsCommitted`). `OneTask` collects what a step of one task has to
show; then there is one lemma per action. `LatchesAsPromised` is the refinement of
`KeyLatches` by the handlers (`UsesKeyLatches`): every step acquires or frees the
keys of one command, leaks them, or leaves the latches alone (`HoldersLatched`).
A scan (`ScanSpec`: `KvScan` beside handlers of any requests) returns committed values
only because no handler changes the record of a Put (`PutsStay`), and each key once
because the iterator is never before `current_key` (`ItemsAhead`).
Assumed: timestamps are unique, commits come after starts, the primary is among
the keys.

`TxnClientsProofs`: two-phase commit over the handlers is
atomic (`CommitIsAtomic`), keeps the outcome it announced (`OutcomesAreKept`) and
answers reads from a snapshot (`ReadsAreSnapshots`), for any keys, transactions,
coordinators and readers, clients that disappear and handlers that interleave, as
long as nobody resolves locks (`resolving` records that somebody began to). What
the store holds of a transaction is nothing, all locks, the commit of the primary
or all commits, and `TxnOK` says which of them goes with each place of its
coordinator and of the request under way. A read is a snapshot because of `Closed`:
no transaction whose lock is on the key can still commit at or below the version
of the read, and none becomes able to, since the clock has passed that version. The invariant rests on `IInv`.
A scan of a store at rest answers what `kv_get` finds (`ScansAgreeWithGets`). `ScanView`
says that the records of all keys after `current_key` are still to come and that the
answer is complete up to it. It needs the clients: the scanner passes over a Put
without a value, and only where no committed value is ever deleted (`ValuesKept`) does it
meet none. With arbitrary requests a rollback after a commit deletes the value.

`RaftProofs`: `AuthorsAreElected`,
`LeadersOnlyAppend`, `CommittedStays`, for any finite set of nodes and any
bounds, with messages lost, repeated and reordered and nodes that restart.
`ElectedAuthors` needs to know where votes and entries come from: `RaftInv` says
that what a candidate counts are answers on the network, that a leader has been
elected, and that appends carry entries of elected authors only. The other two are
about positions while the code works with indexes, and after a repeated append the
two differ. `CommittedStays` is about a process while it runs: a restart may read
another entry back. What holds is that a log starts at index 1 and that a leader's log is
not longer than its last index, so that a proposal cuts nothing. `HandlerOK` is
what a handler promises about the node and its messages; there is one lemma per
handler, then one per action. `StoredOK` is what a restart relies on: stored entries
are under their own index, the first before any other. `CommitIndexIsMatch` shows that the quorum-th
element of the sorted match indexes exists.

`RaftstoreProofs`, one peer: what is acknowledged is durable (`AcknowledgedStays`),
entries are applied in order (`AppliedInOrder`), `has_ready` is exact
(`ReadyIsAnnounced`), for any log length and number of crashes. `PeerInv` relates
the three copies of the log: while `clean` holds, entries are at the position of
their index, a `Ready` holds those that follow the stable ones, and the disk agrees
with memory up to its last index, which is `stabled` until the raft state is written
and the end of the `Ready` from then on. `LoadIsPrefix` shows that a restart reads
back just that.

`RaftstoreProofs`, splits: between splits every key belongs to one region and
`find_region_by_key` returns it (`KeysAreRouted`), for any keys, any data and any
number of splits under way. `EveryKeyRouted` says nothing while a split is between
its two `set_region` calls, so `SplitsInv` speaks of pieces, the regions and the
right halves still to be entered: they partition the keys (`PartitionOK`), and an id
from PD goes from one task to one half to one region (`FreshOK`). A split at the
start key of a region leaves it without a key, and it keeps its pair in the list of
ranges; `LastOK` says why a lookup does not stop at it: the last pair of a start key
belongs to a region that holds this key, or the half that holds it is still to come.
`Inserted` is the fact about `set_region` behind this: the sort puts the new pair
behind all pairs with its start key and keeps the others in order. It needs the
list to be sorted with one pair per region (`RangesOK`), which is also why the model
may insert where the code sorts. Assumed (`SplitsAssumption`): PD's ids differ from
each other and from the first region's.

`StoreProofs`, for any keys, batches, clients, stored contents and bounds:
- `PutsSurvive`: a key with an acknowledged put and no delete keeps a copy. `KeptOK`
  says what the mover and the calls know between two steps: between its put and its
  delete the mover's key has a copy in the target tier unless a delete of it was begun,
  the target is never the tier the copy is taken from, and a call that has written the
  database and not yet the cache has its puts in the database. A batch of a call
  deletes only keys that are counted as erased.
- `CacheMatches`: the cache is right unless spoilt. `CacheOK` says of an entry that is
  not spoilt and of the only key with that cache key (`EntryOK`): what a call between
  database and cache will write is the stored value, a get about to fill the entry has
  the stored value in hand, and the entry is right when no call is between. The last modification of a batch for such an entry is the last one of
  its key (`BatchEntry`).

`PdProofs`, for any stores, regions, streams, peers, schedulers and budgets:
- `IndexesAgree`: `put_region` of a region that one handler works on finds the
  region it read, empties the indexes in its second section and fills them in its
  third (`IndexOK`).
- `StreamsAreAlive`: a handler that ends unbinds whatever is bound for its store, its
  own stream or a later one.
- `RemovalsKeepMinimum`: the epoch of a view determines its stores, for all views
  anywhere in the system (`SeenOK`), and a removal was decided on a view with more
  than the minimum, so all views of its epoch have it (`Decided`); `dispatch`
  discards an operator whose region has moved on by more than its own step.
Assumed (`PdAssumption`): `Nil` is no stream, store, region, view or operator.

`SupportProofs`:
- `OneReport`: a node that is not Failed has no report of its current outage,
  delivered or waiting in the loop (`Unreported`).
- `AnsweredWritesSurvive`: what was answered for lies below `synced` in every log
  (`Durable`), since a crash cuts a log anywhere above.
- `RollbacksRestore`: the safe point is never behind the end of the batch, and the
  sizes are those of the entries (`SafePoint`).
- `DownStoresGetNothing`: a store that is down has a load that says so (`LoadsInv`),
  and only stores whose load says up are chosen.
- `RunningHasWorker`: while the flag is set and no start overtook a stop, no stop is
  about to abort a worker (`Flagged`), since a stop clears the flag first; and a worker
  that ends by itself clears it.

Each of these invariants was checked with TLC on the instance of its run before it
was proved.

Only model-checked: liveness (`EndsWithoutResolvers`, `ResolverFreesLocks`,
`SilentLeaderIsReported`, `MigrationEnds`, `RunningEnds`; out of the prover's reach); the codecs
and the raw scan (`EncodingKeepsOrder`, `DecodingInverts`, `ScanIsComplete`), whose
definitions fold over sequences or sort sets into them, and what a recursive definition
computes is beyond these provers.

## 5. Not modelled, and why

- Raft snapshots, membership changes and leader transfer; the asynchronous twins
  of the handlers, which `RawNode` does not use. The next thing to add: snapshots
  need log compaction, which moves `first_index` off 1 and so the invariant.
- Waiting for the locks of `StoreMeta`, `BasicCluster` and the operator
  controller: a critical section is one step. The lock orders are listed as
  hazards.
- A restart of PD, which keeps nothing on disk.
- `multi_level_scan`: its end key lacks the four bytes for the length that encoded keys
  begin with, so every key is longer and the length check (`multi_level_api.rs:131`) ends
  the scan at the first one; `StoreMeta::remove_region`, which only a test calls; the admin request of the scheduler task, which carries only a
  number.
- `WalManager`: a list in memory that nothing replays. `server/epoch.rs`: no
  handler calls it.
- `main.rs` (a demo with a scheduler client of its own), launchers other than the
  two of `Pd`, transaction commands of the command line, protocol code, status
  pages and JSON rendering, validation of the configuration.
