-------------------------------- MODULE Engines --------------------------------
(***************************************************************************)
(* WriteBatch (engine_util/write_batch.rs) with its safe point, and the     *)
(* Engines (engine_util/engines.rs) it is written to: the kv database and   *)
(* an optional raft database, each with a write-ahead log.  A write is      *)
(* synchronous or not; a crash keeps what was synchronised and some of the  *)
(* writes after it, in order (RocksDB, external).                           *)
(***************************************************************************)
EXTENDS Naturals, Sequences, FiniteSets, FiniteSetsExt

CONSTANTS BatchKeys,     \* encoded keys, key_with_cf of a family and a key
          PutSize, DeleteSize,   \* bytes an entry adds to size
          MaxEntries,    \* bound: entries of a batch
          MaxWrites      \* bound: writes of a behaviour

ASSUME EnginesAssumption == PutSize \in Nat /\ DeleteSize \in Nat /\ MaxWrites \in Nat

VARIABLES
  batch,      \* the WriteBatch
  mark,       \* ghost: the entries at the last safe point
  wal,        \* per open database, the batches written, oldest first
  synced,     \* per open database, how many of them a crash cannot lose
  promised,   \* ghost: per open database, the batches a synchronous write or a
              \* flush_wal answered for
  writes      \* number of writes (bound)

engineVars == <<batch, mark, wal, synced, promised, writes>>

EmptyBatch == [entries |-> <<>>, size |-> 0, safe_point |-> 0, safe_point_size |-> 0]
\* The bytes of the puts and of the deletes among the entries.
Having(entries, op) == {i \in DOMAIN entries : entries[i].op = op}
SizeOf(entries) ==
  PutSize * Cardinality(Having(entries, "Put")) + DeleteSize * Cardinality(Having(entries, "Delete"))

\* Engines::new with or without a raft engine.
EnginesInit ==
  /\ batch = EmptyBatch /\ mark = <<>>
  /\ \E open \in {{"kv"}, {"kv", "raft"}} :
       /\ wal = [d \in open |-> <<>>]
       /\ synced = [d \in open |-> 0]
       /\ promised = [d \in open |-> <<>>]
  /\ writes = 0

batchOnly == UNCHANGED <<wal, synced, promised, writes>>

set_cf(k) ==
  batch' = [batch EXCEPT !.entries = Append(@, [op |-> "Put", key |-> k]), !.size = @ + PutSize]
delete_cf(k) ==
  batch' = [batch EXCEPT !.entries = Append(@, [op |-> "Delete", key |-> k]), !.size = @ + DeleteSize]
AddEntry ==
  /\ Len(batch.entries) < MaxEntries
  /\ \E k \in BatchKeys : set_cf(k) \/ delete_cf(k)
  /\ UNCHANGED mark /\ batchOnly

set_safe_point ==
  /\ batch' = [batch EXCEPT !.safe_point = Len(batch.entries), !.safe_point_size = batch.size]
  /\ mark' = batch.entries /\ batchOnly

\* truncate leaves a shorter batch alone.
RolledBack(b) ==
  [b EXCEPT !.entries = SubSeq(@, 1, Min({b.safe_point, Len(@)})), !.size = b.safe_point_size]
rollback_to_safe_point == batch' = RolledBack(batch) /\ UNCHANGED mark /\ batchOnly

ResetMutant == /\ batch' = [EmptyBatch EXCEPT !.safe_point = batch.safe_point]
               /\ mark' = <<>> /\ batchOnly
Reset == batch' = EmptyBatch /\ mark' = <<>> /\ batchOnly

-----------------------------------------------------------------------------
Written(d) == Append(wal[d], batch.entries)

\* write_to_db_with_options under the sync options of Engines: an empty batch, and
\* a batch for a raft engine that is not there, is answered without a write.
WriteSyncMutant(d) ==
  /\ wal' = [wal EXCEPT ![d] = Written(d)]
  /\ promised' = [promised EXCEPT ![d] = Written(d)]
  /\ UNCHANGED synced
WriteSync(d) ==
  /\ wal' = [wal EXCEPT ![d] = Written(d)]
  /\ synced' = [synced EXCEPT ![d] = Len(Written(d))]
  /\ promised' = [promised EXCEPT ![d] = Written(d)]
\* write_to_db: the write-ahead log is not synchronised.
WriteAsync(d) ==
  /\ wal' = [wal EXCEPT ![d] = Written(d)]
  /\ UNCHANGED <<synced, promised>>

Writes(d, A) ==
  /\ d \in DOMAIN wal /\ batch.entries # <<>>
  /\ writes < MaxWrites /\ writes' = writes + 1
  /\ A
  /\ UNCHANGED <<batch, mark>>
write_kv == Writes("kv", WriteSync("kv"))
write_raft == Writes("raft", WriteSync("raft"))
write_kv_async == Writes("kv", WriteAsync("kv"))
write_raft_async == Writes("raft", WriteAsync("raft"))

\* The kv log first, then the raft log, which may fail: then nothing is answered for.
flush_wal ==
  \E flushed \in {DOMAIN wal, {"kv"}} :
    /\ synced' = [d \in DOMAIN wal |-> IF d \in flushed THEN Len(wal[d]) ELSE synced[d]]
    /\ promised' = IF flushed = DOMAIN wal THEN wal ELSE promised
    /\ UNCHANGED <<batch, mark, wal, writes>>

\* External: the machine stops; every log keeps a prefix.  The batch is lost.
Crash ==
  /\ \E n \in [DOMAIN wal -> 0..MaxWrites] :
       /\ \A d \in DOMAIN wal : n[d] \in synced[d]..Len(wal[d])
       /\ wal' = [d \in DOMAIN wal |-> SubSeq(wal[d], 1, n[d])]
       /\ synced' = n
  /\ batch' = EmptyBatch /\ mark' = <<>>
  /\ UNCHANGED <<promised, writes>>

EnginesNext ==
  \/ AddEntry \/ set_safe_point \/ rollback_to_safe_point \/ Reset
  \/ write_kv \/ write_raft \/ write_kv_async \/ write_raft_async \/ flush_wal \/ Crash

EnginesSpec == EnginesInit /\ [][EnginesNext]_engineVars

-----------------------------------------------------------------------------
\* At any time rollback_to_safe_point would leave exactly the entries, and the
\* size, the batch had when the safe point was set, or nothing after reset: the
\* safe point is right after rollbacks, resets and reuse of the batch.
RollbackRestores ==
  /\ RolledBack(batch).entries = mark
  /\ batch.safe_point_size = SizeOf(mark)
  /\ batch.size = SizeOf(batch.entries)

\* What write_kv, write_raft or flush_wal answered for is still there after any
\* crash, with everything written before it, the asynchronous writes included.
PromisedSurvives ==
  \A d \in DOMAIN wal :
    /\ Len(promised[d]) <= Len(wal[d])
    /\ promised[d] = SubSeq(wal[d], 1, Len(promised[d]))
================================================================================
