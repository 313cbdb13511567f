--------------------------- MODULE TransactionApi ---------------------------
(***************************************************************************)
(* The transactional request handlers of                                   *)
(* src/src/server/transaction_api.rs, run by concurrent tasks over one     *)
(* store.  A handler that writes goes through                              *)
(*                                                                         *)
(*    wait    wait_for_latches on its keys;                                *)
(*    latched it reads the store and fills the write buffer of its MvccTxn,*)
(*            or releases the latches and answers with an error;           *)
(*    write   storage.write applies the buffer in one batch, the latches   *)
(*            are released and the answer is sent.                         *)
(*                                                                         *)
(* KvResolveLock looks for its keys before it has any latch.  KvGet has    *)
(* no latch at all: every access it makes is a step of its own.            *)
(*                                                                         *)
(* The clients are the environment.  Any request about any transaction can *)
(* arrive at any time and any number of times, which covers retries,       *)
(* duplicates, late arrivals and crashed coordinators.  What is assumed of *)
(* clients is that timestamps come from one oracle (TimestampsAssumption). *)
(***************************************************************************)
EXTENDS Mvcc

CONSTANTS
    Keys, Tasks,
    Timestamps,  \* a bounded range of the u64 timestamps, 0 excluded
    StartTs,     \* the start timestamps of the transactions
    CommitTs,    \* the commit timestamp of each transaction
    Mutation,    \* the keys each transaction writes: a function to Put/Delete
    Primary,     \* the primary key of each transaction
    ReadTs,      \* the versions readers ask for
    CurrentTs,   \* the clock readings status checks come with
    Fallible,    \* the tasks that can fail or be dropped halfway
    LockTtl,     \* lock_ttl of the prewrite requests
    LogicalUnit, \* codec.rs: the logical part of a timestamp, 2^16 in the code
    U64,         \* the number of u64 values
    Free, Leaked \* a key no task has latched; one a dead task left latched

ASSUME TimestampsAssumption ==
    /\ Timestamps \subseteq (Nat \ {0})
    /\ StartTs \subseteq Timestamps
    /\ CommitTs \in [StartTs -> Timestamps \ StartTs]
    /\ \A s \in StartTs : CommitTs[s] > s
    /\ \A s, t \in StartTs : CommitTs[s] = CommitTs[t] => s = t
    /\ ReadTs \subseteq Timestamps /\ CurrentTs \subseteq Timestamps

ASSUME MutationAssumption ==
    /\ Mutation \in [StartTs -> UNION {[K -> {"Put", "Delete"}] : K \in SUBSET Keys}]
    /\ \A s \in StartTs : Primary[s] \in DOMAIN Mutation[s]

ASSUME ConstantsAssumption ==
    /\ LockTtl \in Nat /\ LogicalUnit \in Nat \ {0} /\ U64 \in Nat \ {0}
    /\ Free \notin Tasks /\ Leaked \notin Tasks /\ Free # Leaked

VARIABLES
    lock, write, data,  \* the three column families
    latches,  \* Keys -> Tasks \cup {Free, Leaked}
    pc, req,  \* what each task does, and for which request
    keys,     \* the keys the task has latched or waits for
    buf,      \* MvccTxn.writes: the modifications of each key
    resp      \* the answer; for KvGet also the version found on the way

store == <<lock, write, data>>
vars == <<lock, write, data, latches, pc, req, keys, buf, resp>>
-----------------------------------------------------------------------------
(* Requests and answers. *)

Request(op, s, K, c, now) == [op |-> op, start |-> s, keys |-> K, commit |-> c, now |-> now]

NoReq == Request("None", 0, {}, 0, 0)

Resp(kind, ts) == [kind |-> kind, ts |-> ts]

NoResp == Resp("None", 0)

PrewriteRequests == {Request("Prewrite", s, DOMAIN Mutation[s], 0, 0) : s \in StartTs}

CommitRequests ==
    UNION {{Request("Commit", s, K, CommitTs[s], 0) :
               K \in (SUBSET DOMAIN Mutation[s]) \ {{}}} : s \in StartTs}

BatchRollbackRequests ==
    UNION {{Request("BatchRollback", s, K, 0, 0) :
               K \in (SUBSET DOMAIN Mutation[s]) \ {{}}} : s \in StartTs}

CheckTxnStatusRequests ==
    {Request("CheckTxnStatus", s, {Primary[s]}, 0, now) : s \in StartTs, now \in CurrentTs}

\* commit_version 0 asks for a rollback.
ResolveLockRequests ==
    UNION {{Request("ResolveLock", s, {}, c, 0) : c \in {0, CommitTs[s]}} : s \in StartTs}

GetRequests == {Request("Get", version, {k}, 0, 0) : version \in ReadTs, k \in Keys}

Requests ==
    PrewriteRequests \cup CommitRequests \cup BatchRollbackRequests
        \cup CheckTxnStatusRequests \cup ResolveLockRequests \cup GetRequests
-----------------------------------------------------------------------------
(* The write buffer.  A handler modifies a key at most once: at most one   *)
(* change of its lock, one record and one change of its value.             *)

Keep == Lock(0, "Keep")

Modify(l, at, record, value) == [lock |-> l, at |-> at, record |-> record, value |-> value]

PrewriteModify(s, k) ==
    Modify(Lock(s, Mutation[s][k]), 0, NoWrite,
           IF Mutation[s][k] = "Put" THEN "put" ELSE "delete")

CommitModify(s, c, kind) == Modify(NoLock, c, Write(s, kind), "keep")

\* Mutant: the lock is left in place.
RollbackModifyKeepsLock(s, l) == Modify(Keep, s, Write(s, "Rollback"), "delete")

RollbackModify(s, l) == Modify(l, s, Write(s, "Rollback"), "delete")

RollbackRecord(s) == Modify(Keep, s, Write(s, "Rollback"), "keep")

NoBuf == [k \in {} |-> NoWrite]

\* storage.write(txn.writes()): one atomic batch.
ApplyWrites(b, s) ==
    /\ lock' = [k \in Keys |-> IF k \in DOMAIN b /\ b[k].lock # Keep
                               THEN b[k].lock ELSE lock[k]]
    /\ write' = [k \in Keys |-> IF k \in DOMAIN b /\ b[k].at # 0
                                THEN [write[k] EXCEPT ![b[k].at] = b[k].record] ELSE write[k]]
    /\ data' = [k \in Keys |-> IF k \in DOMAIN b /\ b[k].value = "put" THEN data[k] \cup {s}
                               ELSE IF k \in DOMAIN b /\ b[k].value = "delete" THEN data[k] \ {s}
                               ELSE data[k]]
-----------------------------------------------------------------------------
(* Steps shared by the handlers. *)

\* A request arrives.  Only KvResolveLock and KvGet do something before
\* they ask for latches.
Receive(p, r) ==
    /\ pc[p] = "idle"
    /\ pc' = [pc EXCEPT ![p] = IF r.op = "ResolveLock" THEN "scan"
                               ELSE IF r.op = "Get" THEN "get1" ELSE "wait"]
    /\ req' = [req EXCEPT ![p] = r]
    /\ keys' = [keys EXCEPT ![p] = r.keys]
    /\ UNCHANGED <<store, latches, buf, resp>>

\* Mutant: taken without looking.
AcquireLatchesBlind(p) ==
    /\ pc[p] = "wait"
    /\ latches' = [k \in Keys |-> IF k \in keys[p] THEN p ELSE latches[k]]
    /\ pc' = [pc EXCEPT ![p] = "latched"]
    /\ UNCHANGED <<store, req, keys, buf, resp>>

\* wait_for_latches returns: all keys at once, as KeyLatches promises.
AcquireLatches(p) ==
    /\ pc[p] = "wait"
    /\ \A k \in keys[p] : latches[k] = Free
    /\ latches' = [k \in Keys |-> IF k \in keys[p] THEN p ELSE latches[k]]
    /\ pc' = [pc EXCEPT ![p] = "latched"]
    /\ UNCHANGED <<store, req, keys, buf, resp>>

ReleaseLatches(p) ==
    latches' = [k \in Keys |-> IF latches[k] = p THEN Free ELSE latches[k]]

\* Mutant: the early return forgets the latches.
RefuseLatched(p, answer) ==
    /\ pc' = [pc EXCEPT ![p] = "done"]
    /\ resp' = [resp EXCEPT ![p] = answer]
    /\ UNCHANGED <<store, latches, req, keys, buf>>

\* An early return: the latches go, the buffer is dropped, nothing is written.
Refuse(p, answer) ==
    /\ ReleaseLatches(p)
    /\ pc' = [pc EXCEPT ![p] = "done"]
    /\ resp' = [resp EXCEPT ![p] = answer]
    /\ UNCHANGED <<store, req, keys, buf>>

\* The handler goes on to storage.write and will then give this answer.
Prepare(p, b, answer) ==
    /\ buf' = [buf EXCEPT ![p] = b]
    /\ pc' = [pc EXCEPT ![p] = "write"]
    /\ resp' = [resp EXCEPT ![p] = answer]
    /\ UNCHANGED <<store, latches, req, keys>>

\* storage.write, release_latches, return of the answer.
WriteAndRelease(p) ==
    /\ pc[p] = "write"
    /\ ApplyWrites(buf[p], req[p].start)
    /\ ReleaseLatches(p)
    /\ pc' = [pc EXCEPT ![p] = "done"]
    /\ buf' = [buf EXCEPT ![p] = NoBuf]
    /\ UNCHANGED <<req, keys, resp>>

\* The client has the answer (or is gone); the task can serve another request.
Reply(p) ==
    /\ pc[p] = "done"
    /\ pc' = [pc EXCEPT ![p] = "idle"]
    /\ req' = [req EXCEPT ![p] = NoReq]
    /\ keys' = [keys EXCEPT ![p] = {}]
    /\ resp' = [resp EXCEPT ![p] = NoResp]
    /\ UNCHANGED <<store, latches, buf>>

\* A latched handler leaves through `?` (reader(), get_lock or storage.write
\* failed) or is dropped by the server when the connection goes away.  The
\* batch has been applied or not; the latches are never released.
Fail(p) ==
    /\ p \in Fallible
    /\ pc[p] \in {"latched", "write"}
    /\ \/ UNCHANGED store
       \/ pc[p] = "write" /\ ApplyWrites(buf[p], req[p].start)
    /\ latches' = [k \in Keys |-> IF latches[k] = p THEN Leaked ELSE latches[k]]
    /\ pc' = [pc EXCEPT ![p] = "done"]
    /\ buf' = [buf EXCEPT ![p] = NoBuf]
    /\ resp' = [resp EXCEPT ![p] = Resp("Error", 0)]
    /\ UNCHANGED <<req, keys>>
-----------------------------------------------------------------------------
(* The handlers that write, once they have their latches. *)

Latched(p, op) == pc[p] = "latched" /\ req[p].op = op

OwnLock(k, s) == lock[k].ts = s

Unlocked(k) == lock[k] = NoLock

ForeignLock(k, s) == ~Unlocked(k) /\ ~OwnLock(k, s)

\* The check of kv_prewrite for a record newer than the transaction.
WriteConflict(k, s) == \E c \in most_recent_write(write[k], s) : c > s

\* Mutant: the lock is not looked at.
PrewriteErrorConflict(k, s) == WriteConflict(k, s)

PrewriteError(k, s) == ForeignLock(k, s) \/ WriteConflict(k, s)

\* Mutant: keys with errors are skipped, the others written.
KvPrewritePartial(p) ==
    LET s == req[p].start
        good == {k \in keys[p] : ~PrewriteError(k, s)}
    IN
    /\ Latched(p, "Prewrite")
    /\ Prepare(p, [k \in good |-> PrewriteModify(s, k)], Resp("Ok", 0))

\* Every key is examined; one error of any key and nothing is written.
KvPrewrite(p) ==
    LET s == req[p].start IN
    /\ Latched(p, "Prewrite")
    /\ \/ /\ \E k \in keys[p] : PrewriteError(k, s)
          /\ Refuse(p, Resp("Errors", 0))
       \/ /\ \A k \in keys[p] : ~PrewriteError(k, s)
          /\ Prepare(p, [k \in keys[p] |-> PrewriteModify(s, k)], Resp("Ok", 0))

\* The check of kv_commit for a key without a lock: "already committed".
CommitFound(k, s, c) == \E d \in current_write(write[k], s) : d = c

\* The first key with another transaction's lock, or with neither lock nor
\* record, ends the request; which of two such keys comes first is up to
\* the client's list.
KvCommit(p) ==
    LET s == req[p].start
        c == req[p].commit
    IN
    /\ Latched(p, "Commit")
    /\ \/ /\ \E k \in keys[p] : ForeignLock(k, s)
          /\ Refuse(p, Resp("Locked", 0))
       \/ /\ \E k \in keys[p] : Unlocked(k) /\ ~CommitFound(k, s, c)
          /\ Refuse(p, Resp("NotLocked", 0))
       \/ /\ \A k \in keys[p] : OwnLock(k, s) \/ (Unlocked(k) /\ CommitFound(k, s, c))
          /\ Prepare(p, [k \in {j \in keys[p] : OwnLock(j, s)} |-> CommitModify(s, c, lock[k].kind)],
                     Resp("Ok", 0))

physical_time(ts) == ts \div LogicalUnit

\* Mutant: the comparison the wrong way round.
TtlExpiredSwapped(s, now) == physical_time(now) < (physical_time(s) + LockTtl) % U64

\* The sum wraps around in a release build.
TtlExpired(s, now) == physical_time(now) > (physical_time(s) + LockTtl) % U64

KvCheckTxnStatus(p) ==
    LET s == req[p].start
        k == Primary[s]
    IN
    /\ Latched(p, "CheckTxnStatus")
    /\ \/ /\ ForeignLock(k, s)
          /\ Refuse(p, Resp("Locked", LockTtl))
       \/ /\ OwnLock(k, s)
          /\ TtlExpired(s, req[p].now)
          /\ Prepare(p, [j \in {k} |-> RollbackModify(s, NoLock)], Resp("TtlExpireRollback", 0))
       \/ /\ OwnLock(k, s)
          /\ ~TtlExpired(s, req[p].now)
          /\ Refuse(p, Resp("Locked", LockTtl))
       \/ /\ Unlocked(k)
          /\ \E c \in current_write(write[k], s) : c > 0 /\ Refuse(p, Resp("Committed", c))
       \/ /\ Unlocked(k)
          /\ \A c \in current_write(write[k], s) : c = 0
          /\ Prepare(p, [j \in {k} |-> RollbackRecord(s)], Resp("LockNotExistRollback", 0))

\* The check of kv_batch_rollback for a key that must not be rolled back.
AlreadyCommitted(k, s) == \E c \in current_write(write[k], s) : c > s

RollbackError(k, s) == ForeignLock(k, s) \/ AlreadyCommitted(k, s)

KvBatchRollback(p) ==
    LET s == req[p].start IN
    /\ Latched(p, "BatchRollback")
    /\ \/ \E k \in keys[p] :
             /\ RollbackError(k, s)
             /\ Refuse(p, Resp(IF ForeignLock(k, s) THEN "Locked" ELSE "Abort", 0))
       \/ /\ \A k \in keys[p] : ~RollbackError(k, s)
          /\ Prepare(p, [k \in keys[p] |-> RollbackModify(s, IF OwnLock(k, s) THEN NoLock ELSE Keep)],
                     Resp("Ok", 0))

\* Without latches: the keys that carry a lock of the transaction now.
ResolveLockScan(p) ==
    LET found == {k \in Keys : OwnLock(k, req[p].start)} IN
    /\ pc[p] = "scan"
    /\ keys' = [keys EXCEPT ![p] = found]
    /\ IF found = {}
       THEN /\ pc' = [pc EXCEPT ![p] = "done"]
            /\ resp' = [resp EXCEPT ![p] = Resp("Ok", 0)]
       ELSE /\ pc' = [pc EXCEPT ![p] = "wait"]
            /\ UNCHANGED resp
    /\ UNCHANGED <<store, latches, req, buf>>

\* Mutant: the locks found by the scan are taken to be still there.
KvResolveLockStale(p) ==
    LET s == req[p].start
        c == req[p].commit
    IN
    /\ Latched(p, "ResolveLock")
    /\ \/ /\ c > 0
          /\ Prepare(p, [k \in keys[p] |-> CommitModify(s, c, lock[k].kind)], Resp("Ok", 0))
       \/ /\ c = 0
          /\ Prepare(p, [k \in keys[p] |-> RollbackModify(s, NoLock)], Resp("Ok", 0))

\* With latches: the locks that are still there are committed or rolled back.
KvResolveLock(p) ==
    LET s == req[p].start
        c == req[p].commit
        owned == {k \in keys[p] : OwnLock(k, s)}
    IN
    /\ Latched(p, "ResolveLock")
    /\ \/ /\ c > 0
          /\ Prepare(p, [k \in owned |-> CommitModify(s, c, lock[k].kind)], Resp("Ok", 0))
       \/ /\ c = 0
          /\ Prepare(p, [k \in owned |-> RollbackModify(s, NoLock)], Resp("Ok", 0))
-----------------------------------------------------------------------------
(* kv_get: two checks of the lock, the search of CF_WRITE, the value. *)

GetKey(p) == CHOOSE k \in req[p].keys : TRUE

GetDone(p, answer) ==
    /\ pc' = [pc EXCEPT ![p] = "done"]
    /\ resp' = [resp EXCEPT ![p] = answer]
    /\ UNCHANGED <<store, latches, req, keys, buf>>

GetGoto(p, label) ==
    /\ pc' = [pc EXCEPT ![p] = label]
    /\ UNCHANGED <<store, latches, req, keys, buf, resp>>

\* Mutant: straight to the search.
GetCheckNoLock(p) == pc[p] = "get1" /\ GetGoto(p, "get3")

\* The check of kv_get itself.
GetCheckLock(p) ==
    /\ pc[p] = "get1"
    /\ IF ForeignLock(GetKey(p), req[p].start)
       THEN GetDone(p, Resp("Locked", 0)) ELSE GetGoto(p, "get2")

\* The check of get_value: a lock that has come since is an error ...
GetValueCheckLock(p) ==
    /\ pc[p] = "get2"
    /\ GetGoto(p, IF ForeignLock(GetKey(p), req[p].start) THEN "getErr" ELSE "get3")

\* ... which kv_get answers after one more look at the lock: gone again
\* means "not found", and its owner is not compared this time.
GetLockedError(p) ==
    /\ pc[p] = "getErr"
    /\ GetDone(p, IF Unlocked(GetKey(p)) THEN Resp("NotFound", 0) ELSE Resp("Locked", 0))

GetMostRecentWrite(p) ==
    LET k == GetKey(p)
        found == most_recent_write(write[k], req[p].start)
    IN
    /\ pc[p] = "get3"
    /\ \/ /\ \A c \in found : write[k][c].kind # "Put"
          /\ GetDone(p, Resp("NotFound", 0))
       \/ \E c \in found :
             /\ write[k][c].kind = "Put"
             /\ pc' = [pc EXCEPT ![p] = "get4"]
             /\ resp' = [resp EXCEPT ![p] = Resp("None", write[k][c].start_ts)]
             /\ UNCHANGED <<store, latches, req, keys, buf>>

GetDefault(p) ==
    /\ pc[p] = "get4"
    /\ GetDone(p, IF resp[p].ts \in data[GetKey(p)]
                  THEN Resp("Value", resp[p].ts) ELSE Resp("NotFound", 0))
-----------------------------------------------------------------------------
Init ==
    /\ lock = [k \in Keys |-> NoLock]
    /\ write = [k \in Keys |-> [c \in Timestamps |-> NoWrite]]
    /\ data = [k \in Keys |-> {}]
    /\ latches = [k \in Keys |-> Free]
    /\ pc = [p \in Tasks |-> "idle"]
    /\ req = [p \in Tasks |-> NoReq]
    /\ keys = [p \in Tasks |-> {}]
    /\ buf = [p \in Tasks |-> NoBuf]
    /\ resp = [p \in Tasks |-> NoResp]

\* Everything a task does between the arrival of a request and its answer.
Handle(p) ==
    \/ AcquireLatches(p)
    \/ KvPrewrite(p)
    \/ KvCommit(p)
    \/ KvCheckTxnStatus(p)
    \/ KvBatchRollback(p)
    \/ ResolveLockScan(p)
    \/ KvResolveLock(p)
    \/ WriteAndRelease(p)
    \/ GetCheckLock(p)
    \/ GetValueCheckLock(p)
    \/ GetLockedError(p)
    \/ GetMostRecentWrite(p)
    \/ GetDefault(p)

Next ==
    \E p \in Tasks :
        \/ \E r \in Requests : Receive(p, r)
        \/ Handle(p)
        \/ Fail(p)
        \/ Reply(p)

Spec == Init /\ [][Next]_vars
-----------------------------------------------------------------------------
(* Properties of the handlers whatever the clients send. *)

Locks == {NoLock} \cup [ts : StartTs, kind : {"Put", "Delete"}]

Writes == {NoWrite} \cup [start_ts : StartTs, kind : {"Put", "Delete", "Rollback"}]

Modifies ==
    [lock : Locks \cup {Keep}, at : Timestamps \cup {0}, record : Writes,
     value : {"put", "delete", "keep"}]

Buffers == UNION {[K -> Modifies] : K \in SUBSET Keys}

Answers ==
    {"None", "Ok", "Errors", "Locked", "NotLocked", "Abort", "Committed", "TtlExpireRollback",
     "LockNotExistRollback", "Value", "NotFound", "Error"}

Labels == {"idle", "scan", "wait", "latched", "write", "get1", "get2", "getErr", "get3", "get4", "done"}

TypeOK ==
    /\ lock \in [Keys -> Locks]
    /\ write \in [Keys -> [Timestamps -> Writes]]
    /\ data \in [Keys -> SUBSET StartTs]
    /\ latches \in [Keys -> Tasks \cup {Free, Leaked}]
    /\ pc \in [Tasks -> Labels]
    /\ req \in [Tasks -> Requests \cup {NoReq}]
    /\ keys \in [Tasks -> SUBSET Keys]
    /\ buf \in [Tasks -> Buffers]
    /\ resp \in [Tasks -> [kind : Answers, ts : Nat]]

\* kv_prewrite reads the lock and writes its own two steps later: no lock is
\* ever replaced by the lock of another transaction, it has to be removed
\* first; and a lock never changes its kind.
LockNotStolen ==
    [][\A k \in Keys : lock[k] # NoLock => lock'[k] \in {lock[k], NoLock}]_vars

\* Whatever handlers race, a key locked for a Put has its value in CF_DEFAULT:
\* a commit of that lock makes a value visible that exists.
LockedValuePresent == \A k \in Keys : lock[k].kind = "Put" => lock[k].ts \in data[k]

\* kv_commit and kv_resolve_lock turn a lock into a record: a commit record
\* appears only where the lock of that transaction is still in place, with
\* the lock's kind, and in the same step the lock goes.
CommitConsumesLock ==
    [][\A k \in Keys, s \in StartTs :
          (write[k][CommitTs[s]] = NoWrite /\ write'[k][CommitTs[s]] # NoWrite)
              => /\ lock[k].ts = s
                 /\ write'[k][CommitTs[s]] = Write(s, lock[k].kind)
                 /\ lock'[k] = NoLock]_vars

\* No later commit, rollback, status check or resolve changes or removes a
\* commit record.
CommitRecordStable ==
    [][\A k \in Keys, s \in StartTs :
          write[k][CommitTs[s]] # NoWrite => write'[k][CommitTs[s]] = write[k][CommitTs[s]]]_vars

\* kv_prewrite locks all keys of the transaction or none: a step that gives
\* one key its lock leaves the transaction with all its locks.
PrewriteAllOrNothing ==
    [][\A s \in StartTs :
          (\E k \in Keys : lock[k].ts # s /\ lock'[k].ts = s)
              => \A k \in DOMAIN Mutation[s] : lock'[k].ts = s]_vars

\* The unlatched kv_get answers with a value only if a commit record at or
\* below its version says so: never with the value of a lock.
NoDirtyRead ==
    \A p \in Tasks :
        (req[p].op = "Get" /\ resp[p].kind = "Value")
            => \E c \in Timestamps :
                  c <= req[p].start /\ write[GetKey(p)][c] = Write(resp[p].ts, "Put")

KL == INSTANCE KeyLatches WITH holder <- latches

\* The handlers use the latch table the way KeyLatches promises it: all keys
\* of a command together, never while another command has one of them.
UsesKeyLatches == KL!Spec
-----------------------------------------------------------------------------
(* What comments of the code and the README say, and the code does not do. *)

Committed(k, s) == IsCommit(write[k][CommitTs[s]])

Decides(p, op) == Latched(p, op) /\ pc'[p] # "latched" /\ resp'[p].kind # "Error"

\* transaction_api.rs:99, README:189: a prewrite finds the write conflict when
\* a key has a record committed after the transaction started.
PrewriteDetectsConflict ==
    [][\A p \in Tasks :
          (Decides(p, "Prewrite") /\ \E k \in keys[p], t \in StartTs :
                                         Committed(k, t) /\ CommitTs[t] > req[p].start)
              => resp'[p].kind = "Errors"]_vars

\* The newest commit of k at or below a version, whatever rollbacks lie above.
CommittedValue(k, version) ==
    LET commits == {c \in Visible(write[k], version) : IsCommit(write[k][c])} IN
    {c \in commits : write[k][c].kind = "Put" /\ \A d \in commits : d <= c}

AnswersNotFound(p) == pc'[p] = "done" /\ resp'[p].kind = "NotFound"

\* README:181, the read flow guarantees snapshot isolation: a transaction that
\* was rolled back hides no committed value.
RollbackHidesNothing ==
    [][\A p \in Tasks :
          (pc[p] = "get3" /\ AnswersNotFound(p))
              => CommittedValue(GetKey(p), req[p].start) = {}]_vars
=============================================================================
