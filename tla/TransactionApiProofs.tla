------------------------ MODULE TransactionApiProofs ------------------------
(***************************************************************************)
(* The properties of the request handlers for any number of keys, tasks    *)
(* and transactions, whatever the clients send and whichever tasks fail.   *)
(*                                                                         *)
(* None of the properties is inductive by itself: a handler decides under  *)
(* its latches and writes in a later step.  The invariant therefore says   *)
(* what a decision that is not yet written still relies on (Pending): the  *)
(* lock it has seen is still there, because every other writer of the key  *)
(* needs the latch (LatchesHeld).  LocksFromPrewrite and RecordsFromTxns   *)
(* tie locks and records to the mutations of their transactions, which is  *)
(* what makes a repeated prewrite or commit write the same thing again.    *)
(*                                                                         *)
(* A scan beside the handlers reads committed values because the record of *)
(* a Put never changes (PutsStay) and the iterator only moves forward.  On *)
(* a store at rest it sees what kv_get sees (ScanView).                    *)
(***************************************************************************)
EXTENDS KvScan, TLAPS

\* The request and the keys a task works with at each point of its handler.
Control ==
    \A p \in Tasks :
        /\ pc[p] # "idle" => req[p] \in Requests
        /\ pc[p] \in {"wait", "latched", "write"} => req[p].op # "Get"
        /\ pc[p] \in {"get1", "get2", "getErr", "get3", "get4"} => req[p].op = "Get"
        /\ pc[p] = "scan" => req[p].op = "ResolveLock"
        /\ (pc[p] \in {"wait", "latched", "write"} /\ req[p].op # "ResolveLock")
              => keys[p] = req[p].keys
        /\ pc[p] # "done" => resp[p].kind # "Value"

\* A task between wait_for_latches and release_latches has all its latches.
LatchesHeld ==
    \A p \in Tasks : pc[p] \in {"latched", "write"} => \A k \in keys[p] : latches[k] = p

\* A buffered modification is one of five, and the lock it was decided on
\* has not changed since.
WellBuffered(r, b, k) ==
    LET s == r.start
        m == b[k]
    IN
    \/ /\ r.op = "Prewrite"
       /\ m = PrewriteModify(s, k)
       /\ Unlocked(k) \/ OwnLock(k, s)
       /\ DOMAIN b = DOMAIN Mutation[s]
    \/ /\ r.op # "Prewrite"
       /\ \/ m = CommitModify(s, CommitTs[s], lock[k].kind) /\ OwnLock(k, s)
          \/ m = RollbackModify(s, NoLock) /\ OwnLock(k, s)
          \/ m = RollbackModify(s, Keep) /\ Unlocked(k)
          \/ m = RollbackRecord(s) /\ Unlocked(k)

Pending ==
    \A p \in Tasks :
        pc[p] = "write" =>
            /\ DOMAIN buf[p] \subseteq keys[p]
            /\ \A k \in DOMAIN buf[p] : WellBuffered(req[p], buf[p], k)

\* A lock is one its transaction asks for.
LocksFromPrewrite ==
    \A k \in Keys :
        lock[k] # NoLock => /\ k \in DOMAIN Mutation[lock[k].ts]
                            /\ lock[k].kind = Mutation[lock[k].ts][k]

\* A record is a rollback under the start timestamp, or the mutation of its
\* transaction under the commit timestamp.
RecordsFromTxns ==
    \A k \in Keys, c \in Timestamps :
        write[k][c] # NoWrite =>
            LET s == write[k][c].start_ts IN
            \/ c = s /\ write[k][c].kind = "Rollback"
            \/ /\ c = CommitTs[s]
               /\ k \in DOMAIN Mutation[s]
               /\ write[k][c].kind = Mutation[s][k]

\* NoDirtyRead, from the moment kv_get has found the version.
ReadOK(p) ==
    \E c \in Timestamps :
        c <= req[p].start /\ write[GetKey(p)][c] = Write(resp[p].ts, "Put")

ReadsCommitted ==
    \A p \in Tasks :
        (pc[p] = "get4" \/ (req[p].op = "Get" /\ resp[p].kind = "Value")) => ReadOK(p)

StoreInv == LocksFromPrewrite /\ LockedValuePresent /\ RecordsFromTxns

IInv == TypeOK /\ Control /\ LatchesHeld /\ Pending /\ StoreInv /\ ReadsCommitted
-----------------------------------------------------------------------------
(* Requests, timestamps and buffers. *)

\* What each kind of request carries.
LEMMA RequestFacts ==
    ASSUME NEW r \in Requests
    PROVE  /\ r.op \in {"Prewrite", "Commit", "BatchRollback", "CheckTxnStatus", "ResolveLock", "Get"}
           /\ r.op # "Get" => r.start \in StartTs
           /\ r.op = "Prewrite" => r.keys = DOMAIN Mutation[r.start]
           /\ r.op = "Commit" => r.commit = CommitTs[r.start]
           /\ r.op = "CheckTxnStatus" => r.keys = {Primary[r.start]}
           /\ r.op = "ResolveLock" => r.commit \in {0, CommitTs[r.start]}
           /\ r.op = "Get" => r.start \in Timestamps /\ \E k \in Keys : r.keys = {k}
           /\ r.keys \subseteq Keys
<1>1. \A s \in StartTs : DOMAIN Mutation[s] \subseteq Keys /\ Primary[s] \in Keys
  BY MutationAssumption
<1>2. CASE r \in PrewriteRequests
  BY <1>1, <1>2 DEF PrewriteRequests, Request
<1>3. CASE r \in CommitRequests
  BY <1>1, <1>3 DEF CommitRequests, Request
<1>4. CASE r \in BatchRollbackRequests
  BY <1>1, <1>4 DEF BatchRollbackRequests, Request
<1>5. CASE r \in CheckTxnStatusRequests
  BY <1>1, <1>5 DEF CheckTxnStatusRequests, Request
<1>6. CASE r \in ResolveLockRequests
  BY <1>6 DEF ResolveLockRequests, Request
<1>7. CASE r \in GetRequests
  BY <1>7, TimestampsAssumption DEF GetRequests, Request
<1> QED
  BY <1>2, <1>3, <1>4, <1>5, <1>6, <1>7, Zenon DEF Requests

\* Start and commit timestamps are positive and never coincide.
LEMMA TimestampFacts ==
    ASSUME NEW s \in StartTs
    PROVE  /\ s \in Timestamps /\ s \in Nat /\ s # 0
           /\ CommitTs[s] \in Timestamps /\ CommitTs[s] \in Nat /\ CommitTs[s] # 0
           /\ CommitTs[s] \notin StartTs
           /\ \A t \in StartTs : CommitTs[s] = CommitTs[t] => s = t
BY TimestampsAssumption, Zenon

\* A key a transaction writes is a key, and it puts or deletes it.
LEMMA MutationFacts ==
    ASSUME NEW s \in StartTs, NEW k \in DOMAIN Mutation[s]
    PROVE  k \in Keys /\ Mutation[s][k] \in {"Put", "Delete"}
<1>1. PICK K \in SUBSET Keys : Mutation[s] \in [K -> {"Put", "Delete"}]
  BY MutationAssumption
<1> QED
  BY <1>1, Zenon

\* Changes of some keys make a write buffer.
LEMMA BufferIntro ==
    ASSUME NEW K \in SUBSET Keys, NEW b \in [K -> Modifies]
    PROVE  b \in Buffers
BY Zenon DEF Buffers

\* The empty buffer is a write buffer.
LEMMA NoBufType == NoBuf \in Buffers
<1>1. NoBuf \in [{} -> Modifies]
  BY Zenon DEF NoBuf
<1> QED
  BY <1>1, BufferIntro, Zenon
-----------------------------------------------------------------------------
(* What storage.write does to one key. *)

\* The five effects a buffered modification of k can have, and the sixth of
\* having none.
Untouched(k) == lock'[k] = lock[k] /\ write'[k] = write[k] /\ data'[k] = data[k]

Prewritten(p, k) ==
    LET s == req[p].start IN
    /\ req[p].op = "Prewrite"
    /\ k \in DOMAIN Mutation[s]
    /\ DOMAIN buf[p] = DOMAIN Mutation[s]
    /\ Unlocked(k) \/ OwnLock(k, s)
    /\ lock'[k] = Lock(s, Mutation[s][k])
    /\ write'[k] = write[k]
    /\ data'[k] = IF Mutation[s][k] = "Put" THEN data[k] \cup {s} ELSE data[k] \ {s}

Promoted(p, k) ==
    LET s == req[p].start IN
    /\ req[p].op # "Prewrite"
    /\ OwnLock(k, s)
    /\ lock'[k] = NoLock
    /\ write'[k] = [write[k] EXCEPT ![CommitTs[s]] = Write(s, lock[k].kind)]
    /\ data'[k] = data[k]

RolledBack(p, k) ==
    LET s == req[p].start IN
    /\ req[p].op # "Prewrite"
    /\ Unlocked(k) \/ OwnLock(k, s)
    /\ lock'[k] = NoLock
    /\ write'[k] = [write[k] EXCEPT ![s] = Write(s, "Rollback")]
    /\ data'[k] \in {data[k], data[k] \ {s}}

Changed(p, k) == Prewritten(p, k) \/ Promoted(p, k) \/ RolledBack(p, k)

Effect(p, k) == Untouched(k) \/ Changed(p, k)

\* A task that writes has a transaction.
LEMMA WriterFacts ==
    ASSUME IInv, NEW p \in Tasks, pc[p] \in {"wait", "latched", "write"}
    PROVE  req[p] \in Requests /\ req[p].op # "Get" /\ req[p].start \in StartTs
BY RequestFacts, Zenon DEF IInv, Control

\* Every key sees one of the effects, and only latched keys are touched.
LEMMA KeyEffect ==
    ASSUME IInv, NEW p \in Tasks, pc[p] = "write", ApplyWrites(buf[p], req[p].start),
           NEW k \in Keys
    PROVE  /\ Effect(p, k)
           /\ k \notin keys[p] => Untouched(k)
           /\ k \in DOMAIN buf[p] => Changed(p, k)
<1> DEFINE s == req[p].start
           b == buf[p]
<1>1. s \in StartTs /\ s # 0 /\ CommitTs[s] # 0
  BY WriterFacts, TimestampFacts, Zenon
<1>2. /\ lock'[k] = IF k \in DOMAIN b /\ b[k].lock # Keep THEN b[k].lock ELSE lock[k]
      /\ write'[k] = IF k \in DOMAIN b /\ b[k].at # 0
                     THEN [write[k] EXCEPT ![b[k].at] = b[k].record] ELSE write[k]
      /\ data'[k] = IF k \in DOMAIN b /\ b[k].value = "put" THEN data[k] \cup {s}
                    ELSE IF k \in DOMAIN b /\ b[k].value = "delete" THEN data[k] \ {s}
                    ELSE data[k]
  BY Zenon DEF ApplyWrites
<1>3. k \notin DOMAIN b => Untouched(k)
  BY <1>2, Zenon DEF Untouched
<1>4. DOMAIN b \subseteq keys[p]
  BY Zenon DEF IInv, Pending
<1>5. NoLock # Keep
  BY Zenon DEF NoLock, Lock, Keep
<1>6. ASSUME k \in DOMAIN b
      PROVE  Changed(p, k)
  <2>1. WellBuffered(req[p], buf[p], k)
    BY <1>6, Zenon DEF IInv, Pending
  <2>2. CASE req[p].op = "Prewrite"
    <3>1. Lock(s, Mutation[s][k]) # Keep
      BY <1>1, Zenon DEF Lock, Keep
    <3>2. Prewritten(p, k)
      BY <1>2, <1>6, <2>1, <2>2, <3>1 DEF WellBuffered, Prewritten, PrewriteModify, Modify
    <3> QED
      BY <3>2, Zenon DEF Changed
  <2>3. CASE req[p].op # "Prewrite"
    <3>1. CASE b[k] = CommitModify(s, CommitTs[s], lock[k].kind) /\ OwnLock(k, s)
      BY <1>1, <1>2, <1>5, <1>6, <2>3, <3>1 DEF Changed, Promoted, CommitModify, Modify
    <3>2. CASE b[k] = RollbackModify(s, NoLock) /\ OwnLock(k, s)
      BY <1>1, <1>2, <1>5, <1>6, <2>3, <3>2 DEF Changed, RolledBack, RollbackModify, Modify
    <3>3. CASE b[k] = RollbackModify(s, Keep) /\ Unlocked(k)
      BY <1>1, <1>2, <1>6, <2>3, <3>3 DEF Changed, RolledBack, RollbackModify, Modify, Unlocked
    <3>4. CASE b[k] = RollbackRecord(s) /\ Unlocked(k)
      BY <1>1, <1>2, <1>6, <2>3, <3>4 DEF Changed, RolledBack, RollbackRecord, Modify, Unlocked
    <3> QED
      BY <2>1, <2>3, <3>1, <3>2, <3>3, <3>4, Zenon DEF WellBuffered
  <2> QED
    BY <2>2, <2>3, Zenon
<1> QED
  BY <1>3, <1>4, <1>6, Zenon DEF Effect
-----------------------------------------------------------------------------
(* What an effect preserves. *)

StoreType ==
    /\ lock \in [Keys -> Locks]
    /\ write \in [Keys -> [Timestamps -> Writes]]
    /\ data \in [Keys -> SUBSET StartTs]

\* What a step may do to a key: the matrices of the action properties.
KeepsLock(k) == lock[k] # NoLock => lock'[k] \in {lock[k], NoLock}

KeepsCommits(k) ==
    \A s \in StartTs :
        write[k][CommitTs[s]] # NoWrite => write'[k][CommitTs[s]] = write[k][CommitTs[s]]

CommitsLocked(k) ==
    \A s \in StartTs :
        (write[k][CommitTs[s]] = NoWrite /\ write'[k][CommitTs[s]] # NoWrite)
            => /\ lock[k].ts = s
               /\ write'[k][CommitTs[s]] = Write(s, lock[k].kind)
               /\ lock'[k] = NoLock

KeyStep(k) == KeepsLock(k) /\ KeepsCommits(k) /\ CommitsLocked(k)

\* The locks and values of a key after storage.write.
LEMMA LockAfter ==
    ASSUME IInv, NEW p \in Tasks, pc[p] = "write", NEW k \in Keys, Effect(p, k)
    PROVE  /\ lock'[k] \in Locks
           /\ data'[k] \in SUBSET StartTs
           /\ lock'[k] # NoLock => /\ k \in DOMAIN Mutation[lock'[k].ts]
                                   /\ lock'[k].kind = Mutation[lock'[k].ts][k]
           /\ lock'[k].kind = "Put" => lock'[k].ts \in data'[k]
           /\ KeepsLock(k)
<1> DEFINE s == req[p].start
<1>1. s \in StartTs /\ s \in Nat /\ s # 0
  BY WriterFacts, TimestampFacts, Zenon
<1>2. /\ lock[k] \in Locks
      /\ data[k] \in SUBSET StartTs
      /\ lock[k] # NoLock => /\ k \in DOMAIN Mutation[lock[k].ts]
                             /\ lock[k].kind = Mutation[lock[k].ts][k]
      /\ lock[k].kind = "Put" => lock[k].ts \in data[k]
  BY Zenon DEF IInv, TypeOK, StoreInv, LocksFromPrewrite, LockedValuePresent
<1>3. CASE Untouched(k)
  BY <1>2, <1>3, Zenon DEF Untouched, KeepsLock
<1>4. CASE Prewritten(p, k)
  <2>1. Mutation[s][k] \in {"Put", "Delete"}
    BY <1>1, <1>4, MutationFacts, Zenon DEF Prewritten
  <2>2. lock'[k] = [ts |-> s, kind |-> Mutation[s][k]]
    BY <1>4, Zenon DEF Prewritten, Lock
  <2>3. lock'[k] \in Locks
    BY <1>1, <2>1, <2>2 DEF Locks
  <2>4. KeepsLock(k)
    <3>1. lock[k] # NoLock => lock[k] = lock'[k]
      BY <1>2, <1>4, <2>2, Zenon DEF Prewritten, Unlocked, OwnLock, Locks
    <3> QED
      BY <3>1, Zenon DEF KeepsLock
  <2>5. data'[k] \in SUBSET StartTs /\ (lock'[k].kind = "Put" => lock'[k].ts \in data'[k])
    BY <1>1, <1>2, <1>4, <2>2 DEF Prewritten
  <2> QED
    BY <1>4, <2>2, <2>3, <2>4, <2>5 DEF Prewritten
<1>5. CASE Promoted(p, k) \/ RolledBack(p, k)
  BY <1>2, <1>5 DEF Promoted, RolledBack, KeepsLock, NoLock, Locks
<1> QED
  BY <1>3, <1>4, <1>5, Zenon DEF Effect, Changed

\* The records of a key after storage.write.
LEMMA RecordsAfter ==
    ASSUME IInv, NEW p \in Tasks, pc[p] = "write", NEW k \in Keys, Effect(p, k)
    PROVE  /\ write'[k] \in [Timestamps -> Writes]
           /\ \A c \in Timestamps :
                 write'[k][c] # NoWrite =>
                     LET s == write'[k][c].start_ts IN
                     \/ c = s /\ write'[k][c].kind = "Rollback"
                     \/ /\ c = CommitTs[s]
                        /\ k \in DOMAIN Mutation[s]
                        /\ write'[k][c].kind = Mutation[s][k]
           /\ KeepsCommits(k)
           /\ CommitsLocked(k)
<1> DEFINE s == req[p].start
<1>1. s \in StartTs /\ s \in Timestamps /\ CommitTs[s] \in Timestamps /\ s # 0
  BY WriterFacts, TimestampFacts, Zenon
<1>2. /\ write[k] \in [Timestamps -> Writes]
      /\ lock[k] \in Locks
      /\ lock[k] # NoLock => /\ k \in DOMAIN Mutation[lock[k].ts]
                             /\ lock[k].kind = Mutation[lock[k].ts][k]
  BY Zenon DEF IInv, TypeOK, StoreInv, LocksFromPrewrite
<1>3. \A c \in Timestamps :
          write[k][c] # NoWrite =>
              \/ c = write[k][c].start_ts /\ write[k][c].kind = "Rollback"
              \/ /\ c = CommitTs[write[k][c].start_ts]
                 /\ k \in DOMAIN Mutation[write[k][c].start_ts]
                 /\ write[k][c].kind = Mutation[write[k][c].start_ts][k]
  BY Zenon DEF IInv, StoreInv, RecordsFromTxns
<1>4. \A t \in StartTs : CommitTs[t] \in Timestamps /\ CommitTs[t] \notin StartTs
                             /\ (CommitTs[t] = CommitTs[s] => t = s)
  BY <1>1, TimestampFacts, Zenon
<1>5. \A c \in Timestamps : write[k][c] # NoWrite => write[k][c].start_ts \in StartTs
  BY <1>2, Zenon DEF Writes
<1>6. CASE Untouched(k) \/ Prewritten(p, k)
  BY <1>2, <1>3, <1>4, <1>6, Zenon DEF Untouched, Prewritten, KeepsCommits, CommitsLocked
<1>7. CASE Promoted(p, k)
  <2> DEFINE r == Write(s, lock[k].kind)
  <2>1. /\ lock[k].ts = s
        /\ k \in DOMAIN Mutation[s]
        /\ lock[k].kind = Mutation[s][k]
        /\ lock[k].kind \in {"Put", "Delete"}
    BY <1>1, <1>2, <1>7 DEF Promoted, OwnLock, NoLock, Locks
  <2>2. r \in Writes /\ r.start_ts = s /\ r.kind = Mutation[s][k] /\ r # NoWrite
    BY <1>1, <2>1, Zenon DEF Write, Writes, NoWrite
  <2>3. /\ write'[k] \in [Timestamps -> Writes]
        /\ write'[k][CommitTs[s]] = r
        /\ \A c \in Timestamps : c # CommitTs[s] => write'[k][c] = write[k][c]
    BY <1>1, <1>2, <1>7, <2>2, Zenon DEF Promoted
  <2>4. write[k][CommitTs[s]] # NoWrite => write[k][CommitTs[s]] = r
    <3> SUFFICES ASSUME write[k][CommitTs[s]] # NoWrite
                 PROVE  write[k][CommitTs[s]] = r
      BY Zenon
    <3> DEFINE w == write[k][CommitTs[s]]
    <3>1. w \in [start_ts : StartTs, kind : {"Put", "Delete", "Rollback"}]
      BY <1>1, <1>2, Zenon DEF Writes
    <3>2. w.start_ts = s /\ w.kind = Mutation[s][k]
      BY <1>1, <1>3, <1>4, <3>1, Zenon
    <3> QED
      BY <2>1, <3>1, <3>2, Zenon DEF Write
  <2>5. KeepsCommits(k) /\ CommitsLocked(k)
    BY <1>4, <1>7, <2>1, <2>3, <2>4, Zenon DEF KeepsCommits, CommitsLocked, Promoted
  <2> QED
    BY <1>3, <2>1, <2>2, <2>3, <2>5, Zenon
<1>8. CASE RolledBack(p, k)
  <2> DEFINE r == Write(s, "Rollback")
  <2>1. r \in Writes /\ r.start_ts = s /\ r.kind = "Rollback"
    BY <1>1, Zenon DEF Write, Writes
  <2>2. /\ write'[k] \in [Timestamps -> Writes]
        /\ write'[k][s] = r
        /\ \A c \in Timestamps : c # s => write'[k][c] = write[k][c]
    BY <1>1, <1>2, <1>8, <2>1, Zenon DEF RolledBack
  <2>3. KeepsCommits(k) /\ CommitsLocked(k)
    BY <1>1, <1>4, <2>2, Zenon DEF KeepsCommits, CommitsLocked
  <2> QED
    BY <1>3, <2>1, <2>2, <2>3, Zenon
<1> QED
  BY <1>6, <1>7, <1>8, Zenon DEF Effect, Changed

\* storage.write keeps the store well formed, and is an allowed step.
LEMMA ApplyStore ==
    ASSUME IInv, NEW p \in Tasks, pc[p] = "write", ApplyWrites(buf[p], req[p].start)
    PROVE  /\ StoreType'
           /\ StoreInv'
           /\ \A k \in Keys : KeyStep(k)
           /\ \A k \in Keys \ keys[p] : Untouched(k)
<1>1. \A k \in Keys : Effect(p, k) /\ (k \notin keys[p] => Untouched(k))
  BY KeyEffect, Zenon
<1>2. /\ lock' = [k \in Keys |-> lock'[k]]
      /\ write' = [k \in Keys |-> write'[k]]
      /\ data' = [k \in Keys |-> data'[k]]
  BY Zenon DEF ApplyWrites
<1>3. StoreType'
  <2>1. \A k \in Keys : lock'[k] \in Locks /\ data'[k] \in SUBSET StartTs
    BY <1>1, LockAfter, Zenon
  <2>2. \A k \in Keys : write'[k] \in [Timestamps -> Writes]
    BY <1>1, RecordsAfter, Zenon
  <2> QED
    BY <1>2, <2>1, <2>2, Zenon DEF StoreType
<1>4. LocksFromPrewrite' /\ LockedValuePresent'
  BY <1>1, LockAfter, Zenon DEF LocksFromPrewrite, LockedValuePresent
<1>5. RecordsFromTxns'
  BY <1>1, RecordsAfter, Zenon DEF RecordsFromTxns
<1>6. \A k \in Keys : KeyStep(k)
  BY <1>1, LockAfter, RecordsAfter, Zenon DEF KeyStep
<1> QED
  BY <1>1, <1>3, <1>4, <1>5, <1>6, Zenon DEF StoreInv

\* The locks of a transaction come together.
LEMMA ApplyLocks ==
    ASSUME IInv, NEW p \in Tasks, pc[p] = "write", ApplyWrites(buf[p], req[p].start),
           NEW t \in StartTs, NEW k \in Keys, lock[k].ts # t, lock'[k].ts = t,
           NEW j \in DOMAIN Mutation[t]
    PROVE  lock'[j].ts = t
<1>1. t # 0 /\ j \in Keys
  BY TimestampFacts, MutationFacts, Zenon
<1>2. Effect(p, k) /\ (j \in DOMAIN buf[p] => Changed(p, j))
  BY <1>1, KeyEffect, Zenon
<1>3. lock'[k] # lock[k] /\ lock'[k] # NoLock
  BY <1>1 DEF NoLock
<1>4. Prewritten(p, k)
  BY <1>2, <1>3, Zenon DEF Effect, Changed, Untouched, Promoted, RolledBack
<1>5. t = req[p].start
  BY <1>4 DEF Prewritten, Lock
<1>6. Prewritten(p, j)
  BY <1>2, <1>4, <1>5, Zenon DEF Changed, Prewritten, Promoted, RolledBack
<1> QED
  BY <1>5, <1>6 DEF Prewritten, Lock
-----------------------------------------------------------------------------
(* The steps preserve the invariant. *)

\* An empty store and idle tasks satisfy the invariant.
LEMMA InitIInv == Init => IInv
<1> SUFFICES ASSUME Init PROVE IInv
  BY Zenon
<1>1. TypeOK
  <2>1. NoBuf \in Buffers
    BY NoBufType, Zenon
  <2> QED
    BY <2>1, ConstantsAssumption, Zenon
       DEF Init, TypeOK, Locks, Writes, Labels, NoResp, Resp, Answers
<1>2. Control /\ LatchesHeld /\ Pending
  BY Zenon DEF Init, Control, LatchesHeld, Pending, NoResp, Resp
<1>3. StoreInv
  BY Zenon DEF Init, StoreInv, LocksFromPrewrite, LockedValuePresent, RecordsFromTxns, NoLock
<1>4. ReadsCommitted
  BY Zenon DEF Init, ReadsCommitted, NoResp, Resp
<1> QED
  BY <1>1, <1>2, <1>3, <1>4, Zenon DEF IInv

\* A reader's finding outlives every step that keeps the commit records.
LEMMA ReadKept ==
    ASSUME IInv, NEW p \in Tasks, req[p].op = "Get", req[p] \in Requests, ReadOK(p),
           \A k \in Keys : KeepsCommits(k),
           req'[p] = req[p], resp'[p].ts = resp[p].ts
    PROVE  ReadOK(p)'
<1> DEFINE k == GetKey(p)
<1>1. k \in Keys /\ GetKey(p)' = k
  BY RequestFacts, Zenon DEF GetKey
<1>2. PICK c \in Timestamps : c <= req[p].start /\ write[k][c] = Write(resp[p].ts, "Put")
  BY Zenon DEF ReadOK
<1>3. write[k][c] # NoWrite /\ write[k][c].kind = "Put" /\ write[k][c].start_ts = resp[p].ts
  BY <1>2 DEF Write, NoWrite
<1>4. write[k][c].start_ts \in StartTs
  BY <1>1, <1>3 DEF IInv, TypeOK, Writes
<1>5. c = CommitTs[write[k][c].start_ts]
  BY <1>1, <1>3, Zenon DEF IInv, StoreInv, RecordsFromTxns
<1>6. write'[k][c] = write[k][c]
  BY <1>1, <1>3, <1>4, <1>5, Zenon DEF KeepsCommits
<1> QED
  BY <1>1, <1>2, <1>6, Zenon DEF ReadOK

\* What is left of the store part of the invariant when the store stays.
LEMMA StoreUnchanged ==
    ASSUME IInv, UNCHANGED store
    PROVE  StoreType' /\ StoreInv' /\ \A k \in Keys : KeyStep(k) /\ Untouched(k)
<1>1. StoreType' /\ StoreInv'
  BY DEF IInv, TypeOK, StoreType, StoreInv, LocksFromPrewrite, LockedValuePresent,
         RecordsFromTxns, store
<1>2. \A k \in Keys : KeyStep(k) /\ Untouched(k)
  BY Zenon DEF store, KeyStep, KeepsLock, KeepsCommits, CommitsLocked, Untouched
<1> QED
  BY <1>1, <1>2, Zenon

\* One task steps, the others stay where they are: what the step has to
\* show for the invariant.
LEMMA OneTask ==
    ASSUME IInv, NEW p \in Tasks,
           StoreType', StoreInv', TypeOK',
           \A k \in Keys : KeyStep(k),
           \A q \in Tasks \ {p} :
               /\ pc'[q] = pc[q] /\ req'[q] = req[q] /\ keys'[q] = keys[q]
               /\ buf'[q] = buf[q] /\ resp'[q] = resp[q]
               /\ \A k \in Keys : latches[k] = q => latches'[k] = q /\ Untouched(k),
           pc'[p] # "idle" => req'[p] \in Requests,
           pc'[p] \in {"wait", "latched", "write"} => req'[p].op # "Get",
           pc'[p] \in {"get1", "get2", "getErr", "get3", "get4"} => req'[p].op = "Get",
           pc'[p] = "scan" => req'[p].op = "ResolveLock",
           (pc'[p] \in {"wait", "latched", "write"} /\ req'[p].op # "ResolveLock")
               => keys'[p] = req'[p].keys,
           pc'[p] # "done" => resp'[p].kind # "Value",
           pc'[p] \in {"latched", "write"} => \A k \in keys'[p] : latches'[k] = p,
           pc'[p] = "write" => /\ DOMAIN buf'[p] \subseteq keys'[p]
                               /\ \A k \in DOMAIN buf'[p] : WellBuffered(req[p], buf[p], k)',
           (pc'[p] = "get4" \/ (req'[p].op = "Get" /\ resp'[p].kind = "Value")) => ReadOK(p)'
    PROVE  IInv'
<1>1. Control'
  <2> SUFFICES ASSUME NEW q \in Tasks
               PROVE  /\ pc'[q] # "idle" => req'[q] \in Requests
                      /\ pc'[q] \in {"wait", "latched", "write"} => req'[q].op # "Get"
                      /\ pc'[q] \in {"get1", "get2", "getErr", "get3", "get4"}
                             => req'[q].op = "Get"
                      /\ pc'[q] = "scan" => req'[q].op = "ResolveLock"
                      /\ (pc'[q] \in {"wait", "latched", "write"} /\ req'[q].op # "ResolveLock")
                             => keys'[q] = req'[q].keys
                      /\ pc'[q] # "done" => resp'[q].kind # "Value"
    BY Zenon DEF Control
  <2>1. CASE q = p
    BY <2>1, Zenon
  <2>2. CASE q # p
    BY <2>2 DEF IInv, Control
  <2> QED
    BY <2>1, <2>2, Zenon
<1>2. LatchesHeld'
  <2> SUFFICES ASSUME NEW q \in Tasks, pc'[q] \in {"latched", "write"}, NEW k \in keys'[q]
               PROVE  latches'[k] = q
    BY Zenon DEF LatchesHeld
  <2>1. CASE q = p
    BY <2>1, Zenon
  <2>2. CASE q # p
    BY <2>2 DEF IInv, LatchesHeld, TypeOK
  <2> QED
    BY <2>1, <2>2, Zenon
<1>3. Pending'
  <2> SUFFICES ASSUME NEW q \in Tasks, pc'[q] = "write"
               PROVE  /\ DOMAIN buf'[q] \subseteq keys'[q]
                      /\ \A k \in DOMAIN buf'[q] : WellBuffered(req[q], buf[q], k)'
    BY Zenon DEF Pending
  <2>1. CASE q = p
    BY <2>1, Zenon
  <2>2. CASE q # p
    <3>1. /\ pc[q] = "write" /\ buf'[q] = buf[q] /\ keys'[q] = keys[q] /\ req'[q] = req[q]
          /\ DOMAIN buf[q] \subseteq keys[q]
      BY <2>2, Zenon DEF IInv, Pending
    <3>2. ASSUME NEW k \in DOMAIN buf[q]
          PROVE  lock'[k] = lock[k] /\ WellBuffered(req[q], buf[q], k)
      <4>1. k \in Keys /\ latches[k] = q
        BY <3>1, <3>2, Zenon DEF IInv, LatchesHeld, TypeOK
      <4>2. Untouched(k)
        BY <2>2, <4>1, Zenon
      <4> QED
        BY <3>1, <4>2, Zenon DEF Untouched, IInv, Pending
    <3>3. ASSUME NEW k \in DOMAIN buf'[q]
          PROVE  WellBuffered(req[q], buf[q], k)'
      <4>1. lock'[k] = lock[k] /\ WellBuffered(req[q], buf[q], k)
        BY <3>1, <3>2, <3>3, Zenon
      <4>2. buf'[q] = buf[q] /\ req'[q] = req[q]
        BY <3>1, Zenon
      <4> QED
        BY <4>1, <4>2, Zenon DEF WellBuffered, Unlocked, OwnLock
    <3> QED
      BY <3>1, <3>3, Zenon
  <2> QED
    BY <2>1, <2>2, Zenon
<1>4. ReadsCommitted'
  <2> SUFFICES ASSUME NEW q \in Tasks,
                      pc'[q] = "get4" \/ (req'[q].op = "Get" /\ resp'[q].kind = "Value")
               PROVE  ReadOK(q)'
    BY Zenon DEF ReadsCommitted
  <2>1. CASE q = p
    BY <2>1, Zenon
  <2>2. CASE q # p
    <3>1. req[q].op = "Get" /\ req[q] \in Requests /\ ReadOK(q)
      BY <2>2 DEF IInv, Control, ReadsCommitted
    <3>2. \A k \in Keys : KeepsCommits(k)
      BY Zenon DEF KeyStep
    <3> QED
      BY <2>2, <3>1, <3>2, ReadKept, Zenon
  <2> QED
    BY <2>1, <2>2, Zenon
<1> QED
  BY <1>1, <1>2, <1>3, <1>4, Zenon DEF IInv
-----------------------------------------------------------------------------
(* The steps of the handlers. *)

\* One lemma for each step a task can take.
LEMMA ReceiveStep ==
    ASSUME IInv, NEW p \in Tasks, NEW r \in Requests, Receive(p, r)
    PROVE  IInv'
<1>1. StoreType' /\ StoreInv' /\ \A k \in Keys : KeyStep(k) /\ Untouched(k)
  BY StoreUnchanged, Zenon DEF Receive
<1>2. /\ r.op \in {"Prewrite", "Commit", "BatchRollback", "CheckTxnStatus", "ResolveLock", "Get"}
      /\ r.keys \subseteq Keys
  BY RequestFacts, Zenon
<1>3. /\ pc'[p] = IF r.op = "ResolveLock" THEN "scan" ELSE IF r.op = "Get" THEN "get1" ELSE "wait"
      /\ req'[p] = r /\ keys'[p] = r.keys /\ resp'[p] = resp[p] /\ pc[p] = "idle"
  BY Zenon DEF Receive, IInv, TypeOK
<1>4. TypeOK'
  BY <1>1, <1>2, <1>3, Zenon DEF IInv, TypeOK, StoreType, Receive, Labels
<1>5. \A q \in Tasks \ {p} :
          /\ pc'[q] = pc[q] /\ req'[q] = req[q] /\ keys'[q] = keys[q]
          /\ buf'[q] = buf[q] /\ resp'[q] = resp[q]
          /\ \A k \in Keys : latches[k] = q => latches'[k] = q /\ Untouched(k)
  BY <1>1, Zenon DEF Receive, IInv, TypeOK
<1>6. resp[p].kind # "Value"
  BY <1>3, Zenon DEF IInv, Control
<1> QED
  BY <1>1, <1>2, <1>3, <1>4, <1>5, <1>6, OneTask

\* Taking latches keeps the invariant: no other task past its wait holds
\* them.
LEMMA AcquireLatchesStep ==
    ASSUME IInv, NEW p \in Tasks, AcquireLatches(p)
    PROVE  IInv'
<1>1. StoreType' /\ StoreInv' /\ \A k \in Keys : KeyStep(k) /\ Untouched(k)
  BY StoreUnchanged, Zenon DEF AcquireLatches
<1>2. /\ pc[p] = "wait" /\ pc'[p] = "latched"
      /\ req'[p] = req[p] /\ keys'[p] = keys[p] /\ resp'[p] = resp[p]
      /\ keys[p] \subseteq Keys
  BY Zenon DEF AcquireLatches, IInv, TypeOK
<1>3. TypeOK'
  BY <1>1, Zenon DEF IInv, TypeOK, StoreType, AcquireLatches, Labels
<1>4. \A q \in Tasks \ {p} :
          /\ pc'[q] = pc[q] /\ req'[q] = req[q] /\ keys'[q] = keys[q]
          /\ buf'[q] = buf[q] /\ resp'[q] = resp[q]
          /\ \A k \in Keys : latches[k] = q => latches'[k] = q /\ Untouched(k)
  BY <1>1, ConstantsAssumption, Zenon DEF AcquireLatches, IInv, TypeOK
<1>5. \A k \in keys'[p] : latches'[k] = p
  BY <1>2, Zenon DEF AcquireLatches
<1>6. /\ req[p] \in Requests /\ req[p].op # "Get" /\ resp[p].kind # "Value"
      /\ req[p].op # "ResolveLock" => keys[p] = req[p].keys
  BY <1>2, Zenon DEF IInv, Control
<1> QED
  BY <1>1, <1>2, <1>3, <1>4, <1>5, <1>6, OneTask

\* A refused command releases its latches and writes nothing.
LEMMA RefuseStep ==
    ASSUME IInv, NEW p \in Tasks, pc[p] = "latched",
           NEW answer \in [kind : Answers \ {"Value"}, ts : Nat], Refuse(p, answer)
    PROVE  IInv'
<1>1. StoreType' /\ StoreInv' /\ \A k \in Keys : KeyStep(k) /\ Untouched(k)
  BY StoreUnchanged, Zenon DEF Refuse
<1>2. pc'[p] = "done" /\ req'[p] = req[p] /\ resp'[p] = answer
  BY Zenon DEF Refuse, IInv, TypeOK
<1>3. TypeOK'
  BY <1>1, Zenon DEF IInv, TypeOK, StoreType, Refuse, ReleaseLatches, Labels
<1>4. \A q \in Tasks \ {p} :
          /\ pc'[q] = pc[q] /\ req'[q] = req[q] /\ keys'[q] = keys[q]
          /\ buf'[q] = buf[q] /\ resp'[q] = resp[q]
          /\ \A k \in Keys : latches[k] = q => latches'[k] = q /\ Untouched(k)
  BY <1>1, Zenon DEF Refuse, ReleaseLatches, IInv, TypeOK
<1>5. req[p] \in Requests
  BY Zenon DEF IInv, Control
<1> QED
  BY <1>1, <1>2, <1>3, <1>4, <1>5, OneTask, Zenon

\* A handler that has decided on justified changes goes on to write them.
LEMMA PrepareStep ==
    ASSUME IInv, NEW p \in Tasks, pc[p] = "latched",
           NEW answer \in [kind : Answers \ {"Value"}, ts : Nat],
           NEW b \in Buffers, DOMAIN b \subseteq keys[p],
           \A k \in DOMAIN b : WellBuffered(req[p], b, k),
           Prepare(p, b, answer)
    PROVE  IInv'
<1>1. StoreType' /\ StoreInv' /\ \A k \in Keys : KeyStep(k) /\ Untouched(k)
  BY StoreUnchanged, Zenon DEF Prepare
<1>2. /\ pc'[p] = "write" /\ req'[p] = req[p] /\ resp'[p] = answer /\ buf'[p] = b
      /\ keys'[p] = keys[p] /\ latches' = latches /\ lock' = lock
  BY Zenon DEF Prepare, IInv, TypeOK, store
<1>3. TypeOK'
  BY <1>1, Zenon DEF IInv, TypeOK, StoreType, Prepare, Labels
<1>4. \A q \in Tasks \ {p} :
          /\ pc'[q] = pc[q] /\ req'[q] = req[q] /\ keys'[q] = keys[q]
          /\ buf'[q] = buf[q] /\ resp'[q] = resp[q]
          /\ \A k \in Keys : latches[k] = q => latches'[k] = q /\ Untouched(k)
  BY <1>1, Zenon DEF Prepare, IInv, TypeOK
<1>5. /\ req[p] \in Requests /\ req[p].op # "Get"
      /\ req[p].op # "ResolveLock" => keys[p] = req[p].keys
      /\ \A k \in keys[p] : latches[k] = p
  BY Zenon DEF IInv, Control, LatchesHeld
<1>6. \A k \in DOMAIN buf'[p] : WellBuffered(req[p], buf[p], k)'
  BY <1>2, Zenon DEF WellBuffered, Unlocked, OwnLock
<1> QED
  BY <1>1, <1>2, <1>3, <1>4, <1>5, <1>6, OneTask

\* The batch was justified when it was made, and still is under the latches.
LEMMA WriteAndReleaseStep ==
    ASSUME IInv, NEW p \in Tasks, WriteAndRelease(p)
    PROVE  IInv'
<1>1. pc[p] = "write" /\ ApplyWrites(buf[p], req[p].start)
  BY Zenon DEF WriteAndRelease
<1>2. StoreType' /\ StoreInv' /\ (\A k \in Keys : KeyStep(k))
          /\ (\A k \in Keys \ keys[p] : Untouched(k))
  BY <1>1, ApplyStore, Zenon
<1>3. pc'[p] = "done" /\ req'[p] = req[p] /\ resp'[p] = resp[p]
  BY Zenon DEF WriteAndRelease, IInv, TypeOK
<1>4. TypeOK'
  BY <1>2, NoBufType, Zenon DEF IInv, TypeOK, StoreType, WriteAndRelease, ReleaseLatches, Labels
<1>5. \A q \in Tasks \ {p}, k \in Keys : latches[k] = q => latches'[k] = q /\ Untouched(k)
  BY <1>1, <1>2, Zenon DEF WriteAndRelease, ReleaseLatches, IInv, LatchesHeld
<1>6. \A q \in Tasks \ {p} :
          /\ pc'[q] = pc[q] /\ req'[q] = req[q] /\ keys'[q] = keys[q]
          /\ buf'[q] = buf[q] /\ resp'[q] = resp[q]
  BY Zenon DEF WriteAndRelease, IInv, TypeOK
<1>7. req[p] \in Requests /\ req[p].op # "Get"
  BY <1>1, Zenon DEF IInv, Control
<1> QED
  BY <1>2, <1>3, <1>4, <1>5, <1>6, <1>7, OneTask

\* A handler that fails leaves its latches and the store as they are.
LEMMA FailStep ==
    ASSUME IInv, NEW p \in Tasks, Fail(p)
    PROVE  IInv'
<1>1. StoreType' /\ StoreInv' /\ (\A k \in Keys : KeyStep(k))
          /\ (\A k \in Keys \ keys[p] : Untouched(k))
  <2>1. CASE UNCHANGED store
    BY <2>1, StoreUnchanged, Zenon
  <2>2. CASE pc[p] = "write" /\ ApplyWrites(buf[p], req[p].start)
    BY <2>2, ApplyStore, Zenon
  <2> QED
    BY <2>1, <2>2, Zenon DEF Fail
<1>2. /\ pc[p] \in {"latched", "write"} /\ pc'[p] = "done" /\ req'[p] = req[p]
      /\ resp'[p] = Resp("Error", 0)
  BY Zenon DEF Fail, IInv, TypeOK
<1>3. TypeOK'
  BY <1>1, NoBufType, Zenon DEF IInv, TypeOK, StoreType, Fail, Labels, Resp, Answers
<1>4. \A q \in Tasks \ {p}, k \in Keys : latches[k] = q => latches'[k] = q /\ Untouched(k)
  BY <1>1, <1>2, Zenon DEF Fail, IInv, LatchesHeld
<1>5. \A q \in Tasks \ {p} :
          /\ pc'[q] = pc[q] /\ req'[q] = req[q] /\ keys'[q] = keys[q]
          /\ buf'[q] = buf[q] /\ resp'[q] = resp[q]
  BY Zenon DEF Fail, IInv, TypeOK
<1>6. req[p] \in Requests /\ req[p].op # "Get"
  BY <1>2, Zenon DEF IInv, Control
<1> QED
  BY <1>1, <1>2, <1>3, <1>4, <1>5, <1>6, OneTask

\* An answer changes nothing but the task.
LEMMA ReplyStep ==
    ASSUME IInv, NEW p \in Tasks, Reply(p)
    PROVE  IInv'
<1>1. StoreType' /\ StoreInv' /\ \A k \in Keys : KeyStep(k) /\ Untouched(k)
  BY StoreUnchanged, Zenon DEF Reply
<1>2. pc'[p] = "idle" /\ req'[p] = NoReq /\ resp'[p] = NoResp
  BY Zenon DEF Reply, IInv, TypeOK
<1>3. TypeOK'
  BY <1>1, Zenon DEF IInv, TypeOK, StoreType, Reply, Labels, NoResp, Resp, Answers
<1>4. \A q \in Tasks \ {p} :
          /\ pc'[q] = pc[q] /\ req'[q] = req[q] /\ keys'[q] = keys[q]
          /\ buf'[q] = buf[q] /\ resp'[q] = resp[q]
          /\ \A k \in Keys : latches[k] = q => latches'[k] = q /\ Untouched(k)
  BY <1>1, Zenon DEF Reply, IInv, TypeOK
<1>5. resp'[p].kind # "Value"
  BY <1>2 DEF NoResp, Resp
<1> QED
  BY <1>1, <1>2, <1>3, <1>4, <1>5, OneTask, Zenon

\* The unlatched scan of kv_resolve_lock only chooses keys.
LEMMA ResolveLockScanStep ==
    ASSUME IInv, NEW p \in Tasks, ResolveLockScan(p)
    PROVE  IInv'
<1>1. StoreType' /\ StoreInv' /\ \A k \in Keys : KeyStep(k) /\ Untouched(k)
  BY StoreUnchanged, Zenon DEF ResolveLockScan
<1>2. /\ pc[p] = "scan" /\ pc'[p] \in {"wait", "done"} /\ req'[p] = req[p]
      /\ resp'[p] \in {resp[p], Resp("Ok", 0)}
  BY Zenon DEF ResolveLockScan, IInv, TypeOK
<1>3. TypeOK'
  <2>1. keys' \in [Tasks -> SUBSET Keys]
    BY Zenon DEF IInv, TypeOK, ResolveLockScan
  <2>2. pc' \in [Tasks -> Labels]
    BY Zenon DEF IInv, TypeOK, ResolveLockScan, Labels
  <2>3. Resp("Ok", 0) \in [kind : Answers, ts : Nat]
    BY Zenon DEF Resp, Answers
  <2>4. resp' \in [Tasks -> [kind : Answers, ts : Nat]]
    BY <2>3, Zenon DEF IInv, TypeOK, ResolveLockScan
  <2> QED
    BY <1>1, <2>1, <2>2, <2>4, Zenon DEF IInv, TypeOK, StoreType, ResolveLockScan
<1>4. \A q \in Tasks \ {p} :
          /\ pc'[q] = pc[q] /\ req'[q] = req[q] /\ keys'[q] = keys[q]
          /\ buf'[q] = buf[q] /\ resp'[q] = resp[q]
          /\ \A k \in Keys : latches[k] = q => latches'[k] = q /\ Untouched(k)
  BY <1>1, Zenon DEF ResolveLockScan, IInv, TypeOK
<1>5. req[p] \in Requests /\ req[p].op = "ResolveLock" /\ resp'[p].kind # "Value"
  BY <1>2 DEF IInv, Control, Resp
<1> QED
  BY <1>1, <1>2, <1>3, <1>4, <1>5, OneTask, Zenon

\* A step of kv_get: it moves the task and may change its answer.
GetStep(p) ==
    /\ pc' = [pc EXCEPT ![p] = pc'[p]]
    /\ resp' = [resp EXCEPT ![p] = resp'[p]]
    /\ UNCHANGED <<store, latches, req, keys, buf>>

\* A step of kv_get keeps the invariant if what it has read so far is
\* committed.
LEMMA GetStepKeeps ==
    ASSUME IInv, NEW p \in Tasks, GetStep(p),
           pc[p] \in {"get1", "get2", "getErr", "get3", "get4"},
           pc'[p] \in {"get2", "getErr", "get3", "get4", "done"},
           resp'[p] \in [kind : Answers, ts : Nat],
           resp'[p].kind = "Value" => pc'[p] = "done",
           (pc'[p] = "get4" \/ resp'[p].kind = "Value") => ReadOK(p)'
    PROVE  IInv'
<1>1. StoreType' /\ StoreInv' /\ \A k \in Keys : KeyStep(k) /\ Untouched(k)
  BY StoreUnchanged, Zenon DEF GetStep
<1>2. req'[p] = req[p]
  BY Zenon DEF GetStep
<1>3. TypeOK'
  <2>1. pc' \in [Tasks -> Labels]
    BY Zenon DEF IInv, TypeOK, GetStep, Labels
  <2>2. resp' \in [Tasks -> [kind : Answers, ts : Nat]]
    BY Zenon DEF IInv, TypeOK, GetStep
  <2> QED
    BY <1>1, <2>1, <2>2, Zenon DEF IInv, TypeOK, StoreType, GetStep
<1>4. \A q \in Tasks \ {p} :
          /\ pc'[q] = pc[q] /\ req'[q] = req[q] /\ keys'[q] = keys[q]
          /\ buf'[q] = buf[q] /\ resp'[q] = resp[q]
          /\ \A k \in Keys : latches[k] = q => latches'[k] = q /\ Untouched(k)
  BY <1>1, Zenon DEF GetStep, IInv, TypeOK
<1>5. req[p] \in Requests /\ req[p].op = "Get"
  BY Zenon DEF IInv, Control
<1> QED
  BY <1>1, <1>2, <1>3, <1>4, <1>5, OneTask, Zenon

\* The five accesses of kv_get keep the invariant.
LEMMA GetSteps ==
    ASSUME IInv, NEW p \in Tasks,
           \/ GetCheckLock(p) \/ GetValueCheckLock(p) \/ GetLockedError(p)
           \/ GetMostRecentWrite(p) \/ GetDefault(p)
    PROVE  IInv'
<1>1. /\ pc \in [Tasks -> Labels] /\ resp \in [Tasks -> [kind : Answers, ts : Nat]]
      /\ resp[p] \in [kind : Answers, ts : Nat]
  BY Zenon DEF IInv, TypeOK
<1>2. \A kind \in Answers, ts \in Nat : Resp(kind, ts) \in [kind : Answers, ts : Nat]
  BY Zenon DEF Resp
<1>3. pc[p] # "done" => resp[p].kind # "Value"
  BY Zenon DEF IInv, Control
<1>4. CASE GetCheckLock(p) \/ GetValueCheckLock(p) \/ GetLockedError(p)
  <2>1. /\ GetStep(p)
        /\ pc[p] \in {"get1", "get2", "getErr", "get3", "get4"}
        /\ pc'[p] \in {"get2", "getErr", "get3", "done"}
        /\ resp'[p] \in {resp[p], Resp("Locked", 0), Resp("NotFound", 0)}
    BY <1>1, <1>4, Zenon DEF GetStep, GetCheckLock, GetValueCheckLock, GetLockedError, GetDone, GetGoto
  <2>2. resp'[p] \in [kind : Answers, ts : Nat] /\ resp'[p].kind # "Value"
    BY <1>1, <1>3, <2>1 DEF Resp, Answers
  <2> QED
    BY <2>1, <2>2, GetStepKeeps, Zenon
<1>5. CASE GetMostRecentWrite(p)
  <2> DEFINE k == GetKey(p)
  <2>1. pc[p] = "get3" /\ req'[p] = req[p] /\ GetKey(p)' = k /\ write' = write /\ GetStep(p)
    BY <1>1, <1>5, Zenon DEF GetMostRecentWrite, GetDone, GetStep, GetKey, store
  <2>2. k \in Keys /\ req[p].start \in Timestamps
    BY <2>1, RequestFacts DEF IInv, Control, GetKey
  <2>3. CASE GetDone(p, Resp("NotFound", 0))
    <3>1. pc'[p] = "done" /\ resp'[p] = Resp("NotFound", 0)
      BY <1>1, <2>3, Zenon DEF GetDone
    <3>2. resp'[p] \in [kind : Answers, ts : Nat] /\ resp'[p].kind # "Value"
      BY <3>1 DEF Resp, Answers
    <3> QED
      BY <2>1, <3>1, <3>2, GetStepKeeps, Zenon
  <2>4. ASSUME NEW c \in most_recent_write(write[k], req[p].start),
               write[k][c].kind = "Put",
               pc' = [pc EXCEPT ![p] = "get4"],
               resp' = [resp EXCEPT ![p] = Resp("None", write[k][c].start_ts)]
        PROVE  IInv'
    <3>1. c \in Timestamps /\ c <= req[p].start /\ write[k][c] \in Writes
      BY <2>2, Zenon DEF most_recent_write, Visible, IInv, TypeOK
    <3>2. write[k][c] \in [start_ts : StartTs, kind : {"Put", "Delete", "Rollback"}]
      BY <2>4, <3>1 DEF Writes, NoWrite
    <3>3. pc'[p] = "get4" /\ resp'[p] = Resp("None", write[k][c].start_ts)
      BY <1>1, <2>4, Zenon
    <3>4. write[k][c].start_ts \in Nat
      BY <3>2, TimestampFacts, Zenon
    <3>5. resp'[p] \in [kind : Answers, ts : Nat] /\ resp'[p].kind # "Value"
            /\ resp'[p].ts = write[k][c].start_ts
      BY <3>3, <3>4 DEF Resp, Answers
    <3>6. write[k][c] = Write(resp'[p].ts, "Put")
      BY <2>4, <3>2, <3>5, Zenon DEF Write
    <3>7. ReadOK(p)'
      BY <2>1, <3>1, <3>6, Zenon DEF ReadOK
    <3> QED
      BY <2>1, <3>3, <3>5, <3>7, GetStepKeeps, Zenon
  <2> QED
    BY <1>5, <2>3, <2>4, Zenon DEF GetMostRecentWrite
<1>6. CASE GetDefault(p)
  <2>1. /\ pc[p] = "get4" /\ pc'[p] = "done" /\ GetStep(p) /\ req'[p] = req[p]
        /\ resp'[p] \in {Resp("Value", resp[p].ts), Resp("NotFound", 0)}
    BY <1>1, <1>6, Zenon DEF GetDefault, GetDone, GetStep
  <2>2. resp'[p] \in [kind : Answers, ts : Nat]
            /\ (resp'[p].kind = "Value" => resp'[p].ts = resp[p].ts)
    BY <1>1, <2>1 DEF Resp, Answers
  <2>3. resp'[p].kind = "Value" => ReadOK(p)'
    <3>1. ReadOK(p) /\ req[p].op = "Get" /\ req[p] \in Requests
      BY <2>1, Zenon DEF IInv, ReadsCommitted, Control
    <3>2. \A k \in Keys : KeepsCommits(k)
      BY <2>1, StoreUnchanged, Zenon DEF GetStep, KeyStep
    <3> QED
      BY <2>1, <2>2, <3>1, <3>2, ReadKept, Zenon
  <2> QED
    BY <2>1, <2>2, <2>3, GetStepKeeps, Zenon
<1> QED
  BY <1>4, <1>5, <1>6, Zenon

\* The answers of the handlers that write.
LEMMA WriterAnswers ==
    /\ \A kind \in Answers \ {"Value"}, ts \in Nat :
          Resp(kind, ts) \in [kind : Answers \ {"Value"}, ts : Nat]
    /\ {"Ok", "Errors", "Locked", "NotLocked", "Abort", "Committed", "TtlExpireRollback",
        "LockNotExistRollback"} \subseteq Answers \ {"Value"}
BY Zenon DEF Resp, Answers

\* The buffered modifications have the type of the write buffer.
LEMMA ModifyTypes ==
    ASSUME NEW s \in StartTs
    PROVE  /\ \A k \in DOMAIN Mutation[s] : PrewriteModify(s, k) \in Modifies
           /\ \A kind \in {"Put", "Delete"} : CommitModify(s, CommitTs[s], kind) \in Modifies
           /\ RollbackModify(s, NoLock) \in Modifies
           /\ RollbackModify(s, Keep) \in Modifies
           /\ RollbackRecord(s) \in Modifies
<1>1. s \in Timestamps /\ CommitTs[s] \in Timestamps
  BY TimestampFacts, Zenon
<1>2. \A k \in DOMAIN Mutation[s] : PrewriteModify(s, k) \in Modifies
  BY MutationFacts, Zenon DEF PrewriteModify, Modify, Modifies, Lock, Locks, Writes
<1>3. \A kind \in {"Put", "Delete"} : CommitModify(s, CommitTs[s], kind) \in Modifies
  BY <1>1, Zenon DEF CommitModify, Modify, Modifies, Locks, Write, Writes
<1>4. /\ RollbackModify(s, NoLock) \in Modifies
      /\ RollbackModify(s, Keep) \in Modifies
      /\ RollbackRecord(s) \in Modifies
  BY <1>1, Zenon DEF RollbackModify, RollbackRecord, Modify, Modifies, Locks, Write, Writes
<1> QED
  BY <1>2, <1>3, <1>4, Zenon

\* kv_prewrite buffers locks only for keys free of other locks.
LEMMA KvPrewriteStep ==
    ASSUME IInv, NEW p \in Tasks, KvPrewrite(p)
    PROVE  IInv'
<1> DEFINE s == req[p].start
           b == [k \in keys[p] |-> PrewriteModify(s, k)]
<1>1. pc[p] = "latched" /\ req[p].op = "Prewrite"
  BY Zenon DEF KvPrewrite, Latched
<1>2. s \in StartTs /\ req[p] \in Requests
  BY <1>1, WriterFacts, Zenon
<1>3. keys[p] = DOMAIN Mutation[s] /\ keys[p] \in SUBSET Keys
  BY <1>1, <1>2, RequestFacts, Zenon DEF IInv, Control, TypeOK
<1>4. CASE Refuse(p, Resp("Errors", 0))
  BY <1>1, <1>4, WriterAnswers, RefuseStep, Zenon
<1>5. CASE (\A k \in keys[p] : ~PrewriteError(k, s)) /\ Prepare(p, b, Resp("Ok", 0))
  <2>1. b \in Buffers
    BY <1>2, <1>3, ModifyTypes, BufferIntro, Zenon
  <2>2. \A k \in DOMAIN b : WellBuffered(req[p], b, k)
    BY <1>1, <1>3, <1>5, Zenon DEF WellBuffered, PrewriteError, ForeignLock
  <2> QED
    BY <1>1, <1>5, <2>1, <2>2, WriterAnswers, PrepareStep, Zenon
<1> QED
  BY <1>4, <1>5, Zenon DEF KvPrewrite

\* A buffer that turns a set of the transaction's own locks into records.
LEMMA PromoteBuffer ==
    ASSUME IInv, NEW p \in Tasks, pc[p] = "latched", req[p].op # "Prewrite",
           NEW K \in SUBSET keys[p], \A k \in K : OwnLock(k, req[p].start),
           Prepare(p, [k \in K |-> CommitModify(req[p].start, CommitTs[req[p].start], lock[k].kind)],
                   Resp("Ok", 0))
    PROVE  IInv'
<1> DEFINE s == req[p].start
           b == [k \in K |-> CommitModify(s, CommitTs[s], lock[k].kind)]
<1>1. s \in StartTs /\ s # 0 /\ K \in SUBSET Keys
  BY WriterFacts, TimestampFacts, Zenon DEF IInv, TypeOK
<1>2. \A k \in K : lock[k].kind \in {"Put", "Delete"}
  BY <1>1 DEF IInv, TypeOK, Locks, NoLock, OwnLock
<1>3. b \in Buffers
  BY <1>1, <1>2, ModifyTypes, BufferIntro, Zenon
<1>4. \A k \in DOMAIN b : WellBuffered(req[p], b, k)
  BY Zenon DEF WellBuffered
<1> QED
  BY <1>3, <1>4, WriterAnswers, PrepareStep, Zenon

\* kv_commit buffers records only in exchange for its own locks.
LEMMA KvCommitStep ==
    ASSUME IInv, NEW p \in Tasks, KvCommit(p)
    PROVE  IInv'
<1> DEFINE s == req[p].start
           K == {k \in keys[p] : OwnLock(k, s)}
<1>1. pc[p] = "latched" /\ req[p].op = "Commit"
  BY Zenon DEF KvCommit, Latched
<1>2. req[p].commit = CommitTs[s]
  BY <1>1, WriterFacts, RequestFacts, Zenon
<1>3. CASE Refuse(p, Resp("Locked", 0)) \/ Refuse(p, Resp("NotLocked", 0))
  BY <1>1, <1>3, WriterAnswers, RefuseStep, Zenon
<1>4. CASE Prepare(p, [k \in K |-> CommitModify(s, req[p].commit, lock[k].kind)], Resp("Ok", 0))
  BY <1>1, <1>2, <1>4, PromoteBuffer
<1> QED
  BY <1>3, <1>4, Zenon DEF KvCommit

\* kv_resolve_lock reads the locks again under its latches.
LEMMA KvResolveLockStep ==
    ASSUME IInv, NEW p \in Tasks, KvResolveLock(p)
    PROVE  IInv'
<1> DEFINE s == req[p].start
           K == {k \in keys[p] : OwnLock(k, s)}
           b == [k \in K |-> RollbackModify(s, NoLock)]
<1>1. pc[p] = "latched" /\ req[p].op = "ResolveLock"
  BY Zenon DEF KvResolveLock, Latched
<1>2. s \in StartTs /\ req[p].commit \in {0, CommitTs[s]} /\ K \in SUBSET Keys
  BY <1>1, WriterFacts, RequestFacts, Zenon DEF IInv, TypeOK
<1>3. CASE req[p].commit > 0
           /\ Prepare(p, [k \in K |-> CommitModify(s, req[p].commit, lock[k].kind)], Resp("Ok", 0))
  <2>1. req[p].commit = CommitTs[s]
    BY <1>2, <1>3
  <2> QED
    BY <1>1, <1>3, <2>1, PromoteBuffer
<1>4. CASE Prepare(p, b, Resp("Ok", 0))
  <2>1. b \in Buffers
    BY <1>2, ModifyTypes, BufferIntro, Zenon
  <2>2. \A k \in DOMAIN b : WellBuffered(req[p], b, k)
    BY <1>1, Zenon DEF WellBuffered
  <2> QED
    BY <1>1, <1>4, <2>1, <2>2, WriterAnswers, PrepareStep, Zenon
<1> QED
  BY <1>3, <1>4, Zenon DEF KvResolveLock

\* kv_check_txn_status buffers at most a rollback of the primary.
LEMMA KvCheckTxnStatusStep ==
    ASSUME IInv, NEW p \in Tasks, KvCheckTxnStatus(p)
    PROVE  IInv'
<1> DEFINE s == req[p].start
           k == Primary[s]
<1>1. pc[p] = "latched" /\ req[p].op = "CheckTxnStatus"
  BY Zenon DEF KvCheckTxnStatus, Latched
<1>2. s \in StartTs /\ keys[p] = {k} /\ k \in Keys
  BY <1>1, WriterFacts, RequestFacts, Zenon DEF IInv, Control, TypeOK
<1>3. ASSUME NEW ts \in Nat, Refuse(p, Resp("Locked", ts)) \/ Refuse(p, Resp("Committed", ts))
      PROVE  IInv'
  BY <1>1, <1>3, WriterAnswers, RefuseStep, Zenon
<1>4. CASE OwnLock(k, s)
           /\ Prepare(p, [j \in {k} |-> RollbackModify(s, NoLock)], Resp("TtlExpireRollback", 0))
  <2> DEFINE b == [j \in {k} |-> RollbackModify(s, NoLock)]
  <2>1. b \in Buffers
    BY <1>2, ModifyTypes, BufferIntro, Zenon
  <2>2. DOMAIN b \subseteq keys[p] /\ \A j \in DOMAIN b : WellBuffered(req[p], b, j)
    BY <1>1, <1>2, <1>4, Zenon DEF WellBuffered
  <2> QED
    BY <1>1, <1>4, <2>1, <2>2, WriterAnswers, PrepareStep, Zenon
<1>5. CASE Unlocked(k)
           /\ Prepare(p, [j \in {k} |-> RollbackRecord(s)], Resp("LockNotExistRollback", 0))
  <2> DEFINE b == [j \in {k} |-> RollbackRecord(s)]
  <2>1. b \in Buffers
    BY <1>2, ModifyTypes, BufferIntro, Zenon
  <2>2. DOMAIN b \subseteq keys[p] /\ \A j \in DOMAIN b : WellBuffered(req[p], b, j)
    BY <1>1, <1>2, <1>5, Zenon DEF WellBuffered
  <2> QED
    BY <1>1, <1>5, <2>1, <2>2, WriterAnswers, PrepareStep, Zenon
<1>6. \A c \in current_write(write[k], s) : c \in Nat
  BY <1>2, TimestampFacts, Zenon DEF current_write
<1> QED
  BY <1>3, <1>4, <1>5, <1>6, ConstantsAssumption, Zenon DEF KvCheckTxnStatus

\* kv_batch_rollback touches no lock of another transaction.
LEMMA KvBatchRollbackStep ==
    ASSUME IInv, NEW p \in Tasks, KvBatchRollback(p)
    PROVE  IInv'
<1> DEFINE s == req[p].start
           b == [k \in keys[p] |-> RollbackModify(s, IF OwnLock(k, s) THEN NoLock ELSE Keep)]
<1>1. pc[p] = "latched" /\ req[p].op = "BatchRollback"
  BY Zenon DEF KvBatchRollback, Latched
<1>2. s \in StartTs /\ keys[p] \in SUBSET Keys
  BY <1>1, WriterFacts, Zenon DEF IInv, TypeOK
<1>3. CASE Refuse(p, Resp("Locked", 0)) \/ Refuse(p, Resp("Abort", 0))
  BY <1>1, <1>3, WriterAnswers, RefuseStep, Zenon
<1>4. CASE (\A k \in keys[p] : ~RollbackError(k, s)) /\ Prepare(p, b, Resp("Ok", 0))
  <2>1. b \in Buffers
    BY <1>2, ModifyTypes, BufferIntro, Zenon
  <2>2. \A k \in DOMAIN b : WellBuffered(req[p], b, k)
    BY <1>1, <1>4, Zenon DEF WellBuffered, RollbackError, ForeignLock
  <2> QED
    BY <1>1, <1>4, <2>1, <2>2, WriterAnswers, PrepareStep, Zenon
<1> QED
  BY <1>3, <1>4, Zenon DEF KvBatchRollback

\* Every action keeps the invariant.
LEMMA NextIInv == IInv /\ [Next]_vars => IInv'
<1> SUFFICES ASSUME IInv, [Next]_vars PROVE IInv'
  BY Zenon
<1>1. CASE UNCHANGED vars
  <2>1. TypeOK' /\ Control' /\ LatchesHeld'
    BY <1>1, Zenon DEF IInv, vars, TypeOK, Control, LatchesHeld
  <2>2. Pending'
    BY <1>1 DEF IInv, vars, Pending, WellBuffered, Unlocked, OwnLock
  <2>3. StoreInv'
    BY <1>1, StoreUnchanged, Zenon DEF vars, store
  <2>4. ReadsCommitted'
    BY <1>1, Zenon DEF IInv, vars, ReadsCommitted, ReadOK, GetKey
  <2> QED
    BY <2>1, <2>2, <2>3, <2>4, Zenon DEF IInv
<1>2. ASSUME NEW p \in Tasks, Handle(p)
      PROVE  IInv'
  BY Zenon, <1>2, AcquireLatchesStep, KvPrewriteStep, KvCommitStep, KvCheckTxnStatusStep,
     KvBatchRollbackStep, ResolveLockScanStep, KvResolveLockStep, WriteAndReleaseStep, GetSteps
     DEF Handle
<1> QED
  BY <1>1, <1>2, ReceiveStep, FailStep, ReplyStep, Zenon DEF Next

\* The invariant holds in every state of every behaviour.
LEMMA SpecIInv == Spec => []IInv
BY InitIInv, NextIInv, PTL DEF Spec

\* Only a task in "write" changes the store.
LEMMA StoreSteps ==
    ASSUME [Next]_vars
    PROVE  \/ UNCHANGED store
           \/ \E p \in Tasks : pc[p] = "write" /\ ApplyWrites(buf[p], req[p].start)
<1>1. CASE UNCHANGED vars
  BY <1>1, Zenon DEF vars, store
<1>2. ASSUME NEW p \in Tasks, Handle(p), ~WriteAndRelease(p)
      PROVE  UNCHANGED store
  BY <1>2, Zenon DEF Handle, AcquireLatches, KvPrewrite, KvCommit, KvCheckTxnStatus, KvBatchRollback,
              ResolveLockScan, KvResolveLock, Refuse, Prepare, GetCheckLock, GetValueCheckLock,
              GetLockedError, GetMostRecentWrite, GetDefault, GetDone, GetGoto
<1> QED
  BY <1>1, <1>2, Zenon DEF Next, Receive, Fail, Reply, WriteAndRelease

\* What every step keeps: one record or lock change per key as the
\* properties allow, and locks that appear together.
LEMMA StepFacts ==
    IInv /\ [Next]_vars =>
        /\ \A k \in Keys : KeyStep(k)
        /\ \A s \in StartTs :
              (\E k \in Keys : lock[k].ts # s /\ lock'[k].ts = s)
                  => \A k \in DOMAIN Mutation[s] : lock'[k].ts = s
<1> SUFFICES ASSUME IInv, [Next]_vars
             PROVE  /\ \A k \in Keys : KeyStep(k)
                    /\ \A s \in StartTs :
                          (\E k \in Keys : lock[k].ts # s /\ lock'[k].ts = s)
                              => \A k \in DOMAIN Mutation[s] : lock'[k].ts = s
  BY Zenon
<1>1. CASE UNCHANGED store
  BY <1>1, StoreUnchanged, Zenon DEF store
<1>2. ASSUME NEW p \in Tasks, pc[p] = "write", ApplyWrites(buf[p], req[p].start)
      PROVE  /\ \A k \in Keys : KeyStep(k)
             /\ \A s \in StartTs :
                   (\E k \in Keys : lock[k].ts # s /\ lock'[k].ts = s)
                       => \A k \in DOMAIN Mutation[s] : lock'[k].ts = s
  BY <1>2, ApplyStore, ApplyLocks, Zenon
<1> QED
  BY <1>1, <1>2, StoreSteps, Zenon
-----------------------------------------------------------------------------
(* The theorems. *)

\* The handlers keep the column families, the latch table and the buffers of
\* their types whatever requests arrive and whichever tasks fail.
THEOREM HandlersTyped == Spec => []TypeOK
<1>1. IInv => TypeOK
  BY Zenon DEF IInv
<1> QED
  BY <1>1, SpecIInv, PTL

\* kv_prewrite never replaces another transaction's lock.
THEOREM LocksAreNotStolen == Spec => LockNotStolen
<1>1. IInv /\ [Next]_vars
          => [\A k \in Keys : lock[k] # NoLock => lock'[k] \in {lock[k], NoLock}]_vars
  BY StepFacts, Zenon DEF KeyStep, KeepsLock
<1> QED
  BY <1>1, SpecIInv, PTL DEF Spec, LockNotStolen

\* A key locked for a Put always has its value in CF_DEFAULT.
THEOREM LockedKeysHaveValues == Spec => []LockedValuePresent
<1>1. IInv => LockedValuePresent
  BY Zenon DEF IInv, StoreInv
<1> QED
  BY <1>1, SpecIInv, PTL

\* kv_commit and kv_resolve_lock write a commit record only in exchange for
\* the lock of the transaction.
THEOREM CommitsConsumeLocks == Spec => CommitConsumesLock
<1>1. IInv /\ [Next]_vars
          => [\A k \in Keys, s \in StartTs :
                 (write[k][CommitTs[s]] = NoWrite /\ write'[k][CommitTs[s]] # NoWrite)
                     => /\ lock[k].ts = s
                        /\ write'[k][CommitTs[s]] = Write(s, lock[k].kind)
                        /\ lock'[k] = NoLock]_vars
  BY StepFacts, Zenon DEF KeyStep, CommitsLocked
<1> QED
  BY <1>1, SpecIInv, PTL DEF Spec, CommitConsumesLock

\* No handler changes or removes a commit record.
THEOREM CommitRecordsAreStable == Spec => CommitRecordStable
<1>1. IInv /\ [Next]_vars
          => [\A k \in Keys, s \in StartTs :
                 write[k][CommitTs[s]] # NoWrite
                     => write'[k][CommitTs[s]] = write[k][CommitTs[s]]]_vars
  BY StepFacts, Zenon DEF KeyStep, KeepsCommits
<1> QED
  BY <1>1, SpecIInv, PTL DEF Spec, CommitRecordStable

\* kv_prewrite locks all the keys of its transaction in one step.
THEOREM PrewriteIsAllOrNothing == Spec => PrewriteAllOrNothing
<1>1. IInv /\ [Next]_vars
          => [\A s \in StartTs :
                 (\E k \in Keys : lock[k].ts # s /\ lock'[k].ts = s)
                     => \A k \in DOMAIN Mutation[s] : lock'[k].ts = s]_vars
  BY StepFacts, Zenon
<1> QED
  BY <1>1, SpecIInv, PTL DEF Spec, PrewriteAllOrNothing

\* kv_get answers only with values a commit record at or below its version
\* stands for.
THEOREM ReadsAreCommitted == Spec => []NoDirtyRead
<1>1. IInv => NoDirtyRead
  BY Zenon DEF IInv, ReadsCommitted, ReadOK, NoDirtyRead
<1> QED
  BY <1>1, SpecIInv, PTL

\* Only a task that is between wait_for_latches and release_latches has
\* latches.
HoldersLatched == \A p \in Tasks, k \in Keys : latches[k] = p => pc[p] \in {"latched", "write"}

\* A handler takes latches when it has none, releases all it has or, when it
\* dies, leaves all of them behind.
LEMMA LatchSteps ==
    ASSUME TypeOK, HoldersLatched, Next
    PROVE  HoldersLatched' /\ [KL!Next]_latches
<1> USE ConstantsAssumption DEF HoldersLatched
<1>1. PICK p \in Tasks : (\E r \in Requests : Receive(p, r)) \/ Handle(p) \/ Fail(p) \/ Reply(p)
  BY Zenon DEF Next
<1>2. /\ latches \in [Keys -> Tasks \cup {Free, Leaked}] /\ pc \in [Tasks -> Labels]
      /\ keys[p] \subseteq Keys
  BY Zenon DEF TypeOK
<1>3. ASSUME latches' = latches, NEW l, pc' = [pc EXCEPT ![p] = l],
             pc[p] \in {"latched", "write"} => l = "write"
      PROVE  HoldersLatched' /\ [KL!Next]_latches
  BY <1>2, <1>3
<1>4. CASE AcquireLatches(p)
  <2>1. HoldersLatched'
    BY <1>2, <1>4 DEF AcquireLatches
  <2>2. ASSUME keys[p] # {} PROVE KL!Take(p, keys[p])
    BY <1>2, <1>4, <2>2 DEF AcquireLatches, KL!Take, KL!Held
  <2>3. ASSUME keys[p] = {} PROVE latches' = latches
    BY <1>2, <1>4, <2>3 DEF AcquireLatches
  <2> QED
    BY <1>2, <2>1, <2>2, <2>3, Zenon DEF KL!Next
<1>5. ASSUME pc' = [pc EXCEPT ![p] = "done"], NEW h \in {Free, Leaked},
             latches' = [k \in Keys |-> IF latches[k] = p THEN h ELSE latches[k]]
      PROVE  HoldersLatched' /\ [KL!Next]_latches
  <2>1. HoldersLatched'
    BY <1>2, <1>5
  <2>2. ASSUME KL!Held(p) # {} PROVE KL!GiveBack(p) \/ KL!Abandon(p)
    BY <1>2, <1>5, <2>2 DEF KL!GiveBack, KL!Abandon, KL!Held
  <2>3. ASSUME KL!Held(p) = {} PROVE latches' = latches
    BY <1>2, <1>5, <2>3 DEF KL!Held
  <2> QED
    BY <2>1, <2>2, <2>3, Zenon DEF KL!Next
<1>6. CASE Fail(p)
  BY <1>5, <1>6, Zenon DEF Fail
<1>7. CASE WriteAndRelease(p)
  BY <1>5, <1>7, Zenon DEF WriteAndRelease, ReleaseLatches
<1>8. ASSUME NEW answer, Refuse(p, answer)
      PROVE  HoldersLatched' /\ [KL!Next]_latches
  BY <1>5, <1>8, Zenon DEF Refuse, ReleaseLatches
<1>9. ASSUME NEW b, NEW answer, Prepare(p, b, answer)
      PROVE  HoldersLatched' /\ [KL!Next]_latches
  BY <1>3, <1>9, Zenon DEF Prepare
<1>10. CASE KvPrewrite(p) \/ KvCommit(p) \/ KvCheckTxnStatus(p) \/ KvBatchRollback(p) \/ KvResolveLock(p)
  BY <1>8, <1>9, <1>10, Zenon
     DEF KvPrewrite, KvCommit, KvCheckTxnStatus, KvBatchRollback, KvResolveLock
<1>11. CASE Reply(p) \/ ResolveLockScan(p) \/ \E r \in Requests : Receive(p, r)
  BY <1>3, <1>11 DEF Reply, ResolveLockScan, Receive
<1>12. CASE GetCheckLock(p) \/ GetValueCheckLock(p) \/ GetLockedError(p)
             \/ GetMostRecentWrite(p) \/ GetDefault(p)
  <2>1. latches' = latches /\ pc[p] \notin {"latched", "write"}
    BY <1>12 DEF GetCheckLock, GetValueCheckLock, GetLockedError, GetMostRecentWrite, GetDefault,
                 GetDone, GetGoto
  <2>2. \E l : pc' = [pc EXCEPT ![p] = l]
    BY <1>12, Zenon DEF GetCheckLock, GetValueCheckLock, GetLockedError, GetMostRecentWrite,
                        GetDefault, GetDone, GetGoto
  <2> QED
    BY <1>3, <2>1, <2>2, Zenon
<1> QED
  BY <1>1, <1>4, <1>6, <1>7, <1>10, <1>11, <1>12, Zenon DEF Handle

\* The latch table as the handlers use it implements KeyLatches: a command
\* takes all its keys together while nobody has one of them, and gives all
\* back in one step, or none if its handler dies.
THEOREM LatchesAsPromised == Spec => UsesKeyLatches
<1>1. Init => KL!Init /\ HoldersLatched
  BY ConstantsAssumption DEF Init, KL!Init, HoldersLatched
<1>2. TypeOK /\ HoldersLatched /\ [Next]_vars => HoldersLatched' /\ [KL!Next]_latches
  BY LatchSteps, Zenon DEF vars, HoldersLatched
<1> QED
  BY <1>1, <1>2, HandlersTyped, PTL DEF Spec, UsesKeyLatches, KL!Spec
-----------------------------------------------------------------------------
(* A scan beside the handlers. *)

Ranks == 1..Len(ScanOrder)

Items == [key : Ranks, commit_ts : Timestamps, record : Writes]

Pairs == [key : Ranks, value : StartTs \cup {0}, error : BOOLEAN]

ScanTyped ==
    scan \in [pc : {"idle", "next", "lock", "done"}, version : Nat, limit : Nat,
              items : SUBSET Items, current_key : Ranks \cup {0}, value : StartTs \cup {0},
              pairs : Seq(Pairs), from : Ranks \cup {0}, quiet : BOOLEAN]

\* A version of the key that the reader may see is committed.
Readable(rank, value) ==
    \E c \in Timestamps : c <= scan.version /\ write[ScanOrder[rank]][c] = Write(value, "Put")

\* A Put the iterator has still to come to is in the store as it was when the
\* scan began.
ItemsStand ==
    \A i \in scan.items :
        i.record.kind = "Put" => write[ScanOrder[i.key]][i.commit_ts] = i.record

\* The iterator is at current_key or after it; no key was returned after it.
ItemsAhead == \A i \in scan.items : scan.current_key <= i.key

PairsBehind == \A n \in DOMAIN scan.pairs : scan.pairs[n].key <= scan.current_key

\* Between the value and the lock of a key.
PairFound ==
    scan.pc = "lock" =>
        /\ scan.current_key \in Ranks
        /\ Readable(scan.current_key, scan.value)
        /\ \A n \in DOMAIN scan.pairs : scan.pairs[n].key < scan.current_key

ScanInv ==
    ScanTyped /\ ItemsStand /\ ItemsAhead /\ PairsBehind /\ PairFound /\ ScanReadsCommitted

\* The order of the keys.
LEMMA RankFacts ==
    /\ Len(ScanOrder) \in Nat
    /\ \A r \in Ranks : r \in Nat /\ r # 0 /\ ScanOrder[r] \in Keys
BY ScanAssumption DEF Ranks

\* No handler changes a record of a Put.
LEMMA PutsStay ==
    ASSUME IInv, [Next]_vars, NEW k \in Keys, NEW c \in Timestamps, write[k][c].kind = "Put"
    PROVE  write'[k][c] = write[k][c]
<1>1. write[k][c] \in Writes /\ write[k][c] # NoWrite
  <2>1. write[k][c] \in Writes
    BY Zenon DEF IInv, TypeOK
  <2>2. NoWrite.kind # "Put"
    BY DEF NoWrite
  <2> QED
    BY <2>1, <2>2, Zenon
<1>2. write[k][c].start_ts \in StartTs
  BY <1>1 DEF Writes
<1>3. c = CommitTs[write[k][c].start_ts]
  <2>1. "Put" # "Rollback"
    BY Zenon
  <2> QED
    BY <1>1, <2>1, Zenon DEF IInv, StoreInv, RecordsFromTxns
<1> QED
  BY <1>1, <1>2, <1>3, StepFacts, Zenon DEF KeyStep, KeepsCommits

\* What the fields of the scan are.
LEMMA PairFacts ==
    ASSUME ScanTyped
    PROVE  /\ scan.pairs \in Seq(Pairs)
           /\ \A n \in DOMAIN scan.pairs : scan.pairs[n] \in Pairs /\ scan.pairs[n].key \in Ranks
<1>1. scan.pairs \in Seq(Pairs)
  BY DEF ScanTyped
<1>2. \A n \in DOMAIN scan.pairs : scan.pairs[n] \in Pairs
  BY <1>1
<1>3. \A p \in Pairs : p.key \in Ranks
  BY DEF Pairs
<1> QED
  BY <1>1, <1>2, <1>3, Zenon

\* What the scan has found stays when a handler takes a step.
LEMMA BesideScan ==
    ASSUME IInv, ScanInv, [Next]_vars, WatchScan \/ UNCHANGED scan
    PROVE  ScanInv'
<1>1. /\ ScanTyped'
      /\ scan'.pc = scan.pc /\ scan'.version = scan.version /\ scan'.items = scan.items
      /\ scan'.current_key = scan.current_key /\ scan'.value = scan.value
      /\ scan'.pairs = scan.pairs
  <2>1. CASE scan' = scan
    BY <2>1, Zenon DEF ScanInv, ScanTyped
  <2>2. CASE scan' = [scan EXCEPT !.quiet = FALSE]
    BY <2>2, Zenon DEF ScanInv, ScanTyped
  <2> QED
    BY <2>1, <2>2, Zenon DEF WatchScan
<1>2. ASSUME NEW rank \in Ranks, NEW value, Readable(rank, value)
      PROVE  Readable(rank, value)'
  <2>1. PICK c \in Timestamps :
            c <= scan.version /\ write[ScanOrder[rank]][c] = Write(value, "Put")
    BY <1>2, Zenon DEF Readable
  <2>2. write[ScanOrder[rank]][c].kind = "Put"
    BY <2>1 DEF Write
  <2>3. write'[ScanOrder[rank]][c] = write[ScanOrder[rank]][c]
    BY <2>2, PutsStay, RankFacts, Zenon
  <2> QED
    BY <1>1, <2>1, <2>3, Zenon DEF Readable
<1>3. ItemsStand'
  <2> SUFFICES ASSUME NEW i \in scan.items, i.record.kind = "Put"
               PROVE  write'[ScanOrder[i.key]][i.commit_ts] = i.record
    BY <1>1, Zenon DEF ItemsStand
  <2>1. i.key \in Ranks /\ i.commit_ts \in Timestamps
    BY DEF ScanInv, ScanTyped, Items
  <2>2. write[ScanOrder[i.key]][i.commit_ts] = i.record
    BY Zenon DEF ScanInv, ItemsStand
  <2> QED
    BY <2>1, <2>2, PutsStay, RankFacts, Zenon
<1>4. ItemsAhead' /\ PairsBehind'
  BY <1>1, Zenon DEF ScanInv, ItemsAhead, PairsBehind
<1>5. PairFound'
  BY <1>1, <1>2, Zenon DEF ScanInv, PairFound
<1>6. ScanReadsCommitted'
  <2> SUFFICES ASSUME NEW n \in DOMAIN scan.pairs
               PROVE  /\ \A m \in 1..(n - 1) : scan.pairs[m].key < scan.pairs[n].key
                      /\ ~scan.pairs[n].error => Readable(scan.pairs[n].key, scan.pairs[n].value)'
    BY <1>1, Zenon DEF ScanReadsCommitted, Readable
  <2>1. scan.pairs[n].key \in Ranks
    BY PairFacts, Zenon DEF ScanInv
  <2>2. /\ \A m \in 1..(n - 1) : scan.pairs[m].key < scan.pairs[n].key
        /\ ~scan.pairs[n].error => Readable(scan.pairs[n].key, scan.pairs[n].value)
    BY Zenon DEF ScanInv, ScanReadsCommitted, Readable
  <2> QED
    BY <1>1, <1>2, <2>1, <2>2, Zenon
<1> QED
  BY <1>1, <1>3, <1>4, <1>5, <1>6, Zenon DEF ScanInv

\* A scan that has nothing to show yet.
LEMMA EmptyScan ==
    ASSUME scan.pairs = << >>, scan.pc # "lock", ScanTyped, ItemsStand, ItemsAhead
    PROVE  ScanInv
<1>1. DOMAIN scan.pairs = {}
  OBVIOUS
<1> QED
  BY <1>1, Zenon DEF ScanInv, PairsBehind, PairFound, ScanReadsCommitted

\* The same of the scan after a step.
LEMMA EmptyScanNext ==
    ASSUME scan'.pairs = << >>, scan'.pc # "lock", ScanTyped', ItemsStand', ItemsAhead'
    PROVE  ScanInv'
<1>1. DOMAIN scan'.pairs = {}
  OBVIOUS
<1> QED
  BY <1>1, Zenon DEF ScanInv, PairsBehind, PairFound, ScanReadsCommitted

\* Before and after a scan.
LEMMA NoScanInv == scan = NoScan => ScanInv
<1> SUFFICES ASSUME scan = NoScan PROVE ScanInv
  BY Zenon
<1>1. scan.pairs = << >> /\ scan.pc = "idle" /\ scan.items = {}
  BY DEF NoScan
<1>2. ScanTyped
  BY DEF NoScan, ScanTyped
<1> QED
  BY <1>1, <1>2, EmptyScan, Zenon DEF ItemsStand, ItemsAhead

\* Scanner::new takes the records as they are.
LEMMA ScanBeginStep ==
    ASSUME IInv, NEW version \in ReadTs, ScanBegin(version)
    PROVE  ScanInv'
<1>1. PICK first \in Ranks, limit \in ScanLimits : scan' = ScannerNew(first, version, limit)
  BY Zenon DEF ScanBegin, Ranks
<1>2. version \in Nat /\ limit \in Nat
  BY TimestampsAssumption, ScanAssumption
<1>3. ASSUME NEW i \in WriteItems(first)
      PROVE  /\ i \in Items
             /\ i.record = write[ScanOrder[i.key]][i.commit_ts]
  <2>1. PICK rank \in first..Len(ScanOrder), ts \in Timestamps :
            i = [key |-> rank, commit_ts |-> ts, record |-> write[ScanOrder[rank]][ts]]
    BY DEF WriteItems
  <2>2. rank \in Ranks
    BY RankFacts DEF Ranks
  <2>3. write[ScanOrder[rank]][ts] \in Writes
    BY <2>2, RankFacts, Zenon DEF IInv, TypeOK
  <2> QED
    BY <2>1, <2>2, <2>3 DEF Items
<1>4. /\ scan'.pairs = << >> /\ scan'.pc \in {"next", "done"} /\ scan'.items = WriteItems(first)
      /\ scan'.current_key = 0
  BY <1>1 DEF ScannerNew
<1>5. ScanTyped'
  <2>1. << >> \in Seq(Pairs)
    OBVIOUS
  <2>2. WriteItems(first) \in SUBSET Items
    BY <1>3, Zenon
  <2> QED
    BY <1>1, <1>2, <2>1, <2>2 DEF ScanTyped, ScannerNew
<1>6. ItemsStand'
  <2> SUFFICES ASSUME NEW i \in WriteItems(first)
               PROVE  write'[ScanOrder[i.key]][i.commit_ts] = i.record
    BY <1>4, Zenon DEF ItemsStand
  <2>1. write' = write
    BY Zenon DEF ScanBegin, vars
  <2> QED
    BY <1>3, <2>1, Zenon
<1>7. ItemsAhead'
  <2>1. \A i \in Items : 0 <= i.key
    BY RankFacts DEF Items
  <2> QED
    BY <1>3, <1>4, <2>1, Zenon DEF ItemsAhead
<1>8. scan'.pc # "lock"
  BY <1>4
<1> QED
  BY <1>4, <1>5, <1>6, <1>7, <1>8, EmptyScanNext, Zenon

\* What the store and the answer are like does not matter to a step that
\* leaves both alone.
LEMMA AnswerKept ==
    ASSUME UNCHANGED vars, scan'.version = scan.version, scan'.pairs = scan.pairs,
           ScanReadsCommitted
    PROVE  ScanReadsCommitted'
BY Zenon DEF ScanReadsCommitted, vars

\* What Scanner::next has when it comes to a record it does not pass.
Reached(i) ==
    /\ i \in scan.items /\ i.key \in Ranks /\ i.commit_ts \in Timestamps /\ i.record \in Writes
    /\ scan.current_key < i.key /\ i.commit_ts <= scan.version
    /\ \A j \in Past(i) \cup {i} : j \in scan.items /\ i.key <= j.key /\ scan.current_key <= j.key
    /\ \A n \in DOMAIN scan.pairs : scan.pairs[n].key < i.key

\* The iterator comes to a record of a key above the last.
LEMMA ReachedFacts ==
    ASSUME ScanInv, NEW i \in scan.items, ~Passed(i)
    PROVE  Reached(i)
<1>1. /\ i \in Items /\ i.key \in Ranks /\ i.commit_ts \in Timestamps /\ i.record \in Writes
      /\ \A j \in scan.items : j \in Items /\ j.key \in Ranks
  BY DEF ScanInv, ScanTyped, Items
<1>2. scan.current_key \in Nat /\ scan.version \in Nat /\ i.key \in Nat /\ i.commit_ts \in Nat
  <2>1. scan.current_key \in Ranks \cup {0} /\ scan.version \in Nat
    BY DEF ScanInv, ScanTyped
  <2>2. i.commit_ts \in Nat
    BY <1>1, TimestampsAssumption, Zenon
  <2>3. \A r \in Ranks \cup {0} : r \in Nat
    BY RankFacts
  <2> QED
    BY <1>1, <2>1, <2>2, <2>3, Zenon
<1>3. scan.current_key < i.key /\ i.commit_ts <= scan.version
  <2>1. scan.current_key <= i.key
    BY Zenon DEF ScanInv, ItemsAhead
  <2> QED
    BY <1>2, <2>1 DEF Passed
<1>4. \A j \in Past(i) \cup {i} : j \in scan.items /\ i.key <= j.key /\ scan.current_key <= j.key
  <2>1. \A j \in scan.items : j.key \in Nat
    BY <1>1, RankFacts, Zenon
  <2> QED
    BY <1>2, <1>3, <2>1 DEF Past, Before
<1>5. \A n \in DOMAIN scan.pairs : scan.pairs[n].key < i.key
  <2>1. \A n \in DOMAIN scan.pairs : scan.pairs[n].key \in Nat
    BY PairFacts, RankFacts, Zenon DEF ScanInv
  <2>2. \A n \in DOMAIN scan.pairs : scan.pairs[n].key <= scan.current_key
    BY Zenon DEF ScanInv, PairsBehind
  <2> QED
    BY <1>2, <1>3, <2>1, <2>2
<1> QED
  BY <1>1, <1>3, <1>4, <1>5, Zenon DEF Reached

\* Scanner::next on such a record, in each of its three cases.
LEMMA OnRecordStep ==
    ASSUME IInv, ScanInv, scan.pc = "next", UNCHANGED vars, NEW i, Reached(i), scan' = OnRecord(i)
    PROVE  ScanInv'
<1>1. i.key \in Ranks /\ i.key \in Nat /\ scan.current_key \in Nat
  BY RankFacts DEF ScanInv, ScanTyped, Reached
<1>2. /\ Past(i) \in SUBSET Items
      /\ (Past(i) \cup {i}) \in SUBSET Items
  BY DEF ScanInv, ScanTyped, Reached
<1>3. \A n \in DOMAIN scan.pairs : scan.pairs[n].key <= i.key
  <2>1. \A n \in DOMAIN scan.pairs : scan.pairs[n].key \in Nat /\ scan.pairs[n].key < i.key
    BY PairFacts, RankFacts, Zenon DEF ScanInv, Reached
  <2> QED
    BY <1>1, <2>1
<1>4. CASE i.record.kind # "Put"
  <2>1. scan' = [scan EXCEPT !.items = Past(i), !.current_key = i.key]
    BY <1>4, Zenon DEF OnRecord
  <2>2. /\ ScanTyped'
        /\ scan'.pc = "next" /\ scan'.version = scan.version /\ scan'.items = Past(i)
        /\ scan'.current_key = i.key /\ scan'.pairs = scan.pairs
    BY <1>1, <1>2, <2>1, Zenon DEF ScanInv, ScanTyped
  <2>3. ItemsStand' /\ ItemsAhead' /\ PairsBehind'
    BY <1>3, <2>2, Zenon DEF ScanInv, ItemsStand, ItemsAhead, PairsBehind, Reached, vars
  <2>4. scan'.pc # "lock"
    BY <2>2
  <2> QED
    BY <2>2, <2>3, <2>4, AnswerKept, Zenon DEF ScanInv, PairFound
<1>5. CASE i.record.kind = "Put" /\ i.record.start_ts \in data[ScanOrder[i.key]]
  <2>1. scan' = [scan EXCEPT !.pc = "lock", !.items = Past(i) \union {i}, !.current_key = i.key,
                             !.value = i.record.start_ts]
    BY <1>5, Zenon DEF OnRecord
  <2>2. i.record.start_ts \in StartTs /\ i.record = Write(i.record.start_ts, "Put")
    <3>1. NoWrite.kind # "Put"
      BY DEF NoWrite
    <3>2. i.record \in [start_ts : StartTs, kind : {"Put", "Delete", "Rollback"}]
      BY <1>5, <3>1, Zenon DEF Reached, Writes
    <3> QED
      BY <1>5, <3>2 DEF Write
  <2>3. /\ ScanTyped'
        /\ scan'.version = scan.version /\ scan'.items = Past(i) \cup {i}
        /\ scan'.current_key = i.key /\ scan'.pairs = scan.pairs
        /\ scan'.value = i.record.start_ts
    BY <1>1, <1>2, <2>1, <2>2, Zenon DEF ScanInv, ScanTyped
  <2>4. ItemsStand' /\ ItemsAhead' /\ PairsBehind'
    BY <1>3, <2>3, Zenon DEF ScanInv, ItemsStand, ItemsAhead, PairsBehind, Reached, vars
  <2>5. Readable(scan.current_key, scan.value)'
    <3>1. write[ScanOrder[i.key]][i.commit_ts] = i.record
      BY <1>5, Zenon DEF ScanInv, ItemsStand, Reached
    <3> QED
      BY <2>2, <2>3, <3>1, Zenon DEF Readable, Reached, vars
  <2>6. PairFound'
    BY <1>1, <2>3, <2>5, Zenon DEF PairFound, Reached
  <2> QED
    BY <2>3, <2>4, <2>6, AnswerKept, Zenon DEF ScanInv
<1>6. CASE i.record.kind = "Put" /\ i.record.start_ts \notin data[ScanOrder[i.key]]
  <2>1. scan' = [scan EXCEPT !.items = Past(i)]
    BY <1>6, Zenon DEF OnRecord
  <2>2. /\ ScanTyped'
        /\ scan'.pc = "next" /\ scan'.version = scan.version /\ scan'.items = Past(i)
        /\ scan'.current_key = scan.current_key /\ scan'.pairs = scan.pairs
    BY <1>2, <2>1, Zenon DEF ScanInv, ScanTyped
  <2>3. ItemsStand' /\ ItemsAhead' /\ PairsBehind'
    BY <2>2, Zenon DEF ScanInv, ItemsStand, ItemsAhead, PairsBehind, Reached, vars
  <2>4. scan'.pc # "lock"
    BY <2>2
  <2> QED
    BY <2>2, <2>3, <2>4, AnswerKept, Zenon DEF ScanInv, PairFound
<1> QED
  BY <1>4, <1>5, <1>6, Zenon

\* Scanner::next ends, or comes to a record.
LEMMA ScannerNextStep ==
    ASSUME IInv, ScanInv, ScannerNext
    PROVE  ScanInv'
<1>1. CASE scan' = [scan EXCEPT !.pc = "done"]
  <2>1. /\ ScanTyped'
        /\ scan'.pc # "lock" /\ scan'.version = scan.version /\ scan'.items = scan.items
        /\ scan'.current_key = scan.current_key /\ scan'.pairs = scan.pairs
    BY <1>1 DEF ScanInv, ScanTyped
  <2>2. ItemsStand' /\ ItemsAhead' /\ PairsBehind' /\ PairFound'
    BY <2>1, Zenon DEF ScanInv, ScannerNext, ItemsStand, ItemsAhead, PairsBehind, PairFound, vars
  <2> QED
    BY <2>1, <2>2, AnswerKept, Zenon DEF ScanInv, ScannerNext
<1>2. ASSUME NEW i \in scan.items, ~Passed(i), scan' = OnRecord(i)
      PROVE  ScanInv'
  BY <1>2, ReachedFacts, OnRecordStep, Zenon DEF ScannerNext
<1> QED
  BY <1>1, <1>2, Zenon DEF ScannerNext

\* kv_scan adds the key to its answer, with the value or the lock.
LEMMA ScanCheckLockStep ==
    ASSUME IInv, ScanInv, ScanCheckLock
    PROVE  ScanInv'
<1> DEFINE held == ScanLocked(ScanOrder[scan.current_key])
           new == Pair(scan.current_key, scan.value, held)
           old == scan.pairs
<1>1. /\ scan.pc = "lock" /\ scan.current_key \in Ranks
      /\ Readable(scan.current_key, scan.value)
      /\ \A n \in DOMAIN old : old[n].key < scan.current_key
  BY Zenon DEF ScanInv, PairFound, ScanCheckLock
<1>2. new \in Pairs /\ new.key = scan.current_key /\ (~new.error => new.value = scan.value)
  <2>1. held \in BOOLEAN
    BY Zenon DEF ScanLocked
  <2>2. scan.value \in StartTs \cup {0}
    BY DEF ScanInv, ScanTyped
  <2> HIDE DEF held
  <2> QED
    BY <1>1, <2>1, <2>2 DEF Pair, Pairs
<1> HIDE DEF held, new
<1>3. old \in Seq(Pairs) /\ \A n \in DOMAIN old : old[n].key \in Nat
  BY PairFacts, RankFacts, Zenon DEF ScanInv
<1>4. /\ Append(old, new) \in Seq(Pairs)
      /\ Len(old) \in Nat /\ DOMAIN old = 1..Len(old)
      /\ DOMAIN Append(old, new) = 1..(Len(old) + 1)
      /\ \A n \in 1..Len(old) : Append(old, new)[n] = old[n]
      /\ Append(old, new)[Len(old) + 1] = new
  BY <1>2, <1>3
<1>5. \E place \in {"done", "next"} : scan' = [scan EXCEPT !.pc = place, !.pairs = Append(old, new)]
  BY Zenon DEF ScanCheckLock, new, held
<1> DEFINE pairs == Append(old, new)
<1> HIDE DEF pairs
<1>6. /\ ScanTyped'
      /\ scan'.pc # "lock" /\ scan'.version = scan.version /\ scan'.items = scan.items
      /\ scan'.current_key = scan.current_key /\ scan'.pairs = pairs
  BY <1>4, <1>5, Zenon DEF ScanInv, ScanTyped, pairs
<1>7. ItemsStand' /\ ItemsAhead' /\ PairFound'
  BY <1>6, Zenon DEF ScanInv, ScanCheckLock, ItemsStand, ItemsAhead, PairFound, vars
<1>8. \A n \in DOMAIN pairs : n \in DOMAIN old \/ n = Len(old) + 1
  BY <1>4 DEF pairs
<1>9. scan.current_key \in Nat
  BY <1>1, RankFacts, Zenon
<1>10. PairsBehind'
  <2>1. \A n \in DOMAIN old : pairs[n].key <= scan.current_key
    BY <1>1, <1>3, <1>4, <1>9 DEF pairs
  <2>2. pairs[Len(old) + 1].key <= scan.current_key
    BY <1>2, <1>4, <1>9 DEF pairs
  <2> QED
    BY <1>6, <1>8, <2>1, <2>2, Zenon DEF PairsBehind
<1>11. ScanReadsCommitted'
  <2> DEFINE Shown(p) == ~p.error => \E c \in Timestamps :
                 c <= scan.version /\ write[ScanOrder[p.key]][c] = Write(p.value, "Put")
  <2>0. ASSUME \A n \in DOMAIN pairs :
                  Shown(pairs[n]) /\ \A m \in 1..(n - 1) : pairs[m].key < pairs[n].key
        PROVE  ScanReadsCommitted'
    <3>1. scan'.pairs = pairs /\ scan'.version = scan.version /\ write' = write
      BY <1>6, Zenon DEF ScanCheckLock, vars
    <3>2. \A n \in DOMAIN scan'.pairs :
              /\ \A m \in 1..(n - 1) : scan'.pairs[m].key < scan'.pairs[n].key
              /\ Shown(scan'.pairs[n])
      BY <2>0, <3>1
    <3> QED
      BY <3>1, <3>2, Zenon DEF ScanReadsCommitted
  <2> SUFFICES ASSUME NEW n \in DOMAIN pairs
               PROVE  Shown(pairs[n]) /\ \A m \in 1..(n - 1) : pairs[m].key < pairs[n].key
    BY <2>0, Zenon
  <2>1. CASE n \in DOMAIN old
    <3>1. pairs[n] = old[n]
      BY <1>4, <2>1 DEF pairs
    <3>2. \A m \in 1..(n - 1) : pairs[m] = old[m]
      BY <1>4, <2>1 DEF pairs
    <3>3. /\ \A m \in 1..(n - 1) : old[m].key < old[n].key
          /\ Shown(old[n])
      BY <2>1, Zenon DEF ScanInv, ScanReadsCommitted
    <3> QED
      BY <3>1, <3>2, <3>3, Zenon
  <2>2. CASE n = Len(old) + 1
    <3>1. pairs[n] = new
      BY <1>4, <2>2 DEF pairs
    <3>2. \A m \in 1..(n - 1) : m \in DOMAIN old /\ pairs[m] = old[m]
      BY <1>4, <2>2 DEF pairs
    <3> QED
      BY <1>1, <1>2, <3>1, <3>2, Zenon DEF Readable
  <2> QED
    BY <1>8, <2>1, <2>2, Zenon
<1> QED
  BY <1>6, <1>7, <1>10, <1>11, Zenon DEF ScanInv

\* Every step of a scan beside the handlers keeps both invariants.
LEMMA ScanNextInv == IInv /\ ScanInv /\ [ScanNext]_<<vars, scan>> => IInv' /\ ScanInv'
<1> SUFFICES ASSUME IInv, ScanInv, [ScanNext]_<<vars, scan>> PROVE IInv' /\ ScanInv'
  BY Zenon
<1>1. [Next]_vars
  BY Zenon DEF ScanNext, ScanBegin, ScanStep, ScannerNext, ScanCheckLock, ScanReply
<1>2. IInv'
  BY <1>1, NextIInv, Zenon
<1>3. ASSUME ScanReply PROVE ScanInv'
  <2>1. scan' = NoScan
    BY <1>3, Zenon DEF ScanReply
  <2>2. scan'.pairs = << >> /\ scan'.pc # "lock" /\ scan'.items = {} /\ ScanTyped'
    BY <2>1 DEF NoScan, ScanTyped
  <2> QED
    BY <2>2, EmptyScanNext, Zenon DEF ItemsStand, ItemsAhead
<1>4. ScanInv'
  BY <1>1, <1>3, BesideScan, ScanBeginStep, ScannerNextStep, ScanCheckLockStep, Zenon
     DEF ScanNext, ScanStep
<1> QED
  BY <1>2, <1>4, Zenon

\* Whatever requests are served beside it, kv_scan returns each key once, in
\* order, and only values that are committed at or below its version.
THEOREM ScansReadCommitted == ScanSpec => []ScanReadsCommitted
<1>1. Init /\ scan = NoScan => IInv /\ ScanInv
  BY InitIInv, NoScanInv, Zenon
<1>2. ScanInv => ScanReadsCommitted
  BY Zenon DEF ScanInv
<1> QED
  BY <1>1, <1>2, ScanNextInv, PTL DEF ScanSpec
-----------------------------------------------------------------------------
(* What a scan of a store at rest sees. *)

\* Every Put has its value.
ValuesStand ==
    \A k \in Keys, c \in Timestamps : write[k][c].kind = "Put" => write[k][c].start_ts \in data[k]

Item(rank, c) == [key |-> rank, commit_ts |-> c, record |-> write[ScanOrder[rank]][c]]

\* Every record of a key after current_key is still to come, as it is.
AllAhead ==
    /\ \A i \in scan.items : i = Item(i.key, i.commit_ts) /\ i.record # NoWrite /\ scan.from <= i.key
    /\ \A rank \in scan.from..Len(ScanOrder), c \in Timestamps :
          scan.current_key < rank /\ write[ScanOrder[rank]][c] # NoWrite => Item(rank, c) \in scan.items

\* The answer has every key that should be in it up to current_key.
AnswerSoFar ==
    /\ scan.from \in Ranks
    /\ Len(scan.pairs) <= scan.limit
    /\ \A n \in DOMAIN scan.pairs : Wanted(scan.pairs[n])
    /\ \A rank \in scan.from..Len(ScanOrder) :
          Found(rank) # {} =>
              \/ \E n \in DOMAIN scan.pairs : scan.pairs[n].key = rank
              \/ scan.current_key < rank
              \/ scan.pc = "lock" /\ scan.current_key = rank

\* What is known at each place of the scan.
AnswerGoesOn ==
    /\ scan.pc # "done" => Len(scan.pairs) < scan.limit
    /\ scan.pc = "lock" =>
          /\ scan.from <= scan.current_key
          /\ \E c \in Found(scan.current_key) :
                scan.value = write[ScanOrder[scan.current_key]][c].start_ts
    /\ scan.pc = "done" =>
          \/ Len(scan.pairs) = scan.limit
          \/ \A rank \in scan.from..Len(ScanOrder) : scan.current_key < rank => Found(rank) = {}

ScanView ==
    scan.pc # "idle" /\ scan.quiet => AllAhead /\ AnswerSoFar /\ AnswerGoesOn

\* What kv_get finds is a Put that the reader may see.
LEMMA FoundFacts ==
    ASSUME IInv, NEW rank \in Ranks
    PROVE  \A c \in Found(rank) :
               /\ c \in Timestamps /\ write[ScanOrder[rank]][c] # NoWrite /\ c <= scan.version
               /\ write[ScanOrder[rank]][c].kind = "Put"
<1>1. DOMAIN write[ScanOrder[rank]] = Timestamps
  BY RankFacts, Zenon DEF IInv, TypeOK
<1> QED
  BY <1>1, Zenon DEF Found, most_recent_write, Visible

\* A record with no newer one that the reader may see is the one kv_get finds.
LEMMA NewestIsFound ==
    ASSUME IInv, NEW rank \in Ranks, NEW c \in Timestamps, c <= scan.version,
           write[ScanOrder[rank]][c] # NoWrite,
           \A d \in Timestamps : write[ScanOrder[rank]][d] # NoWrite /\ d <= scan.version => d <= c
    PROVE  Found(rank) = IF write[ScanOrder[rank]][c].kind = "Put" THEN {c} ELSE {}
<1> DEFINE records == write[ScanOrder[rank]]
<1>1. DOMAIN records = Timestamps
  BY RankFacts, Zenon DEF IInv, TypeOK
<1>2. Timestamps \subseteq Nat
  BY TimestampsAssumption
<1>3. c \in Visible(records, scan.version) /\ \A d \in Visible(records, scan.version) : d <= c
  BY <1>1, Zenon DEF Visible
<1>4. \A d \in Visible(records, scan.version) : d \in Nat
  BY <1>1, <1>2, Zenon DEF Visible
<1>5. most_recent_write(records, scan.version) = {c}
  BY <1>3, <1>4 DEF most_recent_write
<1> HIDE DEF records
<1>6. {d \in {c} : records[d].kind = "Put"} = IF records[c].kind = "Put" THEN {c} ELSE {}
  OBVIOUS
<1> QED
  BY <1>5, <1>6, Zenon DEF Found, records

\* What is found depends on the store, the version and the start key alone.
LEMMA FoundFrame ==
    ASSUME UNCHANGED <<write, lock>>, scan'.version = scan.version, scan'.from = scan.from
    PROVE  /\ \A rank : Found(rank)' = Found(rank)
           /\ \A rank : ScanLocked(ScanOrder[rank])' <=> ScanLocked(ScanOrder[rank])
           /\ \A p : Wanted(p) => Wanted(p)'
           /\ \A rank, c : Item(rank, c)' = Item(rank, c)
<1>1. \A rank : Found(rank)' = Found(rank)
  BY Zenon DEF Found
<1>2. \A k : ScanLocked(k)' <=> ScanLocked(k)
  BY Zenon DEF ScanLocked
<1>3. \A rank, value, held : Pair(rank, value, held)' = Pair(rank, value, held)
  BY Zenon DEF Pair
<1>4. \A rank, c : Item(rank, c)' = Item(rank, c)
  BY Zenon DEF Item
<1>5. ASSUME NEW p, Wanted(p) PROVE Wanted(p)'
  <2>1. PICK c \in Found(p.key) :
            p = Pair(p.key, write[ScanOrder[p.key]][c].start_ts, ScanLocked(ScanOrder[p.key]))
    BY <1>5, Zenon DEF Wanted
  <2>2. ScanLocked(ScanOrder[p.key])' = ScanLocked(ScanOrder[p.key])
    BY DEF ScanLocked
  <2> QED
    BY <1>1, <1>5, <2>1, <2>2, Zenon DEF Wanted
<1> QED
  BY <1>1, <1>2, <1>4, <1>5, Zenon

\* A handler's step leaves the view alone, or the store is no longer quiet.
LEMMA ViewBeside ==
    ASSUME ScanTyped, ScanView, WatchScan \/ UNCHANGED <<vars, scan>>
    PROVE  ScanView'
<1>1. CASE scan' = [scan EXCEPT !.quiet = FALSE]
  <2>1. ~scan'.quiet
    BY <1>1 DEF ScanTyped
  <2> QED
    BY <2>1, Zenon DEF ScanView
<1>2. CASE scan' = scan /\ scan.pc = "idle"
  BY <1>2, Zenon DEF ScanView
<1>3. CASE scan' = scan /\ UNCHANGED store
  <2> SUFFICES ASSUME scan.pc # "idle", scan.quiet PROVE (AllAhead /\ AnswerSoFar /\ AnswerGoesOn)'
    BY <1>3, Zenon DEF ScanView
  <2>1. AllAhead /\ AnswerSoFar /\ AnswerGoesOn
    BY Zenon DEF ScanView
  <2>2. UNCHANGED <<write, lock>>
    BY <1>3, Zenon DEF store
  <2>3. /\ \A rank : Found(rank)' = Found(rank)
        /\ \A p : Wanted(p) => Wanted(p)'
        /\ \A rank, c : Item(rank, c)' = Item(rank, c)
    BY <1>3, <2>2, FoundFrame, Zenon
  <2>4. AllAhead'
    BY <1>3, <2>1, <2>2, <2>3, Zenon DEF AllAhead
  <2>5. AnswerSoFar'
    BY <1>3, <2>1, <2>3, Zenon DEF AnswerSoFar
  <2>6. AnswerGoesOn'
    BY <1>3, <2>1, <2>2, <2>3, Zenon DEF AnswerGoesOn
  <2> QED
    BY <2>4, <2>5, <2>6, Zenon
<1> QED
  BY <1>1, <1>2, <1>3, Zenon DEF WatchScan, vars, store

\* Scanner::new has all the records before it.
LEMMA ViewBegins ==
    ASSUME IInv, NEW version \in ReadTs, ScanBegin(version)
    PROVE  ScanView'
<1>1. PICK first \in Ranks, limit \in ScanLimits : scan' = ScannerNew(first, version, limit)
  BY Zenon DEF ScanBegin, Ranks
<1>2. /\ scan'.pairs = << >> /\ scan'.items = WriteItems(first) /\ scan'.current_key = 0
      /\ scan'.from = first /\ scan'.limit = limit
      /\ scan'.pc = IF limit = 0 THEN "done" ELSE "next"
  BY <1>1 DEF ScannerNew
<1>3. limit \in Nat /\ Len(scan'.pairs) = 0 /\ DOMAIN scan'.pairs = {}
  BY <1>2, ScanAssumption
<1>4. write' = write
  BY Zenon DEF ScanBegin, vars
<1>5. \A rank, c : Item(rank, c)' = Item(rank, c)
  BY <1>4, Zenon DEF Item
<1>6. AllAhead'
  <2>1. ASSUME NEW i \in WriteItems(first)
        PROVE  i = Item(i.key, i.commit_ts) /\ i.record # NoWrite /\ first <= i.key
    <3>1. PICK rank \in first..Len(ScanOrder), ts \in Timestamps :
              i = [key |-> rank, commit_ts |-> ts, record |-> write[ScanOrder[rank]][ts]]
      BY DEF WriteItems
    <3>2. i.record # NoWrite
      BY DEF WriteItems
    <3>3. first <= rank
      BY RankFacts
    <3> QED
      BY <3>1, <3>2, <3>3 DEF Item
  <2>2. ASSUME NEW rank \in first..Len(ScanOrder), NEW c \in Timestamps,
               write[ScanOrder[rank]][c] # NoWrite
        PROVE  Item(rank, c) \in WriteItems(first)
    BY <2>2 DEF WriteItems, Item
  <2> QED
    BY <1>2, <1>4, <1>5, <2>1, <2>2, Zenon DEF AllAhead
<1>7. AnswerSoFar'
  <2>1. \A rank \in first..Len(ScanOrder) : 0 < rank
    BY RankFacts
  <2>2. Len(scan'.pairs) <= limit
    BY <1>3
  <2> QED
    BY <1>2, <1>3, <2>1, <2>2, Zenon DEF AnswerSoFar
<1>8. AnswerGoesOn'
  <2>1. scan'.pc # "lock"
    BY <1>2
  <2>2. scan'.pc = "done" => Len(scan'.pairs) = scan'.limit
    BY <1>2, <1>3
  <2>3. scan'.pc # "done" => Len(scan'.pairs) < scan'.limit
    BY <1>2, <1>3
  <2> QED
    BY <2>1, <2>2, <2>3, Zenon DEF AnswerGoesOn
<1> QED
  BY <1>6, <1>7, <1>8, Zenon DEF ScanView

\* The first record that is not passed is the newest the reader may see of its
\* key, and no key before it has one.
LEMMA FirstIsNewest ==
    ASSUME IInv, ScanInv, AllAhead, NEW i, Reached(i),
           \A j \in scan.items : Before(j, i) => Passed(j)
    PROVE  /\ scan.from <= i.key
           /\ Found(i.key) = IF i.record.kind = "Put" THEN {i.commit_ts} ELSE {}
           /\ \A rank \in scan.from..Len(ScanOrder) :
                 scan.current_key < rank /\ rank < i.key => Found(rank) = {}
<1>1. /\ i \in scan.items /\ i.key \in Ranks /\ i.commit_ts \in Timestamps
      /\ scan.current_key < i.key /\ i.commit_ts <= scan.version
  BY Zenon DEF Reached
<1>2. /\ i = Item(i.key, i.commit_ts) /\ i.record # NoWrite /\ scan.from <= i.key
      /\ write[ScanOrder[i.key]][i.commit_ts] = i.record
  <2>1. i = Item(i.key, i.commit_ts) /\ i.record # NoWrite /\ scan.from <= i.key
    BY <1>1, Zenon DEF AllAhead
  <2>2. Item(i.key, i.commit_ts).record = write[ScanOrder[i.key]][i.commit_ts]
    BY DEF Item
  <2> QED
    BY <2>1, <2>2, Zenon
<1>3. /\ scan.current_key \in Nat /\ scan.from \in Nat /\ scan.version \in Nat
      /\ i.key \in Nat /\ Len(ScanOrder) \in Nat /\ Timestamps \subseteq Nat
  <2>1. scan.current_key \in Ranks \cup {0} /\ scan.from \in Ranks \cup {0} /\ scan.version \in Nat
    BY DEF ScanInv, ScanTyped
  <2>2. \A r \in Ranks \cup {0} : r \in Nat
    BY RankFacts
  <2> QED
    BY <1>1, <2>1, <2>2, RankFacts, TimestampsAssumption, Zenon
<1>4. ASSUME NEW rank \in scan.from..Len(ScanOrder), NEW c \in Timestamps,
             write[ScanOrder[rank]][c] # NoWrite, c <= scan.version, scan.current_key < rank
      PROVE  ~(rank < i.key) /\ (rank = i.key => c <= i.commit_ts)
  <2>1. Item(rank, c) \in scan.items
    BY <1>4, Zenon DEF AllAhead
  <2>2. Item(rank, c).key = rank /\ Item(rank, c).commit_ts = c
    BY DEF Item
  <2>3. rank \in Nat /\ c \in Nat /\ i.commit_ts \in Nat
    <3>1. rank \in Nat
      BY <1>3
    <3> QED
      BY <1>1, <1>3, <3>1, Zenon
  <2>4. ~Passed(Item(rank, c))
    BY <1>3, <1>4, <2>2, <2>3 DEF Passed
  <2>5. ~Before(Item(rank, c), i)
    BY <2>1, <2>4, Zenon
  <2> QED
    BY <1>3, <2>2, <2>3, <2>5 DEF Before
<1>5. Found(i.key) = IF i.record.kind = "Put" THEN {i.commit_ts} ELSE {}
  <2>1. i.key \in scan.from..Len(ScanOrder)
    BY <1>1, <1>2, <1>3 DEF Ranks
  <2>2. \A d \in Timestamps :
            write[ScanOrder[i.key]][d] # NoWrite /\ d <= scan.version => d <= i.commit_ts
    BY <1>1, <1>4, <2>1, Zenon
  <2> QED
    BY <1>1, <1>2, <2>2, NewestIsFound, Zenon
<1>6. ASSUME NEW rank \in scan.from..Len(ScanOrder), scan.current_key < rank, rank < i.key
      PROVE  Found(rank) = {}
  <2>1. rank \in Ranks
    BY <1>3, <1>6 DEF Ranks
  <2> QED
    BY <1>4, <1>6, <2>1, FoundFacts, Zenon
<1> QED
  BY <1>2, <1>5, <1>6, Zenon

\* The iterator has come to its end: no key after current_key has a value.
LEMMA ViewEnds ==
    ASSUME IInv, ScanInv, ScanView, scan.pc = "next", UNCHANGED <<write, lock>>,
           \A i \in scan.items : Passed(i), scan' = [scan EXCEPT !.pc = "done"], scan'.quiet
    PROVE  (AllAhead /\ AnswerSoFar /\ AnswerGoesOn)'
<1>1. /\ scan'.pc = "done" /\ scan'.version = scan.version /\ scan'.items = scan.items
      /\ scan'.current_key = scan.current_key /\ scan'.pairs = scan.pairs
      /\ scan'.from = scan.from /\ scan'.limit = scan.limit /\ scan'.quiet = scan.quiet
  BY DEF ScanInv, ScanTyped
<1>2. scan.pc # "idle" /\ scan.pc # "lock" /\ scan'.pc # "lock"
  BY <1>1
<1>3. AllAhead /\ AnswerSoFar /\ AnswerGoesOn
  BY <1>1, <1>2, Zenon DEF ScanView
<1>4. /\ \A rank : Found(rank)' = Found(rank)
      /\ \A p : Wanted(p) => Wanted(p)'
      /\ \A rank, c : Item(rank, c)' = Item(rank, c)
  BY <1>1, FoundFrame, Zenon
<1>5. AllAhead'
  BY <1>1, <1>3, <1>4, Zenon DEF AllAhead
<1>6. AnswerSoFar'
  BY <1>1, <1>2, <1>3, <1>4, Zenon DEF AnswerSoFar
<1>7. ASSUME NEW rank \in scan.from..Len(ScanOrder), scan.current_key < rank
      PROVE  Found(rank) = {}
  <2>1. rank \in Ranks /\ rank \in Nat /\ scan.current_key \in Nat
    <3>1. scan.from \in Ranks /\ scan.current_key \in Ranks \cup {0}
      BY <1>3 DEF AnswerSoFar, ScanInv, ScanTyped
    <3> QED
      BY <3>1, RankFacts DEF Ranks
  <2>2. ASSUME NEW c \in Found(rank) PROVE FALSE
    <3>1. c \in Timestamps /\ write[ScanOrder[rank]][c] # NoWrite /\ c <= scan.version
      BY <2>1, <2>2, FoundFacts, Zenon
    <3>2. Item(rank, c) \in scan.items
      BY <1>3, <1>7, <3>1, Zenon DEF AllAhead
    <3>3. Item(rank, c).key = rank /\ Item(rank, c).commit_ts = c
      BY DEF Item
    <3>4. rank = scan.current_key \/ c > scan.version
      BY <3>2, <3>3, Zenon DEF Passed
    <3>5. c \in Nat /\ scan.version \in Nat
      BY <3>1, TimestampsAssumption DEF ScanInv, ScanTyped
    <3> QED
      BY <1>7, <2>1, <3>1, <3>4, <3>5
  <2> QED
    BY <2>2, Zenon
<1>8. AnswerGoesOn'
  BY <1>1, <1>2, <1>4, <1>7, Zenon DEF AnswerGoesOn
<1> QED
  BY <1>5, <1>6, <1>8, Zenon

\* What OnRecord leaves ahead, and what it adds to the answer.
LEMMA ViewMoves ==
    ASSUME IInv, ScanInv, AllAhead, AnswerSoFar, scan.pc = "next", UNCHANGED <<write, lock>>,
           NEW i, Reached(i), \A j \in scan.items : Before(j, i) => Passed(j),
           Past(i) \subseteq scan'.items, scan'.items \subseteq scan.items,
           scan'.version = scan.version, scan'.from = scan.from, scan'.limit = scan.limit,
           scan'.pairs = scan.pairs, scan'.current_key = i.key,
           i.record.kind = "Put" => scan'.pc = "lock"
    PROVE  AllAhead' /\ AnswerSoFar'
<1>1. /\ \A rank : Found(rank)' = Found(rank)
      /\ \A p : Wanted(p) => Wanted(p)'
      /\ \A rank, c : Item(rank, c)' = Item(rank, c)
  BY FoundFrame, Zenon
<1>2. /\ i.key \in Nat /\ scan.current_key \in Nat /\ scan.current_key < i.key
      /\ \A rank \in scan.from..Len(ScanOrder) : rank \in Nat
  <2>1. scan.current_key \in Ranks \cup {0} /\ scan.from \in Ranks /\ i.key \in Ranks
    BY DEF ScanInv, ScanTyped, AnswerSoFar, Reached
  <2>2. scan.current_key < i.key
    BY Zenon DEF Reached
  <2> QED
    BY <2>1, <2>2, RankFacts
<1>3. ASSUME NEW rank \in scan.from..Len(ScanOrder), NEW c \in Timestamps,
             i.key < rank, write[ScanOrder[rank]][c] # NoWrite
      PROVE  Item(rank, c) \in scan'.items
  <2>1. scan.current_key < rank
    BY <1>2, <1>3
  <2>2. Item(rank, c) \in scan.items
    BY <1>3, <2>1, Zenon DEF AllAhead
  <2>3. Item(rank, c).key = rank
    BY DEF Item
  <2> QED
    BY <1>3, <2>2, <2>3, Zenon DEF Past, Before
<1>4. AllAhead'
  BY <1>1, <1>3, Zenon DEF AllAhead
<1>5. ASSUME NEW rank \in scan.from..Len(ScanOrder), Found(rank) # {}
      PROVE  \/ \E n \in DOMAIN scan.pairs : scan.pairs[n].key = rank
             \/ i.key < rank
             \/ scan'.pc = "lock" /\ i.key = rank
  <2>1. scan.current_key < rank /\ rank < i.key => Found(rank) = {}
    BY FirstIsNewest, Zenon
  <2>2. rank = i.key => scan'.pc = "lock"
    BY <1>5, FirstIsNewest, Zenon
  <2>3. scan.pc # "lock"
    OBVIOUS
  <2>4. (\E n \in DOMAIN scan.pairs : scan.pairs[n].key = rank) \/ scan.current_key < rank
    BY <1>5, <2>3, Zenon DEF AnswerSoFar
  <2>5. rank < i.key \/ rank = i.key \/ i.key < rank
    BY <1>2
  <2> QED
    BY <1>5, <2>1, <2>2, <2>4, <2>5, Zenon
<1>6. AnswerSoFar'
  BY <1>1, <1>5, Zenon DEF AnswerSoFar
<1> QED
  BY <1>4, <1>6, Zenon

\* Scanner::next on a record it does not pass: a Put has its value and is
\* returned, another record hides its key.
LEMMA ViewOnRecord ==
    ASSUME IInv, ScanInv, ScanView, ValuesStand, scan.pc = "next", UNCHANGED <<write, lock>>,
           NEW i, Reached(i), \A j \in scan.items : Before(j, i) => Passed(j),
           scan' = OnRecord(i), scan'.quiet
    PROVE  (AllAhead /\ AnswerSoFar /\ AnswerGoesOn)'
<1>1. i.record.kind = "Put" => i.record.start_ts \in data[ScanOrder[i.key]]
  BY RankFacts, Zenon DEF ScanInv, ItemsStand, ValuesStand, Reached
<1>2. scan.pc # "idle" /\ scan.pc # "done"
  OBVIOUS
<1>3. CASE i.record.kind # "Put"
  <2>1. scan' = [scan EXCEPT !.items = Past(i), !.current_key = i.key]
    BY <1>3, Zenon DEF OnRecord
  <2>2. /\ scan'.pc = "next" /\ scan'.version = scan.version /\ scan'.items = Past(i)
        /\ scan'.current_key = i.key /\ scan'.pairs = scan.pairs
        /\ scan'.from = scan.from /\ scan'.limit = scan.limit /\ scan'.quiet = scan.quiet
    BY <2>1, Zenon DEF ScanInv, ScanTyped
  <2>3. AllAhead /\ AnswerSoFar /\ AnswerGoesOn
    BY <1>2, <2>2, Zenon DEF ScanView
  <2>4. Past(i) \subseteq scan'.items /\ scan'.items \subseteq scan.items
    BY <2>2, Zenon DEF Past
  <2>5. AllAhead' /\ AnswerSoFar'
    BY <1>3, <2>2, <2>3, <2>4, ViewMoves, Zenon
  <2>6. scan'.pc # "lock" /\ scan'.pc # "done"
    BY <2>2
  <2>7. AnswerGoesOn'
    BY <1>2, <2>2, <2>3, <2>6, Zenon DEF AnswerGoesOn
  <2> QED
    BY <2>5, <2>7, Zenon
<1>4. CASE i.record.kind = "Put"
  <2>1. scan' = [scan EXCEPT !.pc = "lock", !.items = Past(i) \union {i}, !.current_key = i.key,
                             !.value = i.record.start_ts]
    BY <1>1, <1>4, Zenon DEF OnRecord
  <2>2. /\ scan'.pc = "lock" /\ scan'.version = scan.version /\ scan'.items = Past(i) \union {i}
        /\ scan'.current_key = i.key /\ scan'.pairs = scan.pairs /\ scan'.value = i.record.start_ts
        /\ scan'.from = scan.from /\ scan'.limit = scan.limit /\ scan'.quiet = scan.quiet
    BY <2>1, Zenon DEF ScanInv, ScanTyped
  <2>3. AllAhead /\ AnswerSoFar /\ AnswerGoesOn
    BY <1>2, <2>2, Zenon DEF ScanView
  <2>4. Past(i) \subseteq scan'.items /\ scan'.items \subseteq scan.items
    BY <2>2, Zenon DEF Past, Reached
  <2>5. AllAhead' /\ AnswerSoFar'
    BY <2>2, <2>3, <2>4, ViewMoves, Zenon
  <2>6. scan.from <= i.key /\ i.commit_ts \in Found(i.key)
    BY <1>4, <2>3, FirstIsNewest, Zenon
  <2>7. write[ScanOrder[i.key]][i.commit_ts] = i.record
    BY <1>4, Zenon DEF ScanInv, ItemsStand, Reached
  <2>8. Found(i.key)' = Found(i.key)
    BY <2>2, FoundFrame, Zenon
  <2>9. scan'.pc # "done"
    BY <2>2
  <2>10. \E c \in Found(scan.current_key)' :
             scan'.value = write'[ScanOrder[scan'.current_key]][c].start_ts
    <3>1. Found(scan.current_key)' = Found(i.key)
      BY <2>2, <2>8 DEF Found
    <3>2. scan'.value = write'[ScanOrder[scan'.current_key]][i.commit_ts].start_ts
      BY <2>2, <2>7
    <3> HIDE DEF Found
    <3> QED
      BY <2>6, <3>1, <3>2, Zenon
  <2>11. AnswerGoesOn'
    BY <1>2, <2>2, <2>3, <2>6, <2>9, <2>10, Zenon DEF AnswerGoesOn
  <2> QED
    BY <2>5, <2>11, Zenon
<1> QED
  BY <1>3, <1>4, Zenon

\* Scanner::next in the view of a reader.
LEMMA ViewNext ==
    ASSUME IInv, ScanInv, ScanView, ValuesStand, ScannerNext
    PROVE  ScanView'
<1> SUFFICES ASSUME scan'.quiet PROVE (AllAhead /\ AnswerSoFar /\ AnswerGoesOn)'
  BY Zenon DEF ScanView
<1>1. scan.pc = "next" /\ UNCHANGED <<write, lock>>
  BY Zenon DEF ScannerNext, vars
<1>2. CASE /\ \A i \in scan.items : Passed(i)
           /\ scan' = [scan EXCEPT !.pc = "done"]
  BY <1>1, <1>2, ViewEnds, Zenon
<1>3. ASSUME NEW i \in scan.items, ~Passed(i), \A j \in scan.items : Before(j, i) => Passed(j),
             scan' = OnRecord(i)
      PROVE  (AllAhead /\ AnswerSoFar /\ AnswerGoesOn)'
  BY <1>1, <1>3, ReachedFacts, ViewOnRecord, Zenon
<1> QED
  BY <1>2, <1>3, Zenon DEF ScannerNext

\* kv_scan adds the pair kv_get would answer with.
LEMMA ViewChecksLock ==
    ASSUME IInv, ScanInv, ScanView, ScanCheckLock
    PROVE  ScanView'
<1> DEFINE key == scan.current_key
           new == Pair(key, scan.value, ScanLocked(ScanOrder[key]))
           old == scan.pairs
           pairs == Append(old, new)
           place == IF Len(pairs) = scan.limit THEN "done" ELSE "next"
<1> SUFFICES ASSUME scan'.quiet PROVE (AllAhead /\ AnswerSoFar /\ AnswerGoesOn)'
  BY Zenon DEF ScanView
<1>1. scan.pc = "lock" /\ UNCHANGED <<write, lock>> /\ scan' = [scan EXCEPT !.pc = place, !.pairs = pairs]
  BY Zenon DEF ScanCheckLock, vars
<1>2. new.key = key
  BY DEF Pair
<1>3. old \in Seq(Pairs) /\ key \in Ranks
  BY <1>1, PairFacts, Zenon DEF ScanInv, PairFound
<1> HIDE DEF new
<1>4. /\ Len(old) \in Nat /\ Len(pairs) = Len(old) + 1 /\ DOMAIN old = 1..Len(old)
      /\ DOMAIN pairs = 1..(Len(old) + 1)
      /\ \A n \in 1..Len(old) : pairs[n] = old[n]
      /\ pairs[Len(old) + 1] = new
  BY <1>3
<1> HIDE DEF pairs, place
<1>5. /\ scan'.pc = place /\ scan'.version = scan.version /\ scan'.items = scan.items
      /\ scan'.current_key = key /\ scan'.pairs = pairs
      /\ scan'.from = scan.from /\ scan'.limit = scan.limit /\ scan'.quiet = scan.quiet
      /\ scan.limit \in Nat
  BY <1>1, Zenon DEF ScanInv, ScanTyped
<1>6. AllAhead /\ AnswerSoFar /\ AnswerGoesOn
  <2>1. scan.pc # "idle"
    BY <1>1
  <2> QED
    BY <1>5, <2>1, Zenon DEF ScanView
<1>7. /\ \A rank : Found(rank)' = Found(rank)
      /\ \A p : Wanted(p) => Wanted(p)'
      /\ \A rank, c : Item(rank, c)' = Item(rank, c)
  BY <1>1, <1>5, FoundFrame, Zenon
<1>8. AllAhead'
  BY <1>1, <1>5, <1>6, <1>7, Zenon DEF AllAhead
<1>9. Len(pairs) <= scan.limit /\ (place # "done" => Len(pairs) < scan.limit) /\ place # "lock"
      /\ (place = "done" => Len(pairs) = scan.limit)
  <2>1. Len(old) < scan.limit
    <3>1. scan.pc # "done"
      BY <1>1
    <3> QED
      BY <1>6, <3>1, Zenon DEF AnswerGoesOn
  <2> QED
    BY <1>4, <1>5, <2>1 DEF place
<1>10. AnswerGoesOn'
  BY <1>5, <1>9, Zenon DEF AnswerGoesOn
<1>11. Wanted(new)
  <2>1. PICK c \in Found(key) : scan.value = write[ScanOrder[key]][c].start_ts
    BY <1>1, <1>6, Zenon DEF AnswerGoesOn
  <2>2. key >= scan.from
    <3>1. scan.from <= key
      BY <1>1, <1>6, Zenon DEF AnswerGoesOn
    <3>2. key \in Nat /\ scan.from \in Nat
      BY <1>3, <1>6, RankFacts, Zenon DEF AnswerSoFar
    <3> QED
      BY <3>1, <3>2
  <2>3. new = Pair(key, write[ScanOrder[key]][c].start_ts, ScanLocked(ScanOrder[key]))
    BY <2>1, Zenon DEF new
  <2> QED
    BY <1>2, <2>2, <2>3, Zenon DEF Wanted
<1>12. \A n \in DOMAIN pairs : Wanted(pairs[n])
  <2>1. \A n \in DOMAIN pairs : n \in DOMAIN old \/ n = Len(old) + 1
    BY <1>4
  <2> QED
    BY <1>4, <1>6, <1>11, <2>1, Zenon DEF AnswerSoFar
<1>13. ASSUME NEW rank \in scan.from..Len(ScanOrder), Found(rank) # {}
       PROVE  (\E n \in DOMAIN pairs : pairs[n].key = rank) \/ key < rank
  <2>1. Len(old) + 1 \in DOMAIN pairs /\ \A n \in DOMAIN old : n \in DOMAIN pairs /\ pairs[n] = old[n]
    BY <1>4
  <2>2. \/ \E n \in DOMAIN old : old[n].key = rank
        \/ key < rank
        \/ key = rank
    BY <1>6, <1>13, Zenon DEF AnswerSoFar
  <2> QED
    BY <1>2, <1>4, <2>1, <2>2, Zenon
<1>14. AnswerSoFar'
  <2>1. \A n \in DOMAIN scan'.pairs : Wanted(scan'.pairs[n])
    BY <1>5, <1>12, Zenon
  <2> QED
    BY <1>5, <1>6, <1>7, <1>9, <1>13, <2>1, Zenon DEF AnswerSoFar
<1> QED
  BY <1>8, <1>10, <1>14, Zenon

\* What a scan beside the handlers sees, as long as every Put has its value.
LEMMA ViewStep ==
    ASSUME IInv, ScanInv, ScanView, ValuesStand, ScanStep \/ ScanReply
    PROVE  ScanView'
<1>1. ASSUME ScanReply PROVE ScanView'
  <2>1. scan'.pc = "idle"
    BY <1>1 DEF ScanReply, NoScan
  <2> QED
    BY <2>1, Zenon DEF ScanView
<1> QED
  BY <1>1, ViewNext, ViewChecksLock, Zenon DEF ScanStep

\* The view of a finished scan is what kv_get finds.
LEMMA ViewAgrees ==
    ASSUME ScanInv, ScanView
    PROVE  ScanAgreesWithGet
<1> SUFFICES ASSUME scan.pc = "done", scan.quiet PROVE ScanAgreesWithGet
  BY Zenon DEF ScanAgreesWithGet
<1>1. AnswerSoFar /\ AnswerGoesOn
  <2>1. scan.pc # "idle"
    OBVIOUS
  <2> QED
    BY <2>1, Zenon DEF ScanView
<1>2. \A n \in DOMAIN scan.pairs : \A m \in 1..(n - 1) : scan.pairs[m].key < scan.pairs[n].key
  BY Zenon DEF ScanInv, ScanReadsCommitted
<1>3. ASSUME NEW rank \in scan.from..Len(ScanOrder), Found(rank) # {},
             ~\E n \in DOMAIN scan.pairs : scan.pairs[n].key = rank
      PROVE  /\ Len(scan.pairs) = scan.limit
             /\ \A n \in DOMAIN scan.pairs : scan.pairs[n].key < rank
  <2>1. scan.pc # "lock"
    OBVIOUS
  <2>2. scan.current_key < rank
    BY <1>1, <1>3, <2>1, Zenon DEF AnswerSoFar
  <2>3. Len(scan.pairs) = scan.limit
    BY <1>1, <1>3, <2>2, Zenon DEF AnswerGoesOn
  <2>4. \A n \in DOMAIN scan.pairs : scan.pairs[n].key <= scan.current_key /\ scan.pairs[n].key \in Nat
    BY PairFacts, RankFacts, Zenon DEF ScanInv, PairsBehind
  <2>5. scan.current_key \in Nat /\ rank \in Nat
    <3>1. scan.current_key \in Ranks \cup {0} /\ scan.from \in Ranks
      BY <1>1 DEF ScanInv, ScanTyped, AnswerSoFar
    <3> QED
      BY <3>1, RankFacts
  <2> QED
    BY <2>2, <2>3, <2>4, <2>5
<1> QED
  BY <1>1, <1>2, <1>3, Zenon DEF ScanAgreesWithGet, AnswerSoFar
=============================================================================
