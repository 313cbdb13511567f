-------------------------- MODULE TxnClientsProofs --------------------------
(***************************************************************************)
(* Two-phase commit over the handlers: atomicity, outcomes and snapshots   *)
(* for any number of keys, transactions, coordinators and readers, as long *)
(* as nobody resolves locks.                                               *)
(*                                                                         *)
(* A coordinator has one request under way at a time, so what the store    *)
(* holds of its transaction is one of four: nothing, all locks, the commit *)
(* of the primary, all commits.  TxnOK says which of them goes with each   *)
(* place of the coordinator and of the task that serves it.  A client that *)
(* has gone leaves any of the four; its last request is still served.      *)
(*                                                                         *)
(* A read is a snapshot because a transaction that may commit at or below  *)
(* the version of the read has all its locks by then (Closed): it cannot   *)
(* commit a key the reader has found unlocked.                             *)
(*                                                                         *)
(* A scan of a store at rest agrees with kv_get because every committed    *)
(* Put has its value (ValuesKept), so the scanner passes none over.        *)
(***************************************************************************)
EXTENDS TxnClients, TransactionApiProofs

Nothing(s) == \A k \in DOMAIN Mutation[s] : ~OwnLock(k, s) /\ ~Committed(k, s)

AllLocked(s) == \A k \in DOMAIN Mutation[s] : OwnLock(k, s) /\ ~Committed(k, s)

PrimaryCommitted(s) ==
    /\ Committed(Primary[s], s)
    /\ \A k \in Secondaries(s) : OwnLock(k, s) /\ ~Committed(k, s)

AllCommitted(s) == \A k \in DOMAIN Mutation[s] : Committed(k, s)

Whole(s) == Nothing(s) \/ AllLocked(s) \/ PrimaryCommitted(s) \/ AllCommitted(s)

\* Between two requests of the coordinator.
Resting(s) ==
    \/ coord[s] \in {"begin", "abort", "aborted", "refused"} /\ Nothing(s)
    \/ coord[s] \in {"prewritten", "commit"} /\ AllLocked(s)
    \/ coord[s] = "commitRest" /\ PrimaryCommitted(s) /\ Secondaries(s) # {}
    \/ coord[s] = "committed" /\ AllCommitted(s)
    \/ coord[s] = "gone" /\ Whole(s)

\* While its request is served by p.
Prewriting(s, p) ==
    /\ req[p] = Request("Prewrite", s, DOMAIN Mutation[s], 0, 0)
    /\ coord[s] \in {"prewriting", "gone"}
    /\ IF pc[p] = "done" /\ resp[p].kind = "Ok" THEN AllLocked(s) ELSE Nothing(s)

CommittingPrimary(s, p) ==
    /\ req[p] = Request("Commit", s, {Primary[s]}, CommitTs[s], 0)
    /\ coord[s] \in {"committing", "gone"}
    /\ IF pc[p] = "done" THEN PrimaryCommitted(s) /\ resp[p].kind = "Ok" ELSE AllLocked(s)

CommittingRest(s, p) ==
    /\ req[p] = Request("Commit", s, Secondaries(s), CommitTs[s], 0)
    /\ coord[s] \in {"committingRest", "gone"}
    /\ IF pc[p] = "done" THEN AllCommitted(s) /\ resp[p].kind = "Ok" ELSE PrimaryCommitted(s)

RollingBack(s, p) ==
    /\ req[p] = Request("BatchRollback", s, DOMAIN Mutation[s], 0, 0)
    /\ coord[s] \in {"aborting", "gone"}
    /\ Nothing(s) \/ (pc[p] # "done" /\ AllLocked(s))

\* A decision that is not yet written changes every key it is about, in the
\* way its request says.
Decided(s, p) ==
    /\ resp[p].kind = "Ok"
    /\ DOMAIN buf[p] = keys[p]
    /\ \A k \in keys[p] :
          /\ req[p].op = "Commit" => buf[p][k].at = CommitTs[s]
          /\ req[p].op = "BatchRollback" => buf[p][k].at = s

Served(s, p) ==
    /\ pc[p] \in {"wait", "latched", "write", "done"}
    /\ Prewriting(s, p) \/ CommittingPrimary(s, p) \/ CommittingRest(s, p) \/ RollingBack(s, p)
    /\ pc[p] = "write" => Decided(s, p)

\* What is committed has its value.
ValuesKept(s) ==
    \A k \in DOMAIN Mutation[s] : Committed(k, s) /\ Mutation[s][k] = "Put" => s \in data[k]

TxnOK(s) ==
    /\ IF pc[Coordinator[s]] = "idle" THEN Resting(s) ELSE Served(s, Coordinator[s])
    /\ ValuesKept(s)

\* The other tasks only read.
OthersRead ==
    \A p \in Tasks :
        (\A s \in StartTs : Coordinator[s] # p)
            => pc[p] = "idle" \/ (p \in Readers /\ req[p].op = "Get")

\* A commit request of s is under way or will be sent.
MayCommit(s) ==
    \/ coord[s] \in {"commit", "commitRest"}
    \/ pc[Coordinator[s]] # "idle" /\ req[Coordinator[s]].op = "Commit"

\* No transaction is going to commit k at or below version.
Closed(k, version) ==
    \A t \in StartTs : CommitTs[t] <= version /\ OwnLock(k, t) => ~MayCommit(t)

Latest(k, version, s) ==
    \A t \in StartTs : CommitTs[t] <= version /\ Committed(k, t) => CommitTs[t] <= CommitTs[s]

HasVersion(p) == pc[p] = "get4" \/ resp[p].kind = "Value"

ReaderOK(p) ==
    pc[p] # "idle" /\ req[p].op = "Get" =>
        /\ req[p].start <= clock
        /\ pc[p] = "get3" \/ HasVersion(p) => Closed(GetKey(p), req[p].start)
        /\ HasVersion(p) => resp[p].ts \in StartTs /\ Latest(GetKey(p), req[p].start, resp[p].ts)

ClientTypes ==
    /\ clock \in Nat
    /\ DOMAIN coord = StartTs
    /\ resolving \in BOOLEAN

TwoPhase ==
    /\ IInv
    /\ \A s \in StartTs : TxnOK(s)
    /\ OthersRead
    /\ \A p \in Readers : ReaderOK(p)

ClientInv == ClientTypes /\ (~resolving => TwoPhase)
-----------------------------------------------------------------------------
(* What leaves a transaction or a reader alone. *)

SameKey(k, s) == (OwnLock(k, s)' <=> OwnLock(k, s)) /\ (Committed(k, s)' <=> Committed(k, s))

Same(s) ==
    /\ \A k \in Keys : SameKey(k, s)
    /\ \A k \in DOMAIN Mutation[s] : s \in data'[k] <=> s \in data[k]

SameTask(p) ==
    /\ pc'[p] = pc[p] /\ req'[p] = req[p] /\ keys'[p] = keys[p]
    /\ buf'[p] = buf[p] /\ resp'[p] = resp[p]

\* Commits become possible only above the clock, locks come from transactions
\* that cannot commit yet, and commits from locks of those that can.
Ordered(t) ==
    /\ MayCommit(t)' => MayCommit(t) \/ CommitTs[t] > clock
    /\ \A k \in Keys : OwnLock(k, t)' => OwnLock(k, t) \/ ~MayCommit(t)'
    /\ \A k \in Keys : Committed(k, t)' => Committed(k, t) \/ (OwnLock(k, t) /\ MayCommit(t))

\* The task of a coordinator is its own.
LEMMA CoordinatorFacts ==
    ASSUME NEW s \in StartTs
    PROVE  /\ Coordinator[s] \in Tasks
           /\ Coordinator[s] \notin Readers /\ Coordinator[s] \notin Resolvers
           /\ \A t \in StartTs : Coordinator[s] = Coordinator[t] => s = t
           /\ Primary[s] \in DOMAIN Mutation[s] /\ Secondaries(s) \subseteq DOMAIN Mutation[s]
           /\ DOMAIN Mutation[s] \subseteq Keys
BY ClientsAssumption, MutationAssumption, MutationFacts, Zenon DEF Secondaries

\* The four states of a transaction are about its own locks and records.
LEMMA StateFrame ==
    ASSUME NEW s \in StartTs, Same(s)
    PROVE  /\ Nothing(s)' <=> Nothing(s)
           /\ AllLocked(s)' <=> AllLocked(s)
           /\ PrimaryCommitted(s)' <=> PrimaryCommitted(s)
           /\ AllCommitted(s)' <=> AllCommitted(s)
           /\ ValuesKept(s) => ValuesKept(s)'
<1>1. /\ Primary[s] \in DOMAIN Mutation[s] /\ Secondaries(s) \subseteq DOMAIN Mutation[s]
      /\ DOMAIN Mutation[s] \subseteq Keys
  BY CoordinatorFacts, Zenon
<1>2. Nothing(s)' <=> Nothing(s)
  BY <1>1, Zenon DEF Same, SameKey, Nothing
<1>3. AllLocked(s)' <=> AllLocked(s)
  BY <1>1, Zenon DEF Same, SameKey, AllLocked
<1>4. PrimaryCommitted(s)' <=> PrimaryCommitted(s)
  BY <1>1, Zenon DEF Same, SameKey, PrimaryCommitted
<1>5. AllCommitted(s)' <=> AllCommitted(s)
  BY <1>1, Zenon DEF Same, SameKey, AllCommitted
<1>6. ValuesKept(s) => ValuesKept(s)'
  BY <1>1, Zenon DEF Same, SameKey, ValuesKept
<1> QED
  BY <1>2, <1>3, <1>4, <1>5, <1>6, Zenon

\* A transaction whose coordinator, task and keys are left alone stays as it is.
LEMMA TxnFrame ==
    ASSUME NEW s \in StartTs, TxnOK(s), Same(s), SameTask(Coordinator[s]), coord'[s] = coord[s]
    PROVE  TxnOK(s)'
<1> DEFINE p == Coordinator[s]
<1>1. /\ Nothing(s)' <=> Nothing(s)
      /\ AllLocked(s)' <=> AllLocked(s)
      /\ PrimaryCommitted(s)' <=> PrimaryCommitted(s)
      /\ AllCommitted(s)' <=> AllCommitted(s)
      /\ ValuesKept(s) => ValuesKept(s)'
  BY StateFrame, Zenon
<1>2. Resting(s) => Resting(s)'
  BY <1>1, Zenon DEF Resting, Whole
<1>3. Decided(s, p) => Decided(s, p)'
  BY Zenon DEF Decided, SameTask
<1>4. /\ Prewriting(s, p) => Prewriting(s, p)'
      /\ CommittingPrimary(s, p) => CommittingPrimary(s, p)'
      /\ CommittingRest(s, p) => CommittingRest(s, p)'
      /\ RollingBack(s, p) => RollingBack(s, p)'
  BY <1>1, Zenon DEF Prewriting, CommittingPrimary, CommittingRest, RollingBack, SameTask
<1>5. Served(s, p) => Served(s, p)'
  BY <1>3, <1>4, Zenon DEF Served, SameTask
<1> QED
  BY <1>1, <1>2, <1>5, Zenon DEF TxnOK, SameTask

\* A step that leaves the store alone leaves every transaction's part alone.
LEMMA StoreFrame ==
    ASSUME UNCHANGED store
    PROVE  \A s \in StartTs : Same(s)
BY Zenon DEF Same, SameKey, store, OwnLock, Committed

\* Such a step is in order if it allows no commit below the clock.
LEMMA SameOrdered ==
    ASSUME NEW s \in StartTs, Same(s), MayCommit(s)' => MayCommit(s) \/ CommitTs[s] > clock
    PROVE  Ordered(s)
BY Zenon DEF Same, SameKey, Ordered

\* storage.write for one transaction leaves the others alone.
LEMMA OtherWrite ==
    ASSUME IInv, NEW q \in Tasks, pc[q] = "write", ApplyWrites(buf[q], req[q].start),
           NEW s \in StartTs, req[q].start # s
    PROVE  Same(s)
<1> DEFINE t == req[q].start
<1>1. t \in StartTs /\ t # s /\ s # 0
  BY WriterFacts, TimestampFacts, Zenon
<1>2. CommitTs[s] # CommitTs[t] /\ CommitTs[s] # t /\ CommitTs[s] \in Timestamps
  BY <1>1, TimestampFacts, Zenon
<1> USE <1>1, <1>2
<1>3. ASSUME NEW k \in Keys
      PROVE  /\ OwnLock(k, s)' <=> OwnLock(k, s)
             /\ Committed(k, s)' <=> Committed(k, s)
             /\ s \in data'[k] <=> s \in data[k]
  <2>1. Effect(q, k)
    BY <1>3, KeyEffect, Zenon
  <2>2. CASE Untouched(k)
    BY <2>2, Zenon DEF Untouched, OwnLock, Committed
  <2>3. CASE Prewritten(q, k)
    BY <2>3 DEF Prewritten, Lock, OwnLock, Unlocked, NoLock, Committed
  <2>4. write[k] \in [Timestamps -> Writes]
    BY <1>3, Zenon DEF IInv, TypeOK
  <2>5. CASE Promoted(q, k)
    BY <2>4, <2>5 DEF Promoted, OwnLock, NoLock, Committed
  <2>6. CASE RolledBack(q, k)
    BY <2>4, <2>6 DEF RolledBack, OwnLock, Unlocked, NoLock, Committed
  <2> QED
    BY <2>1, <2>2, <2>3, <2>5, <2>6, Zenon DEF Effect, Changed
<1> QED
  BY <1>3, CoordinatorFacts, Zenon DEF Same, SameKey

\* storage.write gives a key of its own transaction the lock, the commit or
\* the rollback that was decided.
LEMMA OwnKey ==
    ASSUME IInv, NEW p \in Tasks, pc[p] = "write", ApplyWrites(buf[p], req[p].start),
           NEW s \in StartTs, req[p].start = s, NEW k \in Keys, k \in DOMAIN buf[p]
    PROVE  /\ req[p].op = "Prewrite" => OwnLock(k, s)' /\ (Committed(k, s)' <=> Committed(k, s))
           /\ (req[p].op # "Prewrite" /\ buf[p][k].at = CommitTs[s])
                 => /\ OwnLock(k, s) /\ ~OwnLock(k, s)' /\ Committed(k, s)'
                    /\ Mutation[s][k] = "Put" => s \in data'[k]
           /\ (req[p].op # "Prewrite" /\ buf[p][k].at = s)
                 => ~OwnLock(k, s)' /\ (Committed(k, s)' <=> Committed(k, s))
<1> DEFINE b == buf[p]
<1>1. /\ s # 0 /\ s \in Timestamps /\ CommitTs[s] \in Timestamps
      /\ CommitTs[s] # s /\ CommitTs[s] # 0
  BY TimestampFacts, Zenon
<1>2. /\ write[k] \in [Timestamps -> Writes]
      /\ lock[k].ts = s => /\ k \in DOMAIN Mutation[s] /\ lock[k].kind = Mutation[s][k]
                           /\ lock[k].kind = "Put" => s \in data[k]
  BY <1>1 DEF IInv, TypeOK, StoreInv, LocksFromPrewrite, LockedValuePresent, NoLock
<1>3. /\ lock'[k] = IF b[k].lock # Keep THEN b[k].lock ELSE lock[k]
      /\ write'[k] = IF b[k].at # 0 THEN [write[k] EXCEPT ![b[k].at] = b[k].record] ELSE write[k]
      /\ data'[k] = IF b[k].value = "put" THEN data[k] \cup {s}
                    ELSE IF b[k].value = "delete" THEN data[k] \ {s} ELSE data[k]
  BY Zenon DEF ApplyWrites
<1>4. WellBuffered(req[p], b, k)
  BY Zenon DEF IInv, Pending
<1>5. NoLock # Keep /\ NoLock.ts # s
  BY <1>1, Zenon DEF NoLock, Lock, Keep
<1> USE <1>1, <1>2, <1>3, <1>4, <1>5
<1>6. CASE req[p].op = "Prewrite"
  <2>1. b[k] = PrewriteModify(s, k)
    BY <1>6, Zenon DEF WellBuffered
  <2>2. lock'[k].ts = s /\ write'[k] = write[k]
    BY <2>1 DEF PrewriteModify, Modify, Lock, Keep
  <2> QED
    BY <1>6, <2>2, Zenon DEF OwnLock, Committed
<1>7. CASE req[p].op # "Prewrite"
  <2>1. CASE b[k] = CommitModify(s, CommitTs[s], lock[k].kind) /\ OwnLock(k, s)
    <3>1. /\ lock'[k] = NoLock /\ data'[k] = data[k] /\ b[k].at = CommitTs[s]
          /\ write'[k][CommitTs[s]] = Write(s, lock[k].kind)
      BY <2>1 DEF CommitModify, Modify
    <3>2. Mutation[s][k] \in {"Put", "Delete"} /\ lock[k].kind = Mutation[s][k]
      BY <2>1, MutationFacts, Zenon DEF OwnLock
    <3> QED
      BY <1>7, <2>1, <3>1, <3>2 DEF OwnLock, Committed, IsCommit, Write
  <2>2. CASE \/ b[k] = RollbackModify(s, NoLock)
             \/ b[k] = RollbackModify(s, Keep) /\ Unlocked(k)
             \/ b[k] = RollbackRecord(s) /\ Unlocked(k)
    <3>1. lock'[k] = NoLock /\ b[k].at = s /\ write'[k][CommitTs[s]] = write[k][CommitTs[s]]
      BY <2>2 DEF RollbackModify, RollbackRecord, Modify, Unlocked
    <3> QED
      BY <1>7, <3>1, Zenon DEF OwnLock, Committed
  <2> QED
    BY <1>7, <2>1, <2>2, Zenon DEF WellBuffered
<1> QED
  BY <1>6, <1>7, Zenon
-----------------------------------------------------------------------------
(* The handlers of a transaction's own requests. *)

\* A coordinator's task handles one of the three requests of two-phase commit.
LEMMA CoordinatorServes ==
    ASSUME NEW s \in StartTs, NEW p, p = Coordinator[s], TxnOK(s), Handle(p)
    PROVE  /\ Served(s, p) /\ pc[p] \in {"wait", "latched", "write"} /\ ValuesKept(s)
           /\ \/ AcquireLatches(p) \/ KvPrewrite(p) \/ KvCommit(p)
              \/ KvBatchRollback(p) \/ WriteAndRelease(p)
<1>1. pc[p] # "idle" /\ pc[p] # "done"
  BY Zenon DEF Handle, AcquireLatches, KvPrewrite, KvCommit, KvCheckTxnStatus, KvBatchRollback,
         ResolveLockScan, KvResolveLock, WriteAndRelease, GetCheckLock, GetValueCheckLock,
         GetLockedError, GetMostRecentWrite, GetDefault, Latched
<1>2. Served(s, p) /\ pc[p] \in {"wait", "latched", "write"} /\ ValuesKept(s)
  BY <1>1, Zenon DEF TxnOK, Served
<1>3. req[p].op \in {"Prewrite", "Commit", "BatchRollback"}
  BY <1>2 DEF Served, Prewriting, CommittingPrimary, CommittingRest, RollingBack, Request
<1>4. ~KvCheckTxnStatus(p) /\ ~ResolveLockScan(p) /\ ~KvResolveLock(p)
  BY <1>2, <1>3, Zenon DEF KvCheckTxnStatus, ResolveLockScan, KvResolveLock, Latched
<1>5. /\ ~GetCheckLock(p) /\ ~GetValueCheckLock(p) /\ ~GetLockedError(p)
      /\ ~GetMostRecentWrite(p) /\ ~GetDefault(p)
  BY <1>2, Zenon DEF GetCheckLock, GetValueCheckLock, GetLockedError, GetMostRecentWrite, GetDefault
<1> QED
  BY <1>2, <1>4, <1>5, Zenon DEF Handle

\* kv_prewrite, kv_commit and kv_batch_rollback decide: the commit of a
\* two-phase coordinator is never refused, a refused rollback has no lock.
LEMMA DecisionFacts ==
    ASSUME IInv, NEW s \in StartTs, NEW p \in Tasks, Served(s, p), pc[p] = "latched",
           KvPrewrite(p) \/ KvCommit(p) \/ KvBatchRollback(p)
    PROVE  /\ UNCHANGED <<store, req, keys>>
           /\ \/ pc'[p] = "write" /\ Decided(s, p)'
              \/ /\ pc'[p] = "done"
                 /\ \/ req[p].op = "Prewrite" /\ resp'[p].kind = "Errors"
                    \/ req[p].op = "BatchRollback" /\ ~AllLocked(s)
<1>1. /\ p \in DOMAIN pc /\ p \in DOMAIN resp /\ p \in DOMAIN buf
      /\ req[p].start = s /\ keys[p] = req[p].keys /\ s # 0 /\ s \in Nat
  BY TimestampFacts
     DEF IInv, TypeOK, Control, Served, Prewriting, CommittingPrimary, CommittingRest, RollingBack, Request
<1> USE <1>1
<1>2. CASE KvPrewrite(p)
  <2>1. req[p].op = "Prewrite"
    BY <1>2, Zenon DEF KvPrewrite, Latched
  <2>2. CASE Refuse(p, Resp("Errors", 0))
    BY <2>1, <2>2, Zenon DEF Refuse, Resp
  <2>3. CASE Prepare(p, [k \in keys[p] |-> PrewriteModify(s, k)], Resp("Ok", 0))
    BY <2>1, <2>3, Zenon DEF Prepare, Resp, Decided
  <2> QED
    BY <1>2, <2>2, <2>3, Zenon DEF KvPrewrite
<1>3. CASE KvCommit(p)
  <2>1. req[p].op = "Commit" /\ req[p].commit = CommitTs[s]
    BY <1>3 DEF KvCommit, Latched, Served, Prewriting, CommittingPrimary, CommittingRest, RollingBack, Request
  <2>2. \A k \in keys[p] : OwnLock(k, s)
    BY <2>1, CoordinatorFacts
       DEF Served, Prewriting, CommittingPrimary, CommittingRest, RollingBack, Request, AllLocked, PrimaryCommitted
  <2>3. \A k \in keys[p] : ~ForeignLock(k, s) /\ ~Unlocked(k)
    BY <2>2 DEF ForeignLock, Unlocked, OwnLock, NoLock
  <2>4. Prepare(p, [k \in {j \in keys[p] : OwnLock(j, s)} |-> CommitModify(s, CommitTs[s], lock[k].kind)],
                Resp("Ok", 0))
    BY <1>3, <2>1, <2>3, Zenon DEF KvCommit
  <2>5. {j \in keys[p] : OwnLock(j, s)} = keys[p]
    BY <2>2, Zenon
  <2>6. buf'[p] = [k \in keys[p] |-> CommitModify(s, CommitTs[s], lock[k].kind)]
    BY <2>4, <2>5, Zenon DEF Prepare
  <2>7. /\ pc'[p] = "write" /\ resp'[p].kind = "Ok" /\ UNCHANGED <<store, req, keys>>
    BY <2>4, Zenon DEF Prepare, Resp
  <2>8. Decided(s, p)'
    BY <2>1, <2>6, <2>7 DEF Decided, CommitModify, Modify
  <2> QED
    BY <2>7, <2>8, Zenon
<1>4. CASE KvBatchRollback(p)
  <2>1. req[p].op = "BatchRollback" /\ keys[p] = DOMAIN Mutation[s]
    BY <1>4 DEF KvBatchRollback, Latched, Served, Prewriting, CommittingPrimary, CommittingRest, RollingBack, Request
  <2>2. ASSUME NEW k \in keys[p], RollbackError(k, s), NEW answer, Refuse(p, answer)
        PROVE  pc'[p] = "done" /\ ~AllLocked(s) /\ UNCHANGED <<store, req, keys>>
    <3>1. ~AlreadyCommitted(k, s)
      BY DEF AlreadyCommitted, current_write
    <3>2. ~OwnLock(k, s)
      BY <2>2, <3>1, Zenon DEF RollbackError, ForeignLock
    <3> QED
      BY <2>1, <2>2, <3>2, Zenon DEF Refuse, AllLocked
  <2>3. CASE Prepare(p, [k \in keys[p] |-> RollbackModify(s, IF OwnLock(k, s) THEN NoLock ELSE Keep)],
                     Resp("Ok", 0))
    <3>1. buf'[p] = [k \in keys[p] |-> RollbackModify(s, IF OwnLock(k, s) THEN NoLock ELSE Keep)]
      BY <2>3, Zenon DEF Prepare
    <3>2. pc'[p] = "write" /\ resp'[p].kind = "Ok" /\ UNCHANGED <<store, req, keys>>
      BY <2>3, Zenon DEF Prepare, Resp
    <3>3. Decided(s, p)'
      BY <2>1, <3>1, <3>2 DEF Decided, RollbackModify, Modify
    <3> QED
      BY <3>2, <3>3, Zenon
  <2> QED
    BY <1>4, <2>1, <2>2, <2>3, Zenon DEF KvBatchRollback
<1> QED
  BY <1>2, <1>3, <1>4, Zenon

\* wait_for_latches and the decision keep a transaction in order.
LEMMA OwnDecision ==
    ASSUME IInv, NEW s \in StartTs, NEW p \in Tasks, p = Coordinator[s], TxnOK(s), Handle(p),
           ~WriteAndRelease(p), coord' = coord
    PROVE  TxnOK(s)' /\ Ordered(s) /\ UNCHANGED store
<1>1. Served(s, p) /\ pc[p] \in {"wait", "latched"} /\ ValuesKept(s) /\ p \in DOMAIN pc
  BY CoordinatorServes, Zenon
     DEF AcquireLatches, KvPrewrite, KvCommit, KvBatchRollback, Latched, IInv, TypeOK
<1>2. /\ UNCHANGED <<store, req>>
      /\ \/ pc'[p] = "latched"
         \/ pc'[p] = "write" /\ Decided(s, p)'
         \/ /\ pc'[p] = "done"
            /\ \/ req[p].op = "Prewrite" /\ resp'[p].kind = "Errors"
               \/ req[p].op = "BatchRollback" /\ ~AllLocked(s)
  <2>1. CASE AcquireLatches(p)
    BY <1>1, <2>1, Zenon DEF AcquireLatches
  <2>2. CASE KvPrewrite(p) \/ KvCommit(p) \/ KvBatchRollback(p)
    <3>1. pc[p] = "latched"
      BY <2>2, Zenon DEF KvPrewrite, KvCommit, KvBatchRollback, Latched
    <3> QED
      BY <1>1, <2>2, <3>1, DecisionFacts, ZenonT(30)
  <2> QED
    BY <2>1, <2>2, CoordinatorServes, Zenon
<1>3. /\ Nothing(s)' <=> Nothing(s)
      /\ AllLocked(s)' <=> AllLocked(s)
      /\ PrimaryCommitted(s)' <=> PrimaryCommitted(s)
      /\ AllCommitted(s)' <=> AllCommitted(s)
      /\ ValuesKept(s)'
  BY <1>1, <1>2, StoreFrame, StateFrame, Zenon
<1> USE <1>1, <1>2, <1>3
<1>4. /\ Prewriting(s, p) => Prewriting(s, p)'
      /\ CommittingPrimary(s, p) => CommittingPrimary(s, p)'
      /\ CommittingRest(s, p) => CommittingRest(s, p)'
      /\ RollingBack(s, p) => RollingBack(s, p)'
  BY DEF Prewriting, CommittingPrimary, CommittingRest, RollingBack, Request
<1>5. Served(s, p)' /\ pc'[p] # "idle"
  BY <1>4, Zenon DEF Served
<1>6. MayCommit(s)' => MayCommit(s)
  BY Zenon DEF MayCommit
<1>7. TxnOK(s)'
  BY <1>5, Zenon DEF TxnOK
<1>8. Ordered(s)
  BY <1>6, StoreFrame, SameOrdered, Zenon
<1> QED
  BY <1>7, <1>8, Zenon

\* storage.write brings a transaction from one of its four states to the next.
LEMMA OwnWrite ==
    ASSUME IInv, NEW s \in StartTs, NEW p \in Tasks, p = Coordinator[s], TxnOK(s),
           WriteAndRelease(p), coord' = coord
    PROVE  TxnOK(s)' /\ Ordered(s)
<1>1. Served(s, p) /\ Decided(s, p) /\ ValuesKept(s) /\ pc[p] = "write"
  BY Zenon DEF TxnOK, Served, WriteAndRelease
<1>2. /\ pc'[p] = "done" /\ UNCHANGED <<req, keys, resp>> /\ ApplyWrites(buf[p], req[p].start)
      /\ req[p].start = s /\ keys[p] = req[p].keys /\ DOMAIN buf[p] = keys[p] /\ keys[p] \subseteq Keys
      /\ s # CommitTs[s]
  BY <1>1, TimestampFacts
     DEF WriteAndRelease, IInv, TypeOK, Control, Served, Prewriting, CommittingPrimary,
         CommittingRest, RollingBack, Request, Decided
<1>3. \A k \in Keys : k \notin keys[p] => Untouched(k)
  BY <1>1, <1>2, KeyEffect, Zenon
<1>4. \A k \in Keys : k \notin keys[p] => /\ OwnLock(k, s)' <=> OwnLock(k, s)
                                          /\ Committed(k, s)' <=> Committed(k, s)
                                          /\ s \in data'[k] <=> s \in data[k]
  BY <1>3, Zenon DEF Untouched, OwnLock, Committed
<1>5. /\ Primary[s] \in DOMAIN Mutation[s] /\ Secondaries(s) = DOMAIN Mutation[s] \ {Primary[s]}
      /\ DOMAIN Mutation[s] \subseteq Keys
  BY CoordinatorFacts, Zenon DEF Secondaries
<1> USE <1>1, <1>2, <1>4, <1>5
<1>6. CASE Prewriting(s, p)
  <2>1. req[p].op = "Prewrite" /\ keys[p] = DOMAIN Mutation[s] /\ Nothing(s)
    BY <1>6 DEF Prewriting, Request
  <2>2. \A k \in keys[p] : OwnLock(k, s)' /\ (Committed(k, s)' <=> Committed(k, s))
    BY <2>1, OwnKey, Zenon
  <2>3. AllLocked(s)' /\ ValuesKept(s)'
    BY <2>1, <2>2, Zenon DEF AllLocked, Nothing, ValuesKept
  <2>4. Prewriting(s, p)'
    BY <1>6, <2>3, Zenon DEF Prewriting, Decided
  <2>5. ~MayCommit(s)'
    BY <1>6, <2>1, Zenon DEF MayCommit, Prewriting
  <2> QED
    BY <2>2, <2>3, <2>4, <2>5, Zenon DEF TxnOK, Served, Ordered
<1>7. CASE CommittingPrimary(s, p) \/ CommittingRest(s, p)
  <2>1. req[p].op = "Commit" /\ MayCommit(s)
    BY <1>7 DEF CommittingPrimary, CommittingRest, Request, MayCommit
  <2>2. \A k \in keys[p] : /\ OwnLock(k, s) /\ ~OwnLock(k, s)' /\ Committed(k, s)'
                           /\ Mutation[s][k] = "Put" => s \in data'[k]
    BY <2>1, OwnKey DEF Decided
  <2>3. ValuesKept(s)'
    BY <2>2, Zenon DEF ValuesKept
  <2>4. ASSUME CommittingPrimary(s, p) PROVE CommittingPrimary(s, p)'
    <3>1. keys[p] = {Primary[s]} /\ AllLocked(s)
      BY <2>4 DEF CommittingPrimary, Request
    <3>2. PrimaryCommitted(s)'
      BY <2>2, <3>1, Zenon DEF PrimaryCommitted, AllLocked
    <3> QED
      BY <2>4, <3>2, Zenon DEF CommittingPrimary, Decided
  <2>5. ASSUME CommittingRest(s, p) PROVE CommittingRest(s, p)'
    <3>1. keys[p] = Secondaries(s) /\ PrimaryCommitted(s)
      BY <2>5 DEF CommittingRest, Request
    <3>2. AllCommitted(s)'
      BY <2>2, <3>1 DEF PrimaryCommitted, AllCommitted
    <3> QED
      BY <2>5, <3>2, Zenon DEF CommittingRest, Decided
  <2>6. CommittingPrimary(s, p)' \/ CommittingRest(s, p)'
    BY <1>7, <2>4, <2>5, Zenon
  <2>7. Ordered(s)
    BY <2>1, <2>2, Zenon DEF Ordered
  <2> QED
    BY <2>3, <2>6, <2>7, Zenon DEF TxnOK, Served
<1>8. CASE RollingBack(s, p)
  <2>1. req[p].op = "BatchRollback" /\ keys[p] = DOMAIN Mutation[s]
    BY <1>8 DEF RollingBack, Request
  <2>2. \A k \in keys[p] : ~OwnLock(k, s)' /\ (Committed(k, s)' <=> Committed(k, s))
    BY <2>1, OwnKey DEF Decided
  <2>3. Nothing(s)' /\ ValuesKept(s)'
    BY <1>8, <2>1, <2>2, Zenon DEF AllLocked, Nothing, RollingBack, ValuesKept
  <2>4. RollingBack(s, p)'
    BY <1>8, <2>3, Zenon DEF RollingBack
  <2>5. ~MayCommit(s)'
    BY <1>8, <2>1, Zenon DEF MayCommit, RollingBack
  <2> QED
    BY <2>2, <2>3, <2>4, <2>5, Zenon DEF TxnOK, Served, Ordered
<1> QED
  BY <1>6, <1>7, <1>8, Zenon DEF Served
-----------------------------------------------------------------------------
(* Readers. *)

\* A read that is under way is about one key.
LEMMA GetFacts ==
    ASSUME IInv, NEW p \in Tasks, pc[p] # "idle", req[p].op = "Get"
    PROVE  /\ GetKey(p) \in Keys /\ req[p].start \in Nat
           /\ pc[p] \in {"get1", "get2", "getErr", "get3", "get4", "done"}
<1>1. req[p] \in Requests /\ pc[p] \in Labels
  BY Zenon DEF IInv, TypeOK, Control
<1>2. PICK k \in Keys : req[p].keys = {k}
  BY <1>1, RequestFacts, Zenon
<1>3. GetKey(p) = k
  BY <1>2, Zenon DEF GetKey
<1>4. req[p].start \in Timestamps
  BY <1>1, RequestFacts, Zenon
<1>5. pc[p] \notin {"scan", "wait", "latched", "write"}
  BY Zenon DEF IInv, Control
<1> QED
  BY <1>1, <1>3, <1>4, <1>5, TimestampsAssumption, Zenon DEF Labels

\* A key closed at a version no later than the clock stays closed, and the
\* latest commit stays the latest.
LEMMA StaysClosed ==
    ASSUME NEW k \in Keys, NEW version \in Nat, clock \in Nat, version <= clock,
           \A t \in StartTs : Ordered(t), Closed(k, version)
    PROVE  /\ Closed(k, version)'
           /\ \A s \in StartTs : Latest(k, version, s) => Latest(k, version, s)'
<1>1. \A t \in StartTs : CommitTs[t] \in Nat
  BY TimestampFacts, Zenon
<1>2. Closed(k, version)'
  BY <1>1 DEF Closed, Ordered
<1>3. ASSUME NEW s \in StartTs, Latest(k, version, s) PROVE Latest(k, version, s)'
  BY <1>3, Zenon DEF Closed, Latest, Ordered
<1> QED
  BY <1>2, <1>3, Zenon

\* Steps of the others keep what a reader has found valid.
LEMMA ReaderFrame ==
    ASSUME IInv, NEW p \in Tasks, ReaderOK(p), SameTask(p),
           clock \in Nat, clock' \in Nat, clock' >= clock,
           \A t \in StartTs : Ordered(t)
    PROVE  ReaderOK(p)'
<1> SUFFICES ASSUME pc[p] # "idle", req[p].op = "Get"
             PROVE  ReaderOK(p)'
  BY Zenon DEF ReaderOK, SameTask
<1>1. PICK k \in Keys, version \in Nat, u \in {resp[p].ts} :
            k = GetKey(p) /\ version = req[p].start /\ u = resp[p].ts
  BY GetFacts, Zenon
<1>2. /\ version <= clock
      /\ pc[p] = "get3" \/ HasVersion(p) => Closed(k, version)
      /\ HasVersion(p) => u \in StartTs /\ Latest(k, version, u)
  BY <1>1, Zenon DEF ReaderOK
<1>3. /\ GetKey(p)' = k /\ req'[p].start = version /\ resp'[p].ts = u
      /\ pc'[p] = pc[p] /\ (HasVersion(p)' <=> HasVersion(p))
  BY <1>1, Zenon DEF GetKey, SameTask, HasVersion
<1>4. /\ version <= clock'
      /\ pc[p] = "get3" \/ HasVersion(p) => Closed(k, version)'
      /\ HasVersion(p) => u \in StartTs /\ Latest(k, version, u)'
  BY <1>2, StaysClosed
<1> QED
  BY <1>3, <1>4, Zenon DEF ReaderOK, Closed, Latest

-----------------------------------------------------------------------------
(* Readers. *)

\* The steps of kv_get, in their order.
KvGetStep(p) ==
    \/ GetCheckLock(p) \/ GetValueCheckLock(p) \/ GetLockedError(p)
    \/ GetMostRecentWrite(p) \/ GetDefault(p)

\* A task that is nobody's coordinator handles reads.
LEMMA OthersGet ==
    ASSUME IInv, OthersRead, NEW p \in Tasks, \A s \in StartTs : Coordinator[s] # p, Handle(p)
    PROVE  KvGetStep(p) /\ pc[p] # "idle" /\ req[p].op = "Get" /\ p \in Readers
<1>1. pc[p] # "idle"
  BY Zenon DEF Handle, AcquireLatches, KvPrewrite, KvCommit, KvCheckTxnStatus, KvBatchRollback,
         ResolveLockScan, KvResolveLock, WriteAndRelease, GetCheckLock, GetValueCheckLock,
         GetLockedError, GetMostRecentWrite, GetDefault, Latched
<1>2. req[p].op = "Get" /\ p \in Readers
  BY <1>1, Zenon DEF OthersRead
<1>3. pc[p] \in {"get1", "get2", "getErr", "get3", "get4", "done"}
  BY <1>1, <1>2, GetFacts, Zenon
<1>4. /\ ~AcquireLatches(p) /\ ~KvPrewrite(p) /\ ~KvCommit(p) /\ ~KvCheckTxnStatus(p)
      /\ ~KvBatchRollback(p) /\ ~ResolveLockScan(p) /\ ~KvResolveLock(p) /\ ~WriteAndRelease(p)
  BY <1>3, Zenon DEF AcquireLatches, KvPrewrite, KvCommit, KvCheckTxnStatus, KvBatchRollback,
              ResolveLockScan, KvResolveLock, WriteAndRelease, Latched
<1> QED
  BY <1>1, <1>2, <1>4, Zenon DEF Handle, KvGetStep

\* The check of get_value closes the key: a lock it passes over is its own.
LEMMA CheckCloses ==
    ASSUME NEW k \in Keys, NEW version \in Nat, ~ForeignLock(k, version)
    PROVE  Closed(k, version)
<1>1. \A t \in StartTs : t \in Nat /\ t # 0 /\ CommitTs[t] \in Nat /\ CommitTs[t] > t
  BY TimestampsAssumption, Zenon
<1>2. lock[k].ts = 0 \/ lock[k].ts = version
  BY DEF ForeignLock, Unlocked, OwnLock, NoLock
<1> QED
  BY <1>1, <1>2 DEF Closed, OwnLock

\* The newest record below the version, when it is a Put, is the latest commit.
LEMMA SearchFindsLatest ==
    ASSUME IInv, NEW k \in Keys, NEW version \in Nat,
           NEW c \in most_recent_write(write[k], version), write[k][c].kind = "Put"
    PROVE  write[k][c].start_ts \in StartTs /\ Latest(k, version, write[k][c].start_ts)
<1> DEFINE u == write[k][c].start_ts
<1>1. write[k] \in [Timestamps -> Writes]
  BY Zenon DEF IInv, TypeOK
<1>2. c \in Timestamps /\ write[k][c] # NoWrite
  BY <1>1, Zenon DEF most_recent_write, Visible
<1>3. u \in StartTs
  BY <1>1, <1>2, Zenon DEF Writes
<1>4. c = CommitTs[u]
  BY <1>2, Zenon DEF IInv, StoreInv, RecordsFromTxns
<1>5. ASSUME NEW t \in StartTs, CommitTs[t] <= version, Committed(k, t) PROVE CommitTs[t] <= c
  <2>1. write[k][CommitTs[t]] # NoWrite
    BY <1>5 DEF Committed, IsCommit, NoWrite
  <2>2. CommitTs[t] \in Visible(write[k], version)
    BY <1>1, <1>5, <2>1, TimestampFacts, Zenon DEF Visible
  <2> QED
    BY <2>2, Zenon DEF most_recent_write
<1> QED
  BY <1>3, <1>4, <1>5, Zenon DEF Latest

\* A read keeps to its snapshot.
LEMMA ReaderGets ==
    ASSUME IInv, NEW p \in Tasks, ReaderOK(p), pc[p] # "idle", req[p].op = "Get", KvGetStep(p),
           \A t \in StartTs : Coordinator[t] # p, UNCHANGED clientVars, clock \in Nat
    PROVE  /\ ReaderOK(p)'
           /\ UNCHANGED <<store, req>> /\ \A q \in Tasks \ {p} : SameTask(q)
           /\ pc'[p] # "idle"
<1>1. PICK k \in Keys, version \in Nat : k = GetKey(p) /\ version = req[p].start
  BY GetFacts, Zenon
<1>2. /\ version <= clock
      /\ pc[p] = "get3" \/ HasVersion(p) => Closed(k, version)
      /\ HasVersion(p) => resp[p].ts \in StartTs /\ Latest(k, version, resp[p].ts)
  BY <1>1, Zenon DEF ReaderOK
<1>3. /\ p \in DOMAIN pc /\ p \in DOMAIN resp
      /\ pc[p] # "done" /\ resp[p].kind # "Value"
  BY Zenon DEF IInv, TypeOK, Control, KvGetStep, GetCheckLock, GetValueCheckLock, GetLockedError,
         GetMostRecentWrite, GetDefault
<1> USE <1>1, <1>2, <1>3
<1>4. /\ UNCHANGED <<store, latches, req, keys, buf>>
      /\ \A q \in Tasks \ {p} : pc'[q] = pc[q] /\ resp'[q] = resp[q]
      /\ \/ pc'[p] \in {"done", "get2", "getErr"} /\ resp'[p].kind # "Value"
         \/ pc'[p] = "get3" /\ resp'[p] = resp[p] /\ Closed(k, version)
         \/ /\ pc'[p] \in {"get4", "done"} /\ Closed(k, version)
            /\ resp'[p].ts \in StartTs /\ Latest(k, version, resp'[p].ts)
  <2>1. CASE GetCheckLock(p)
    BY <2>1 DEF GetCheckLock, GetDone, GetGoto, Resp, IInv, TypeOK
  <2>2. CASE GetValueCheckLock(p)
    <3>1. CASE ForeignLock(k, version)
      BY <2>2, <3>1, Zenon DEF GetValueCheckLock, GetGoto, IInv, TypeOK
    <3>2. CASE ~ForeignLock(k, version)
      BY <2>2, <3>2, CheckCloses, Zenon DEF GetValueCheckLock, GetGoto, IInv, TypeOK
    <3> QED
      BY <3>1, <3>2, Zenon
  <2>3. CASE GetLockedError(p)
    BY <2>3, Zenon DEF GetLockedError, GetDone, Resp, IInv, TypeOK
  <2>4. CASE GetMostRecentWrite(p)
    <3>1. CASE GetDone(p, Resp("NotFound", 0))
      BY <3>1, Zenon DEF GetDone, Resp, IInv, TypeOK
    <3>2. CASE \E c \in most_recent_write(write[k], version) :
                  /\ write[k][c].kind = "Put"
                  /\ pc' = [pc EXCEPT ![p] = "get4"]
                  /\ resp' = [resp EXCEPT ![p] = Resp("None", write[k][c].start_ts)]
                  /\ UNCHANGED <<store, latches, req, keys, buf>>
      BY <2>4, <3>2, SearchFindsLatest DEF GetMostRecentWrite, Resp, IInv, TypeOK
    <3> QED
      BY <2>4, <3>1, <3>2, Zenon DEF GetMostRecentWrite
  <2>5. CASE GetDefault(p)
    BY <2>5, Zenon DEF GetDefault, GetDone, Resp, HasVersion, IInv, TypeOK
  <2> QED
    BY <2>1, <2>2, <2>3, <2>4, <2>5, Zenon DEF KvGetStep
<1>5. GetKey(p)' = k /\ req'[p].start = version
  BY <1>4, Zenon DEF GetKey
<1>6. \A t \in StartTs : MayCommit(t)' <=> MayCommit(t)
  BY <1>4, CoordinatorFacts, Zenon DEF MayCommit, clientVars
<1>7. Closed(k, version) => Closed(k, version)'
  BY <1>4, <1>6, Zenon DEF Closed, store, OwnLock
<1>8. Latest(k, version, resp'[p].ts) =>
          \A t \in StartTs : (CommitTs[t] <= version /\ Committed(k, t)') => CommitTs[t] <= CommitTs[resp'[p].ts]
  BY <1>4, Zenon DEF Latest, store, Committed
<1>9. ReaderOK(p)'
  BY <1>4, <1>5, <1>7, <1>8, Zenon DEF ReaderOK, HasVersion, Closed, Latest, clientVars
<1> QED
  BY <1>4, <1>9, Zenon DEF SameTask
-----------------------------------------------------------------------------
(* Coordinators. *)

\* The requests of two-phase commit are requests.
LEMMA SentRequests ==
    ASSUME NEW s \in StartTs
    PROVE  /\ Request("Prewrite", s, DOMAIN Mutation[s], 0, 0) \in Requests
           /\ Request("Commit", s, {Primary[s]}, CommitTs[s], 0) \in Requests
           /\ Secondaries(s) # {} => Request("Commit", s, Secondaries(s), CommitTs[s], 0) \in Requests
           /\ Request("BatchRollback", s, DOMAIN Mutation[s], 0, 0) \in Requests
<1>1. /\ Primary[s] \in DOMAIN Mutation[s] /\ Secondaries(s) \subseteq DOMAIN Mutation[s]
      /\ DOMAIN Mutation[s] # {} /\ {Primary[s]} # {}
  BY CoordinatorFacts, Zenon
<1>2. Request("Prewrite", s, DOMAIN Mutation[s], 0, 0) \in PrewriteRequests
  BY Zenon DEF PrewriteRequests
<1>3. ASSUME NEW K \in SUBSET DOMAIN Mutation[s], K # {}
      PROVE  /\ Request("Commit", s, K, CommitTs[s], 0) \in CommitRequests
             /\ Request("BatchRollback", s, K, 0, 0) \in BatchRollbackRequests
  <2>1. K \in (SUBSET DOMAIN Mutation[s]) \ {{}}
    BY <1>3, Zenon
  <2>2. Request("Commit", s, K, CommitTs[s], 0) \in CommitRequests
    <3> DEFINE Of(t) == {Request("Commit", t, L, CommitTs[t], 0) : L \in (SUBSET DOMAIN Mutation[t]) \ {{}}}
    <3>1. Request("Commit", s, K, CommitTs[s], 0) \in Of(s)
      BY <2>1, Zenon
    <3>2. Of(s) \in {Of(t) : t \in StartTs}
      BY Zenon
    <3> QED
      BY <3>1, <3>2, Zenon DEF CommitRequests
  <2>3. Request("BatchRollback", s, K, 0, 0) \in BatchRollbackRequests
    <3> DEFINE Of(t) == {Request("BatchRollback", t, L, 0, 0) : L \in (SUBSET DOMAIN Mutation[t]) \ {{}}}
    <3>1. Request("BatchRollback", s, K, 0, 0) \in Of(s)
      BY <2>1, Zenon
    <3>2. Of(s) \in {Of(t) : t \in StartTs}
      BY Zenon
    <3> QED
      BY <3>1, <3>2, Zenon DEF BatchRollbackRequests
  <2> QED
    BY <2>2, <2>3, Zenon
<1> QED
  BY <1>1, <1>2, <1>3, Zenon DEF Requests

SendStep(s) == SendPrewrite(s) \/ SendCommitPrimary(s) \/ SendCommitRest(s) \/ SendRollback(s)

\* What a step of the coordinator of s leaves alone.
OnlyTxn(s) ==
    /\ \A q \in Tasks \ {Coordinator[s]} : SameTask(q)
    /\ \A t \in StartTs \ {s} : coord'[t] = coord[t]
    /\ UNCHANGED <<store, clock, resolving>>

\* A coordinator sends its next request.
LEMMA SendKeeps ==
    ASSUME IInv, DOMAIN coord = StartTs, NEW s \in StartTs, TxnOK(s), SendStep(s)
    PROVE  TxnOK(s)' /\ Ordered(s) /\ OnlyTxn(s) /\ Next
<1> DEFINE p == Coordinator[s]
<1>1. p \in Tasks /\ Primary[s] \in DOMAIN Mutation[s]
  BY CoordinatorFacts, Zenon
<1>2. PICK from, to, r :
        /\ Send(s, from, r, to)
        /\ \/ from = "begin" /\ to = "prewriting" /\ r = Request("Prewrite", s, DOMAIN Mutation[s], 0, 0)
           \/ from = "commit" /\ to = "committing" /\ r = Request("Commit", s, {Primary[s]}, CommitTs[s], 0)
           \/ from = "commitRest" /\ to = "committingRest" /\ r = Request("Commit", s, Secondaries(s), CommitTs[s], 0)
           \/ /\ from \in {"abort", "prewritten"} /\ to = "aborting"
              /\ r = Request("BatchRollback", s, DOMAIN Mutation[s], 0, 0)
  BY Zenon DEF SendStep, SendPrewrite, SendCommitPrimary, SendCommitRest, SendRollback
<1>3. /\ pc[p] = "idle" /\ coord[s] = from /\ coord' = [coord EXCEPT ![s] = to] /\ Receive(p, r)
      /\ UNCHANGED <<clock, resolving>>
  BY <1>2, Zenon DEF Send, Receive
<1>4. r.op \notin {"Get", "ResolveLock"}
  BY <1>2 DEF Request
<1>5. /\ pc'[p] = "wait" /\ req'[p] = r /\ coord'[s] = to /\ UNCHANGED store
      /\ \A q \in Tasks \ {p} : SameTask(q)
  BY <1>1, <1>3, <1>4, Zenon DEF Receive, IInv, TypeOK, SameTask
<1> USE <1>3, <1>5
<1>6. Resting(s) /\ ValuesKept(s)
  BY Zenon DEF TxnOK
<1>7. /\ from = "begin" \/ from = "abort" => Nothing(s)
      /\ from = "prewritten" \/ from = "commit" => AllLocked(s)
      /\ from = "commitRest" => PrimaryCommitted(s) /\ Secondaries(s) # {}
  BY <1>6, Zenon DEF Resting
<1>8. /\ Nothing(s)' <=> Nothing(s)
      /\ AllLocked(s)' <=> AllLocked(s)
      /\ PrimaryCommitted(s)' <=> PrimaryCommitted(s)
      /\ ValuesKept(s)'
  BY <1>6, StoreFrame, StateFrame, Zenon
<1>9. Prewriting(s, p)' \/ CommittingPrimary(s, p)' \/ CommittingRest(s, p)' \/ RollingBack(s, p)'
  BY <1>2, <1>7, <1>8, Zenon DEF Prewriting, CommittingPrimary, CommittingRest, RollingBack
<1>10. TxnOK(s)'
  BY <1>8, <1>9, Zenon DEF TxnOK, Served
<1>11. MayCommit(s)' => MayCommit(s)
  BY <1>2 DEF MayCommit, Request
<1>12. Ordered(s)
  BY <1>11, StoreFrame, SameOrdered, Zenon
<1>13. r \in Requests
  BY <1>2, <1>7, SentRequests, Zenon
<1> QED
  BY <1>1, <1>10, <1>12, <1>13, Zenon DEF OnlyTxn, Next

\* A coordinator gets its answer and goes on accordingly.
LEMMA AnswerKeeps ==
    ASSUME IInv, DOMAIN coord = StartTs, NEW s \in StartTs, TxnOK(s), CoordinatorAnswer(s)
    PROVE  TxnOK(s)' /\ Ordered(s) /\ OnlyTxn(s) /\ Next
<1> DEFINE p == Coordinator[s]
           ok == resp[p].kind = "Ok"
<1>1. p \in Tasks /\ DOMAIN Mutation[s] = Secondaries(s) \cup {Primary[s]}
  BY CoordinatorFacts, Zenon DEF Secondaries
<1>2. pc[p] = "done" /\ Reply(p) /\ coord'[s] = AfterAnswer(s, ok)
  BY Zenon DEF CoordinatorAnswer, Reply
<1>3. /\ pc'[p] = "idle" /\ OnlyTxn(s)
  BY <1>1, <1>2, Zenon DEF Reply, CoordinatorAnswer, IInv, TypeOK, SameTask, OnlyTxn
<1>4. Served(s, p) /\ ValuesKept(s)
  BY <1>2, Zenon DEF TxnOK
<1>5. /\ Nothing(s)' <=> Nothing(s)
      /\ AllLocked(s)' <=> AllLocked(s)
      /\ PrimaryCommitted(s)' <=> PrimaryCommitted(s)
      /\ AllCommitted(s)' <=> AllCommitted(s)
      /\ ValuesKept(s)'
  BY <1>3, <1>4, StoreFrame, StateFrame, Zenon DEF OnlyTxn
<1>6. Secondaries(s) = {} /\ PrimaryCommitted(s) => AllCommitted(s)
  BY <1>1, Zenon DEF PrimaryCommitted, AllCommitted
<1>7. /\ coord[s] = "gone" => coord'[s] = "gone"
      /\ coord[s] = "prewriting" => coord'[s] = IF ok THEN "prewritten" ELSE "abort"
      /\ coord[s] = "committing" /\ ok => coord'[s] = IF Secondaries(s) = {} THEN "committed" ELSE "commitRest"
      /\ coord[s] = "committingRest" /\ ok => coord'[s] = "committed"
      /\ coord[s] = "aborting" => coord'[s] \in {"aborted", "refused"}
  BY <1>2, Zenon DEF AfterAnswer
<1> USE <1>2, <1>3, <1>5, <1>7
<1>8. ASSUME Prewriting(s, p) PROVE Resting(s)' /\ ~MayCommit(s)'
  <2>1. Resting(s)'
    BY <1>8, Zenon DEF Prewriting, Resting, Whole
  <2>2. ~MayCommit(s)'
    BY <1>8, Zenon DEF Prewriting, MayCommit
  <2> QED
    BY <2>1, <2>2, Zenon
<1>9. ASSUME CommittingPrimary(s, p) \/ CommittingRest(s, p) PROVE Resting(s)' /\ MayCommit(s)
  <2>1. Resting(s)'
    BY <1>6, <1>9, Zenon DEF CommittingPrimary, CommittingRest, Resting, Whole
  <2>2. MayCommit(s)
    BY <1>9 DEF CommittingPrimary, CommittingRest, MayCommit, Request
  <2> QED
    BY <2>1, <2>2, Zenon
<1>10. ASSUME RollingBack(s, p) PROVE Resting(s)' /\ ~MayCommit(s)'
  <2>1. Resting(s)'
    BY <1>10, Zenon DEF RollingBack, Resting, Whole
  <2>2. ~MayCommit(s)'
    BY <1>10, Zenon DEF RollingBack, MayCommit
  <2> QED
    BY <2>1, <2>2, Zenon
<1>11. Resting(s)' /\ (MayCommit(s)' => MayCommit(s))
  BY <1>4, <1>8, <1>9, <1>10, Zenon DEF Served
<1>12. TxnOK(s)'
  BY <1>11, Zenon DEF TxnOK
<1>13. Ordered(s)
  BY <1>11, StoreFrame, SameOrdered, Zenon DEF OnlyTxn
<1> QED
  BY <1>1, <1>12, <1>13, Zenon DEF Next

\* The oracle lets those commit that have all their locks, at a timestamp
\* nobody has read at.
LEMMA TickKeeps ==
    ASSUME clock \in Nat, NEW s \in StartTs, TxnOK(s), Tick
    PROVE  TxnOK(s)' /\ Ordered(s)
<1> DEFINE p == Coordinator[s]
<1>1. /\ UNCHANGED <<store, pc, req, keys, buf, resp>> /\ clock' = clock + 1
      /\ coord'[s] = IF CommitTs[s] = clock' /\ coord[s] = "prewritten" THEN "commit" ELSE coord[s]
  BY Zenon DEF Tick, vars, store
<1> USE <1>1
<1>2. Same(s) /\ SameTask(p)
  BY StoreFrame, Zenon DEF SameTask
<1>3. ASSUME coord'[s] = coord[s] PROVE TxnOK(s)'
  BY <1>2, <1>3, TxnFrame, Zenon
<1>4. ASSUME coord'[s] # coord[s] PROVE TxnOK(s)'
  <2>1. coord[s] = "prewritten" /\ coord'[s] = "commit"
    BY <1>4, Zenon
  <2>2. pc[p] = "idle" /\ AllLocked(s) /\ ValuesKept(s)
    BY <2>1, Zenon DEF TxnOK, Served, Prewriting, CommittingPrimary, CommittingRest, RollingBack, Resting
  <2>3. AllLocked(s)' /\ ValuesKept(s)'
    BY <1>2, <2>2, StateFrame, Zenon
  <2> QED
    BY <2>1, <2>2, <2>3, Zenon DEF TxnOK, Resting
<1>5. MayCommit(s)' => MayCommit(s) \/ CommitTs[s] > clock
  BY DEF MayCommit
<1> QED
  BY <1>2, <1>3, <1>4, <1>5, SameOrdered, Zenon

\* A client that goes leaves its transaction as it is.
LEMMA DisappearKeeps ==
    ASSUME DOMAIN coord = StartTs, NEW s \in StartTs, TxnOK(s), Disappear(s)
    PROVE  TxnOK(s)' /\ Ordered(s) /\ OnlyTxn(s) /\ UNCHANGED vars
<1> DEFINE p == Coordinator[s]
<1>1. /\ UNCHANGED vars /\ OnlyTxn(s) /\ UNCHANGED <<store, pc, req, keys, buf, resp>>
      /\ coord'[s] = "gone"
  BY Zenon DEF Disappear, vars, store, OnlyTxn, SameTask
<1> USE <1>1
<1>2. /\ Nothing(s)' <=> Nothing(s)
      /\ AllLocked(s)' <=> AllLocked(s)
      /\ PrimaryCommitted(s)' <=> PrimaryCommitted(s)
      /\ AllCommitted(s)' <=> AllCommitted(s)
      /\ ValuesKept(s) => ValuesKept(s)'
  BY StoreFrame, StateFrame, Zenon
<1>3. Resting(s) => Resting(s)'
  BY <1>2, Zenon DEF Resting, Whole
<1>4. Decided(s, p) => Decided(s, p)'
  BY Zenon DEF Decided
<1>5. Served(s, p) => Served(s, p)'
  BY <1>2, <1>4, Zenon DEF Served, Prewriting, CommittingPrimary, CommittingRest, RollingBack
<1>6. TxnOK(s)'
  BY <1>2, <1>3, <1>5, Zenon DEF TxnOK
<1>7. MayCommit(s)' => MayCommit(s)
  BY Zenon DEF MayCommit
<1> QED
  BY <1>6, <1>7, StoreFrame, SameOrdered, Zenon
-----------------------------------------------------------------------------
(* The invariant. *)

\* A step of one transaction: the others and the readers stay in order.
LEMMA OneTransaction ==
    ASSUME clock \in Nat, clock' = clock, TwoPhase, IInv', NEW s \in StartTs, TxnOK(s)', Ordered(s),
           \A q \in Tasks \ {Coordinator[s]} : SameTask(q),
           \A t \in StartTs \ {s} : coord'[t] = coord[t] /\ Same(t)
    PROVE  TwoPhase'
<1>1. ASSUME NEW t \in StartTs, t # s
      PROVE  TxnOK(t)' /\ Ordered(t)
  <2>1. SameTask(Coordinator[t])
    BY <1>1, CoordinatorFacts, Zenon
  <2>2. TxnOK(t)'
    BY <1>1, <2>1, TxnFrame, Zenon DEF TwoPhase
  <2>3. MayCommit(t)' <=> MayCommit(t)
    BY <1>1, <2>1, Zenon DEF MayCommit, SameTask
  <2> QED
    BY <1>1, <2>2, <2>3, SameOrdered, Zenon
<1>2. \A t \in StartTs : TxnOK(t)' /\ Ordered(t)
  BY <1>1, Zenon
<1>3. OthersRead'
  BY Zenon DEF TwoPhase, OthersRead, SameTask
<1>4. ASSUME NEW p \in Readers PROVE ReaderOK(p)'
  <2>1. p \in Tasks /\ p # Coordinator[s]
    BY ClientsAssumption, CoordinatorFacts, Zenon
  <2> QED
    BY <1>2, <2>1, ReaderFrame DEF TwoPhase
<1> QED
  BY <1>2, <1>3, <1>4, Zenon DEF TwoPhase

\* A step of a task that serves no coordinator: the transactions and the
\* other readers stay in order.
LEMMA OtherTask ==
    ASSUME clock \in Nat, TwoPhase, IInv', UNCHANGED <<store, clock, coord>>,
           NEW p \in Tasks, \A s \in StartTs : Coordinator[s] # p,
           \A q \in Tasks \ {p} : SameTask(q),
           pc'[p] = "idle" \/ (p \in Readers /\ req'[p].op = "Get"),
           p \in Readers => ReaderOK(p)'
    PROVE  TwoPhase'
<1>1. ASSUME NEW t \in StartTs
      PROVE  TxnOK(t)' /\ Ordered(t)
  <2>1. SameTask(Coordinator[t]) /\ Same(t)
    BY CoordinatorFacts, StoreFrame, Zenon
  <2>2. TxnOK(t)'
    BY <2>1, TxnFrame, Zenon DEF TwoPhase
  <2>3. MayCommit(t)' <=> MayCommit(t)
    BY <2>1, Zenon DEF MayCommit, SameTask
  <2> QED
    BY <2>1, <2>2, <2>3, SameOrdered, Zenon
<1>2. OthersRead'
  BY Zenon DEF TwoPhase, OthersRead, SameTask
<1>3. ASSUME NEW q \in Readers PROVE ReaderOK(q)'
  <2>1. q \in Tasks
    BY ClientsAssumption, Zenon
  <2>2. CASE q # p
    BY <1>1, <2>1, <2>2, ReaderFrame DEF TwoPhase
  <2> QED
    BY <2>2, Zenon
<1> QED
  BY <1>1, <1>2, <1>3, Zenon DEF TwoPhase

\* A coordinator sends, gets its answer or disappears.
LEMMA CoordinatorKeeps ==
    ASSUME ClientTypes, TwoPhase, NEW s \in StartTs, CoordinatorStep(s) \/ Disappear(s)
    PROVE  TwoPhase'
<1>1. TxnOK(s)' /\ Ordered(s) /\ OnlyTxn(s) /\ [Next]_vars
  BY SendKeeps, AnswerKeeps, DisappearKeeps, Zenon DEF CoordinatorStep, SendStep, TwoPhase, ClientTypes
<1>2. IInv'
  BY <1>1, NextIInv, Zenon DEF TwoPhase
<1>3. \A t \in StartTs : Same(t)
  BY <1>1, StoreFrame, Zenon DEF OnlyTxn
<1> QED
  BY <1>1, <1>2, <1>3, OneTransaction, Zenon DEF OnlyTxn, ClientTypes

\* A handler takes a step.
LEMMA ServeKeeps ==
    ASSUME ClientTypes, TwoPhase, NEW p \in Tasks, Serve(p)
    PROVE  TwoPhase'
<1>1. Handle(p) /\ UNCHANGED clientVars /\ Next /\ clock \in Nat /\ clock' = clock /\ coord' = coord
  BY Zenon DEF Serve, Next, ClientTypes, clientVars
<1>2. IInv'
  BY <1>1, NextIInv, Zenon DEF TwoPhase
<1> USE <1>1, <1>2
<1>3. CASE \A s \in StartTs : Coordinator[s] # p
  <2>1. KvGetStep(p) /\ pc[p] # "idle" /\ req[p].op = "Get" /\ p \in Readers
    BY <1>3, OthersGet, Zenon DEF TwoPhase
  <2> USE <2>1
  <2>2. /\ ReaderOK(p)' /\ UNCHANGED <<store, req>> /\ \A q \in Tasks \ {p} : SameTask(q)
    BY <1>3, ReaderGets, Zenon DEF TwoPhase
  <2> QED
    BY <1>3, <2>2, OtherTask, Zenon
<1>4. ASSUME NEW s \in StartTs, p = Coordinator[s] PROVE TwoPhase'
  <2>1. TxnOK(s) /\ IInv
    BY Zenon DEF TwoPhase
  <2>2. \A q \in Tasks \ {p} : SameTask(q)
    <3>1. CASE AcquireLatches(p) \/ WriteAndRelease(p)
      BY <2>1, <3>1, Zenon DEF AcquireLatches, WriteAndRelease, SameTask, IInv, TypeOK
    <3>2. CASE \E answer : Refuse(p, answer)
      BY <2>1, <3>2, Zenon DEF Refuse, SameTask, IInv, TypeOK
    <3>3. CASE \E b, answer : Prepare(p, b, answer)
      BY <2>1, <3>3, Zenon DEF Prepare, SameTask, IInv, TypeOK
    <3>4. KvPrewrite(p) \/ KvCommit(p) \/ KvBatchRollback(p)
            => (\E answer : Refuse(p, answer)) \/ (\E b, answer : Prepare(p, b, answer))
      BY Zenon DEF KvPrewrite, KvCommit, KvBatchRollback
    <3> QED
      BY <1>4, <2>1, <3>1, <3>2, <3>3, <3>4, CoordinatorServes, Zenon
  <2>3. TxnOK(s)' /\ Ordered(s)
    BY <1>4, <2>1, OwnDecision, OwnWrite, Zenon
  <2>4. ASSUME NEW t \in StartTs, t # s
        PROVE  Same(t)
    <3>1. CASE WriteAndRelease(p)
      <4>1. pc[p] = "write" /\ ApplyWrites(buf[p], req[p].start)
        BY <3>1, Zenon DEF WriteAndRelease
      <4>2. req[p].start = s
        <5>1. Served(s, p)
          BY <1>4, <2>1, CoordinatorServes, Zenon
        <5> QED
          BY <5>1 DEF Served, Prewriting, CommittingPrimary, CommittingRest, RollingBack, Request
      <4> QED
        BY <2>1, <2>4, <4>1, <4>2, OtherWrite, Zenon
    <3>2. CASE ~WriteAndRelease(p)
      <4>1. UNCHANGED store
        BY <1>4, <2>1, <3>2, OwnDecision, Zenon
      <4> QED
        BY <4>1, StoreFrame, Zenon
    <3> QED
      BY <3>1, <3>2, Zenon
  <2> QED
    BY <1>4, <2>2, <2>3, <2>4, OneTransaction, Zenon
<1> QED
  BY <1>3, <1>4, Zenon

\* The timestamp oracle.
LEMMA OracleKeeps ==
    ASSUME ClientTypes, TwoPhase, Tick
    PROVE  TwoPhase'
<1>1. /\ UNCHANGED vars /\ clock \in Nat /\ clock' \in Nat /\ clock' >= clock
      /\ \A q \in Tasks : SameTask(q)
  BY DEF ClientTypes, Tick, vars, SameTask
<1>2. IInv'
  BY <1>1, NextIInv, Zenon DEF TwoPhase
<1>3. \A s \in StartTs : TxnOK(s)' /\ Ordered(s)
  BY <1>1, TickKeeps, Zenon DEF TwoPhase
<1>4. OthersRead'
  BY <1>1, Zenon DEF TwoPhase, OthersRead, vars
<1>5. ASSUME NEW p \in Readers PROVE ReaderOK(p)'
  BY <1>1, <1>3, ReaderFrame, ClientsAssumption, Zenon DEF TwoPhase
<1> QED
  BY <1>2, <1>3, <1>4, <1>5, Zenon DEF TwoPhase

\* A reader asks for a key at the version the clock shows.
LEMMA ReadKeeps ==
    ASSUME ClientTypes, TwoPhase, NEW p \in Readers, Read(p)
    PROVE  TwoPhase'
<1>1. PICK k \in Keys : clock \in ReadTs /\ Receive(p, Request("Get", clock, {k}, 0, 0))
  BY Zenon DEF Read
<1>2. p \in Tasks /\ \A s \in StartTs : Coordinator[s] # p
  BY ClientsAssumption, Zenon
<1>3. Request("Get", clock, {k}, 0, 0) \in Requests
  BY <1>1 DEF Requests, GetRequests
<1>4. IInv /\ IInv'
  BY <1>1, <1>2, <1>3, NextIInv, Zenon DEF TwoPhase, Next
<1>5. /\ pc[p] = "idle" /\ pc'[p] = "get1" /\ req'[p] = Request("Get", clock, {k}, 0, 0)
      /\ resp' = resp /\ UNCHANGED store /\ \A q \in Tasks \ {p} : SameTask(q)
  BY <1>1, <1>2, <1>4, Zenon DEF Receive, Request, SameTask, IInv, TypeOK
<1>6. clock \in Nat /\ UNCHANGED <<clock, coord>>
  BY Zenon DEF ClientTypes, Read, clientVars
<1>7. resp[p].kind # "Value"
  BY <1>2, <1>4, <1>5, Zenon DEF IInv, Control
<1>8. req'[p].op = "Get" /\ ReaderOK(p)'
  BY <1>5, <1>6, <1>7 DEF ReaderOK, HasVersion, Request
<1> QED
  BY <1>2, <1>4, <1>5, <1>6, <1>8, OtherTask, Zenon

\* The client of a read, or of a resolver, has its answer.
LEMMA ReplyKeeps ==
    ASSUME ClientTypes, TwoPhase, NEW p \in Readers \cup Resolvers, Reply(p),
           UNCHANGED <<clock, coord>>
    PROVE  TwoPhase'
<1>1. p \in Tasks /\ \A s \in StartTs : Coordinator[s] # p
  BY ClientsAssumption, Zenon
<1>2. IInv /\ IInv'
  BY <1>1, NextIInv, Zenon DEF TwoPhase, Next
<1>3. pc'[p] = "idle" /\ UNCHANGED store /\ \A q \in Tasks \ {p} : SameTask(q)
  BY <1>1, <1>2, Zenon DEF Reply, SameTask, IInv, TypeOK
<1>4. ReaderOK(p)'
  BY <1>3, Zenon DEF ReaderOK
<1> QED
  BY <1>1, <1>2, <1>3, <1>4, OtherTask, Zenon DEF ClientTypes

\* The initial state.
LEMMA InitClientInv == ClientInit => ClientInv
<1> SUFFICES ASSUME ClientInit PROVE ClientInv
  BY Zenon
<1>1. ClientTypes
  BY Zenon DEF ClientInit, ClientTypes
<1>2. IInv
  BY InitIInv, Zenon DEF ClientInit
<1>3. ASSUME NEW s \in StartTs PROVE TxnOK(s)
  <2>1. /\ Coordinator[s] \in Tasks /\ DOMAIN Mutation[s] \subseteq Keys /\ s # 0
        /\ CommitTs[s] \in Timestamps
    BY CoordinatorFacts, TimestampFacts, Zenon
  <2>2. Nothing(s)
    BY <2>1, Zenon DEF ClientInit, Init, Nothing, OwnLock, Committed, IsCommit, NoLock, NoWrite
  <2> QED
    BY <2>1, <2>2, Zenon DEF ClientInit, Init, TxnOK, Resting, Nothing, ValuesKept
<1>4. OthersRead /\ \A p \in Readers : ReaderOK(p)
  BY ClientsAssumption, Zenon DEF ClientInit, Init, OthersRead, ReaderOK
<1> QED
  BY <1>1, <1>2, <1>3, <1>4, Zenon DEF ClientInv, TwoPhase

\* Every step keeps the invariant; only a resolver's requests end it.
LEMMA NextClientInv == ClientInv /\ [ClientNext]_allVars => ClientInv'
<1> SUFFICES ASSUME ClientInv, [ClientNext]_allVars PROVE ClientInv'
  BY Zenon
<1>1. CASE Tick
  BY <1>1, OracleKeeps DEF ClientInv, ClientTypes, Tick
<1>2. CASE \E s \in StartTs : CoordinatorStep(s) \/ Disappear(s)
  <2>1. ClientTypes' /\ resolving' = resolving
    BY <1>2, Zenon DEF ClientInv, ClientTypes, CoordinatorStep, SendPrewrite, SendCommitPrimary,
                SendCommitRest, SendRollback, Send, CoordinatorAnswer, Disappear
  <2> QED
    BY <1>2, <2>1, CoordinatorKeeps, Zenon DEF ClientInv
<1>3. CASE \E p \in Readers : Read(p) \/ ReaderAnswer(p)
  <2>1. ClientTypes' /\ resolving' = resolving
    BY <1>3, Zenon DEF ClientInv, ClientTypes, Read, ReaderAnswer, clientVars
  <2> QED
    BY <1>3, <2>1, ReadKeeps, ReplyKeeps, Zenon DEF ClientInv, ReaderAnswer, clientVars
<1>4. CASE \E p \in Resolvers : ResolverAnswer(p)
  <2>1. ClientTypes' /\ resolving' = resolving
    BY <1>4, Zenon DEF ClientInv, ClientTypes, ResolverAnswer
  <2> QED
    BY <1>4, <2>1, ReplyKeeps, Zenon DEF ClientInv, ResolverAnswer
<1>5. CASE \E p \in Resolvers : (\E s \in StartTs : AskStatus(p, s)) \/ Resolve(p)
  BY <1>5, Zenon DEF ClientInv, ClientTypes, AskStatus, Resolve
<1>6. CASE \E p \in Tasks : Serve(p)
  <2>1. ClientTypes' /\ resolving' = resolving
    BY <1>6, Zenon DEF ClientInv, ClientTypes, Serve, clientVars
  <2> QED
    BY <1>6, <2>1, ServeKeeps, Zenon DEF ClientInv
<1>7. CASE UNCHANGED allVars
  <2>1. /\ UNCHANGED <<vars, store, clock, coord, resolving>> /\ \A q \in Tasks : SameTask(q)
    BY <1>7, Zenon DEF allVars, vars, clientVars, store, SameTask
  <2>2. ASSUME TwoPhase PROVE TwoPhase'
    <3>1. IInv'
      BY <2>1, <2>2, NextIInv, Zenon DEF TwoPhase
    <3>2. ASSUME NEW s \in StartTs PROVE TxnOK(s)' /\ Ordered(s)
      BY <2>1, <2>2, StoreFrame, TxnFrame, SameOrdered, CoordinatorFacts, Zenon DEF TwoPhase, MayCommit, vars
    <3>3. OthersRead'
      BY <2>1, <2>2, Zenon DEF TwoPhase, OthersRead, vars
    <3>4. ASSUME NEW p \in Readers PROVE ReaderOK(p)'
      BY <2>1, <2>2, <3>2, ReaderFrame, ClientsAssumption DEF TwoPhase, ClientInv, ClientTypes
    <3> QED
      BY <3>1, <3>2, <3>3, <3>4, Zenon DEF TwoPhase
  <2> QED
    BY <2>1, <2>2, Zenon DEF ClientInv, ClientTypes
<1> QED
  BY <1>1, <1>2, <1>3, <1>4, <1>5, <1>6, <1>7, Zenon DEF ClientNext

\* The invariant holds in every behaviour of the clients.
LEMMA ClientSpecInv == ClientSpec => []ClientInv
BY InitClientInv, NextClientInv, PTL DEF ClientSpec

\* A transaction is in one of its four states.
LEMMA TxnWhole ==
    ASSUME NEW s \in StartTs, TxnOK(s)
    PROVE  Whole(s)
BY Zenon DEF TxnOK, Whole, Resting, Served, Prewriting, CommittingPrimary, CommittingRest, RollingBack

\* Two-phase commit over the handlers is atomic for any number of keys,
\* transactions and tasks, whichever coordinators disappear, as long as nobody
\* resolves locks: when one key of a transaction is committed the others are
\* committed, or locked and can be committed.
THEOREM CommitIsAtomic == ClientSpec => []AtomicWithoutResolvers
<1>1. ClientInv => AtomicWithoutResolvers
  <2> SUFFICES ASSUME TwoPhase PROVE AtomicCommit
    BY Zenon DEF ClientInv, AtomicWithoutResolvers
  <2>1. ASSUME NEW s \in StartTs, NEW j \in DOMAIN Mutation[s], NEW k \in DOMAIN Mutation[s],
               Committed(j, s)
        PROVE  Committed(k, s) \/ OwnLock(k, s)
    <3>1. Whole(s)
      BY TxnWhole, Zenon DEF TwoPhase
    <3> QED
      BY <2>1, <3>1, Zenon DEF Whole, Nothing, AllLocked, PrimaryCommitted, AllCommitted, Secondaries
  <2> QED
    BY <2>1, Zenon DEF AtomicCommit
<1> QED
  BY <1>1, ClientSpecInv, PTL

\* What a coordinator has told its client is what the store holds from then
\* on: all keys committed with their values, or none and no lock left.
THEOREM OutcomesAreKept == ClientSpec => []OutcomeWithoutResolvers
<1>1. ClientInv => OutcomeWithoutResolvers
  <2> SUFFICES ASSUME TwoPhase PROVE OutcomeIsKept
    BY Zenon DEF ClientInv, OutcomeWithoutResolvers
  <2>1. ASSUME NEW s \in StartTs
        PROVE  /\ coord[s] = "committed" => AllCommitted(s)
               /\ coord[s] \in {"aborted", "refused"} => Nothing(s)
               /\ ValuesKept(s)
    BY Zenon DEF TwoPhase, TxnOK, Resting, Served, Prewriting, CommittingPrimary, CommittingRest, RollingBack
  <2> QED
    BY <2>1, Zenon DEF OutcomeIsKept, AllCommitted, Nothing, ValuesKept
<1> QED
  BY <1>1, ClientSpecInv, PTL

\* A value kv_get returns belongs to the snapshot of its version: no other
\* transaction has, or will ever have, a commit between the one that was read
\* and the version.
THEOREM ReadsAreSnapshots == ClientSpec => []ValueIsSnapshot
<1>1. ClientInv => ValueIsSnapshot
  <2> SUFFICES ASSUME TwoPhase, NEW p \in Readers, req[p].op = "Get", resp[p].kind = "Value",
                      NEW t \in StartTs, Committed(GetKey(p), t)
               PROVE  ~(CommitTs[resp[p].ts] < CommitTs[t] /\ CommitTs[t] <= req[p].start)
    BY Zenon DEF ClientInv, ValueIsSnapshot
  <2>1. pc[p] # "idle"
    BY ClientsAssumption, Zenon DEF TwoPhase, IInv, Control
  <2>2. resp[p].ts \in StartTs /\ Latest(GetKey(p), req[p].start, resp[p].ts)
    BY <2>1, Zenon DEF TwoPhase, ReaderOK, HasVersion
  <2>3. CommitTs[t] \in Nat /\ CommitTs[resp[p].ts] \in Nat
    BY <2>2, TimestampFacts, Zenon
  <2> QED
    BY <2>2, <2>3 DEF Latest
<1> QED
  BY <1>1, ClientSpecInv, PTL
-----------------------------------------------------------------------------
(* A scan beside the clients. *)

ScanningNext ==
    \/ ClientNext /\ WatchScan
    \/ /\ (\E version \in ReadTs : ScanBegin(version)) \/ ScanStep \/ ScanReply
       /\ UNCHANGED clientVars

ScanningSpec == ClientInit /\ scan = NoScan /\ [][ScanningNext]_<<allVars, scan>>

ScanningInv == ClientInv /\ (~resolving => ScanInv /\ ScanView)

\* As long as nobody resolves locks every Put record has its value.
LEMMA TwoPhaseValues == TwoPhase => ValuesStand
<1> SUFFICES ASSUME TwoPhase, NEW k \in Keys, NEW c \in Timestamps, write[k][c].kind = "Put"
             PROVE  write[k][c].start_ts \in data[k]
  BY Zenon DEF ValuesStand
<1> DEFINE s == write[k][c].start_ts
<1>1. write[k][c] \in Writes /\ write[k][c] # NoWrite
  <2>1. NoWrite.kind # "Put"
    BY DEF NoWrite
  <2> QED
    BY <2>1, Zenon DEF TwoPhase, IInv, TypeOK
<1>2. s \in StartTs
  BY <1>1 DEF Writes
<1>3. c = CommitTs[s] /\ k \in DOMAIN Mutation[s] /\ Mutation[s][k] = "Put"
  <2>1. "Put" # "Rollback"
    BY Zenon
  <2> QED
    BY <1>1, <2>1, Zenon DEF TwoPhase, IInv, StoreInv, RecordsFromTxns
<1>4. Committed(k, s)
  BY <1>3 DEF Committed, IsCommit
<1> QED
  BY <1>2, <1>3, <1>4, Zenon DEF TwoPhase, TxnOK, ValuesKept

\* What the clients do is a step of the handlers, or none.
LEMMA ClientStepFacts ==
    ASSUME ClientTypes, TwoPhase, ClientNext, ~resolving'
    PROVE  [Next]_vars
<1>1. CASE Tick
  BY <1>1, Zenon DEF Tick
<1>2. ASSUME NEW s \in StartTs, CoordinatorStep(s) \/ Disappear(s)
      PROVE  [Next]_vars
  BY <1>2, SendKeeps, AnswerKeeps, DisappearKeeps, Zenon
     DEF CoordinatorStep, SendStep, TwoPhase, ClientTypes
<1>3. ASSUME NEW p \in Readers, Read(p) \/ ReaderAnswer(p)
      PROVE  [Next]_vars
  <2>1. p \in Tasks
    BY ClientsAssumption, Zenon
  <2>2. ASSUME NEW k \in Keys, clock \in ReadTs
        PROVE  Request("Get", clock, {k}, 0, 0) \in Requests
    BY <2>2 DEF Requests, GetRequests
  <2> QED
    BY <1>3, <2>1, <2>2, Zenon DEF Read, ReaderAnswer, Next
<1>4. ASSUME NEW p \in Resolvers, ResolverAnswer(p)
      PROVE  [Next]_vars
  BY <1>4, ClientsAssumption, Zenon DEF ResolverAnswer, Next
<1>5. CASE \E p \in Resolvers : (\E s \in StartTs : AskStatus(p, s)) \/ Resolve(p)
  BY <1>5, Zenon DEF AskStatus, Resolve
<1>6. ASSUME NEW p \in Tasks, Serve(p)
      PROVE  [Next]_vars
  BY <1>6, Zenon DEF Serve, Next
<1> QED
  BY <1>1, <1>2, <1>3, <1>4, <1>5, <1>6, Zenon DEF ClientNext

\* Once a resolver has been at work, resolving stays.
LEMMA ResolvingStays ==
    ASSUME ClientNext, ~resolving'
    PROVE  ~resolving
BY Zenon DEF ClientNext, Tick, CoordinatorStep, SendPrewrite, SendCommitPrimary, SendCommitRest,
    SendRollback, Send, CoordinatorAnswer, Disappear, Read, ReaderAnswer, AskStatus, ResolverAnswer,
    Resolve, Serve, clientVars

\* Every step of clients and scan keeps the invariant.
LEMMA ScanningStep == ScanningInv /\ [ScanningNext]_<<allVars, scan>> => ScanningInv'
<1> SUFFICES ASSUME ScanningInv, [ScanningNext]_<<allVars, scan>> PROVE ScanningInv'
  BY Zenon
<1>1. [ClientNext]_allVars
  BY Zenon DEF ScanningNext, allVars, ScanBegin, ScanStep, ScannerNext, ScanCheckLock, ScanReply
<1>2. ClientInv'
  BY <1>1, NextClientInv, Zenon DEF ScanningInv
<1>3. ASSUME ~resolving' PROVE (ScanInv /\ ScanView)'
  <2>1. CASE ClientNext /\ WatchScan
    <3>1. ASSUME ~resolving PROVE (ScanInv /\ ScanView)'
      <4>1. TwoPhase /\ ClientTypes /\ ScanInv /\ ScanView /\ IInv /\ ScanTyped
        BY <3>1, Zenon DEF ScanningInv, ClientInv, TwoPhase, ScanInv
      <4>2. [Next]_vars
        BY <1>3, <2>1, <4>1, ClientStepFacts, Zenon
      <4> QED
        BY <2>1, <4>1, <4>2, BesideScan, ViewBeside, Zenon
    <3> QED
      BY <1>3, <2>1, <3>1, ResolvingStays, Zenon
  <2>2. CASE \/ /\ (\E version \in ReadTs : ScanBegin(version)) \/ ScanStep \/ ScanReply
                /\ UNCHANGED clientVars
             \/ UNCHANGED <<allVars, scan>>
    <3>1. ~resolving
      BY <1>3, <2>2, Zenon DEF clientVars, allVars
    <3>2. TwoPhase /\ ScanInv /\ ScanView /\ IInv /\ ScanTyped
      BY <3>1, Zenon DEF ScanningInv, ClientInv, TwoPhase, ScanInv
    <3>3. ValuesStand
      BY <3>2, TwoPhaseValues, Zenon
    <3>4. [ScanNext]_<<vars, scan>>
      BY <2>2, Zenon DEF ScanNext, allVars
    <3>5. ScanInv'
      BY <3>2, <3>4, ScanNextInv, Zenon
    <3>6. ScanView'
      BY <2>2, <3>2, <3>3, ViewBegins, ViewStep, ViewBeside, Zenon DEF allVars
    <3> QED
      BY <3>5, <3>6, Zenon
  <2> QED
    BY <2>1, <2>2, Zenon DEF ScanningNext
<1> QED
  BY <1>2, <1>3, Zenon DEF ScanningInv

\* A scan of a store at rest returns what kv_get finds in each key, in order
\* and up to the limit, for any number of keys, transactions and tasks, as long
\* as nobody resolves locks.
THEOREM ScansAgreeWithGets == ScanningSpec => [](~resolving => ScanAgreesWithGet)
<1>1. ClientInit /\ scan = NoScan => ScanningInv
  <2> SUFFICES ASSUME ClientInit, scan = NoScan PROVE ScanningInv
    BY Zenon
  <2>1. scan.pc = "idle"
    BY DEF NoScan
  <2> QED
    BY <2>1, InitClientInv, NoScanInv, Zenon DEF ScanningInv, ScanView
<1>2. ScanningInv => (~resolving => ScanAgreesWithGet)
  BY ViewAgrees, Zenon DEF ScanningInv
<1> QED
  BY <1>1, <1>2, ScanningStep, PTL DEF ScanningSpec
=============================================================================
