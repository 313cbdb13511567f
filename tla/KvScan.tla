------------------------------- MODULE KvScan -------------------------------
(***************************************************************************)
(* kv_scan of src/src/server/transaction_api.rs and the Scanner of         *)
(* src/src/transaction/mvcc/scanner.rs it drives, beside the handlers.     *)
(*                                                                         *)
(* The iterator over CF_WRITE reads the state of its creation.  Values and *)
(* locks are read when their turn comes, so each is a step of its own, and *)
(* the lock of a key is read after its value.                              *)
(***************************************************************************)
EXTENDS TransactionApi, Sequences

CONSTANTS
    ScanOrder,  \* the keys in byte order
    ScanLimits  \* the limits of scan requests

ASSUME ScanAssumption ==
    /\ ScanOrder \in Seq(Keys)
    /\ {ScanOrder[i] : i \in 1..Len(ScanOrder)} = Keys /\ Len(ScanOrder) = Cardinality(Keys)
    /\ ScanLimits \subseteq Nat

VARIABLE scan   \* the scan in progress

NoScan ==
    [pc |-> "idle", version |-> 0, limit |-> 0, items |-> {}, current_key |-> 0,
     value |-> 0, pairs |-> << >>, from |-> 0, quiet |-> TRUE]

\* The records of CF_WRITE from a key on: the rank of the key, the commit
\* timestamp and the record itself.
WriteItems(first) ==
    {i \in {[key |-> rank, commit_ts |-> ts, record |-> write[ScanOrder[rank]][ts]] :
                rank \in first..Len(ScanOrder), ts \in Timestamps} : i.record # NoWrite}

\* The order of the iterator: user keys ascend, and the timestamps of a key
\* descend.
Before(i, j) == i.key < j.key \/ (i.key = j.key /\ i.commit_ts > j.commit_ts)

\* Scanner::new with the iterator at the start key, and set_limit.  No request
\* sets an end key.
ScannerNew(first, version, limit) ==
    [pc |-> IF limit = 0 THEN "done" ELSE "next", version |-> version, limit |-> limit,
     items |-> WriteItems(first), current_key |-> 0, value |-> 0, pairs |-> << >>,
     from |-> first, quiet |-> TRUE]

ScanBegin(version) ==
    /\ scan.pc = "idle"
    /\ \E first \in 1..Len(ScanOrder), limit \in ScanLimits :
          scan' = ScannerNew(first, version, limit)
    /\ UNCHANGED vars

\* Mutants: records above the version are not skipped; a key whose newest
\* record is a deletion or a rollback is not remembered.
PassedAny(i) == i.key = scan.current_key

\* The records Scanner::next leaves behind without a look at their kind.
Passed(i) ==
    \/ i.key = scan.current_key
    \/ i.commit_ts > scan.version

\* The records that are left when the iterator has moved past i.
Past(i) == {j \in scan.items : Before(i, j)}

\* What Scanner::next does with a record: a Put whose value is there is
\* returned and the iterator stays on it; a Put without a value is passed
\* over; a Delete or a Rollback hides the older records of its key.
OnRecordMutant(i) ==
    IF i.record.kind = "Put" /\ i.record.start_ts \in data[ScanOrder[i.key]]
    THEN [scan EXCEPT !.pc = "lock", !.items = Past(i) \union {i}, !.current_key = i.key,
                      !.value = i.record.start_ts]
    ELSE [scan EXCEPT !.items = Past(i)]
OnRecord(i) ==
    IF i.record.kind # "Put"
    THEN [scan EXCEPT !.items = Past(i), !.current_key = i.key]
    ELSE IF i.record.start_ts \in data[ScanOrder[i.key]]
    THEN [scan EXCEPT !.pc = "lock", !.items = Past(i) \union {i}, !.current_key = i.key,
                      !.value = i.record.start_ts]
    ELSE [scan EXCEPT !.items = Past(i)]

ScannerNext ==
    /\ scan.pc = "next"
    /\ \/ /\ \A i \in scan.items : Passed(i)
          /\ scan' = [scan EXCEPT !.pc = "done"]
       \/ \E i \in scan.items :
             /\ ~Passed(i)
             /\ \A j \in scan.items : Before(j, i) => Passed(j)
             /\ scan' = OnRecord(i)
    /\ UNCHANGED vars

Pair(rank, value, held) ==
    [key |-> rank, value |-> IF held THEN 0 ELSE value, error |-> held]

\* A lock of another transaction, whatever its timestamp, makes the pair an error.
ScanLocked(k) == lock[k] # NoLock /\ lock[k].ts # scan.version

\* kv_scan reads the lock of the returned key with a new reader.
ScanCheckLock ==
    LET pairs == Append(scan.pairs,
                        Pair(scan.current_key, scan.value, ScanLocked(ScanOrder[scan.current_key])))
    IN  /\ scan.pc = "lock"
        /\ scan' = [scan EXCEPT !.pc = IF Len(pairs) = scan.limit THEN "done" ELSE "next",
                                !.pairs = pairs]
        /\ UNCHANGED vars

ScanReply ==
    /\ scan.pc = "done"
    /\ scan' = NoScan
    /\ UNCHANGED vars

ScanStep == ScannerNext \/ ScanCheckLock

\* quiet: the store has not changed since the scan began.
WatchScan ==
    scan' = IF scan.pc = "idle" \/ UNCHANGED store THEN scan ELSE [scan EXCEPT !.quiet = FALSE]

\* Scans beside handlers of any requests.
ScanNext ==
    \/ Next /\ WatchScan
    \/ \E version \in ReadTs : ScanBegin(version)
    \/ ScanStep
    \/ ScanReply

ScanSpec == Init /\ scan = NoScan /\ [][ScanNext]_<<vars, scan>>
-----------------------------------------------------------------------------
(* What kv_get finds in one key, and what a scan should return. *)

Found(rank) ==
    LET k == ScanOrder[rank]
    IN  {c \in most_recent_write(write[k], scan.version) : write[k][c].kind = "Put"}

\* The pair of a key kv_get would look for a value in: that value, or the lock
\* that stands in its way.
Wanted(p) ==
    LET k == ScanOrder[p.key]
    IN  /\ p.key >= scan.from
        /\ \E c \in Found(p.key) : p = Pair(p.key, write[k][c].start_ts, ScanLocked(k))

\* A scan of a store at rest returns the keys in which kv_get would look for a
\* value: in key order, from the start key on, as many as the limit allows,
\* each once, with the value kv_get finds or the lock that stands in its way.
ScanAgreesWithGet ==
    (scan.pc = "done" /\ scan.quiet) =>
        /\ Len(scan.pairs) <= scan.limit
        /\ \A n \in DOMAIN scan.pairs :
              /\ Wanted(scan.pairs[n])
              /\ \A m \in 1..(n - 1) : scan.pairs[m].key < scan.pairs[n].key
        /\ \A rank \in scan.from..Len(ScanOrder) :
              Found(rank) # {} =>
                  \/ \E n \in DOMAIN scan.pairs : scan.pairs[n].key = rank
                  \/ /\ Len(scan.pairs) = scan.limit
                     /\ \A n \in DOMAIN scan.pairs : scan.pairs[n].key < rank

\* Whatever runs beside it, a scan returns each key once, in order, and only
\* values that are committed at or below its version.
ScanReadsCommitted ==
    \A n \in DOMAIN scan.pairs :
        LET p == scan.pairs[n]
        IN  /\ \A m \in 1..(n - 1) : scan.pairs[m].key < p.key
            /\ ~p.error => \E c \in Timestamps :
                  c <= scan.version /\ write[ScanOrder[p.key]][c] = Write(p.value, "Put")
=============================================================================
