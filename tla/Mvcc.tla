-------------------------------- MODULE Mvcc --------------------------------
(***************************************************************************)
(* The column families of the transactional store and the searches of      *)
(* src/src/transaction/mvcc/transaction.rs over them.                      *)
(*                                                                         *)
(* CF_LOCK    lock[k]      the lock on k, or NoLock                        *)
(* CF_WRITE   write[k][c]  the record stored under (k, c), or NoWrite      *)
(* CF_DEFAULT data[k]      the start timestamps s for which a value is     *)
(*                         stored under (k, s)                             *)
(*                                                                         *)
(* A transaction is named by its start timestamp, and the value it writes  *)
(* to a key is a function of the two, so the presence of (k, s) in         *)
(* CF_DEFAULT says everything about that value.  The primary and the TTL   *)
(* of a lock are those of its transaction.                                 *)
(***************************************************************************)
EXTENDS Naturals, FiniteSets

NoLock == [ts |-> 0, kind |-> "None"]

NoWrite == [start_ts |-> 0, kind |-> "None"]

Lock(ts, kind) == [ts |-> ts, kind |-> kind]

Write(start_ts, kind) == [start_ts |-> start_ts, kind |-> kind]

\* Mutant: records above ts are seen as well.
VisibleAny(records, ts) == {c \in DOMAIN records : records[c] # NoWrite}

\* Commit timestamps of the records a search of one key at ts passes over.
Visible(records, ts) == {c \in DOMAIN records : records[c] # NoWrite /\ c <= ts}

\* The commit timestamp of the newest record at or below ts: a set with one
\* element, or the empty set for (None, 0).
most_recent_write(records, ts) ==
    {c \in Visible(records, ts) : \A d \in Visible(records, ts) : d <= c}

\* The first record at or below ts, if it is stored under ts itself.
current_write(records, ts) == {c \in most_recent_write(records, ts) : c = ts}

\* A record that makes a transaction's write visible.
IsCommit(record) == record.kind \in {"Put", "Delete"}
=============================================================================
