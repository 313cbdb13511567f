---------------------------- MODULE RawScanAnswer ----------------------------
(***************************************************************************)
(* What a raw scan answers: the iterator of engine_util/iterator.rs over   *)
(* one RocksDB, the merged iterator of the tiered storage, and raw_scan.   *)
(***************************************************************************)
EXTENDS RawKv, SequencesExt

\* Mutant: the prefix of the column family is not looked at.
RunFromMutant(content, cf, start) == {k \in Keys : content[k] # None /\ k >= start}
\* RocksDBIterator: it stands on the first key at or after start and is valid
\* while the key it stands on has the prefix of the column family.
RunFrom(content, cf, start) ==
  LET all == {k \in Keys : content[k] # None /\ k >= start}
      stop == {k \in all : CFOf[k] # cf}
  IN  {k \in all : \A s \in stop : k < s}

Take(s, n) == SubSeq(s, 1, IF Len(s) < n THEN Len(s) ELSE n)

(* iter_cf: a RocksDBIterator per tier, positioned on the first key of the *)
(* database and valid as long as the key belongs to the column family;     *)
(* MergedIterator takes the least key, the hotter tier first, keeps equal  *)
(* keys, and its seek only drops the first item.  So a tiered scan lacks   *)
(* its first item, ignores the start key, returns a key once per copy, and *)
(* finds nothing of a family that is not the first of a tier.              *)
MergedItems(snaps, cf) ==
  SetToSortSeq({p \in Keys \X (1..3) : p[1] \in RunFrom(snaps[TierOrder[p[2]]], cf, 1)},
               LAMBDA a, b : a[1] < b[1] \/ (a[1] = b[1] /\ a[2] < b[2]))

TieredScan(snaps, cf, limit) ==
  LET items == MergedItems(snaps, cf)
      pairs == [i \in 1..Len(items) |->
                  <<items[i][1], snaps[TierOrder[items[i][2]]][items[i][1]]>>]
  IN  IF pairs = <<>> THEN <<>> ELSE Take(Tail(pairs), limit)

\* raw_scan over one RocksDBIterator, which is moved to the start key.
StandaloneScan(cf, start, limit) ==
  LET ks == SetToSortSeq(RunFrom(db, cf, start), <)
  IN  Take([i \in 1..Len(ks) |-> <<ks[i], db[ks[i]]>>], limit)

Snaps(c) == [hot |-> task[c].snaps[1], warm |-> task[c].snaps[2], cold |-> tiers["cold"]]
ScanAnswer(c) ==
  IF backend = "tiered" THEN TieredScan(Snaps(c), CFOf[task[c].key], Limit)
                        ELSE StandaloneScan(CFOf[task[c].key], task[c].key, Limit)

-----------------------------------------------------------------------------
\* A scan of the standalone storage that reaches its answer returns, in key
\* order and each once, the first Limit stored keys of the column family at or
\* after the start key with their stored values, whatever writes are half done.
ScanIsComplete ==
  \A c \in Clients :
    backend = "standalone" /\ task[c].pc = "scan" =>
      LET ans == ScanAnswer(c)
          start == task[c].key
          all == {k \in Keys : db[k] # None /\ CFOf[k] = CFOf[start] /\ k >= start}
          ks == {ans[i][1] : i \in 1..Len(ans)}
      IN  /\ ks \subseteq all /\ Cardinality(ks) = Len(ans)
          /\ Len(ans) = Limit \/ ks = all
          /\ \A k \in all \ ks, j \in ks : j < k
          /\ \A i \in 1..Len(ans) : /\ ans[i][2] = db[ans[i][1]]
                                    /\ \A j \in 1..(i - 1) : ans[j][1] < ans[i][1]
==============================================================================
