------------------------------ MODULE RegionData ------------------------------
(***************************************************************************)
(* The persistent side of regions: region states and data in one key space *)
(* (raftstore/meta), snapshots made from and applied to a range of it      *)
(* (raftstore/region_task.rs) and the recovery of the regions when a store *)
(* starts (raftstore/recovery.rs).  The keys of the database are numbered  *)
(* in byte order; StateKey and ApplyKey are those of key_with_cf("", ...), *)
(* and DefaultKey[k] is the key set_cf("default", k) writes to.  Start and *)
(* end keys of regions are numbers of the same order, 0 the empty key.     *)
(***************************************************************************)
EXTENDS Naturals, FiniteSets

CONSTANTS RawKeys, StateKey, ApplyKey, DefaultKey, DataKeys, Data,
          Stores, Regions, Start, End,
          Members,        \* the stores with a peer of a region
          Absent,
          MaxOps          \* bound: region and data writes, snapshots and crashes

VARIABLES
  kv,          \* store -> key -> value, Absent if absent
  snapshots,   \* generated snapshots: [region, kvs]
  applying,    \* store -> snapshot whose range has been destroyed, or Absent
  known,       \* store -> regions recovered at the last start
  live,        \* ghost: store -> regions whose state was last written as Normal and
               \* whose own range has not been destroyed since
  ops

dataVars == <<kv, snapshots, applying, known, live, ops>>

States == {"Normal", "Tombstone"}
DataInit ==
  /\ kv = [s \in Stores |-> [k \in RawKeys |-> Absent]]
  /\ snapshots = {} /\ ops = 0
  /\ applying = [s \in Stores |-> Absent]
  /\ known = [s \in Stores |-> {}]
  /\ live = [s \in Stores |-> {}]

Counted == ops < MaxOps /\ ops' = ops + 1

-----------------------------------------------------------------------------
\* write_region_state and write_apply_state of a region, with write_kv.
WriteRegionState(s, r, state) ==
  /\ Counted
  /\ kv' = [kv EXCEPT ![s][StateKey[r]] = state, ![s][ApplyKey[r]] = "applied"]
  /\ live' = [live EXCEPT ![s] = IF state = "Normal" THEN @ \cup {r} ELSE @ \ {r}]
  /\ UNCHANGED <<snapshots, applying, known>>

\* External: the apply loop of a region writes data.
WriteData(s, k, v) ==
  /\ Counted
  /\ kv' = [kv EXCEPT ![s][k] = v]
  /\ UNCHANGED <<snapshots, applying, known, live>>

\* The keys a task visits for a region: raw keys between its start and end key.
\* The test for metadata looks at a first byte below 0x10, which no key has.
Visited(s, r) ==
  {k \in RawKeys : kv[s][k] # Absent /\ k >= Start[r] /\ ~(End[r] # 0 /\ k >= End[r])}

GenSnapshot(s, r) ==
  /\ Counted
  /\ kv[s][StateKey[r]] # Absent
  /\ snapshots' = snapshots \cup {[region |-> r, kvs |-> [k \in Visited(s, r) |-> kv[s][k]]]}
  /\ UNCHANGED <<kv, applying, known, live>>

Destroyed(s, r) == [k \in RawKeys |-> IF k \in Visited(s, r) THEN Absent ELSE kv[s][k]]

\* destroy_range: one write.
DestroyRange(s, r) ==
  /\ kv' = [kv EXCEPT ![s] = Destroyed(s, r)]
  /\ live' = [live EXCEPT ![s] = @ \ {r}]

Destroy(s, r) ==
  /\ Counted /\ applying[s] = Absent
  /\ DestroyRange(s, r)
  /\ UNCHANGED <<snapshots, applying, known>>

\* apply_snapshot: first the range is destroyed ...
ApplyBegin(s, x) ==
  /\ Counted /\ applying[s] = Absent
  /\ DOMAIN x.kvs \subseteq DOMAIN DefaultKey
  /\ DestroyRange(s, x.region)
  /\ applying' = [applying EXCEPT ![s] = x]
  /\ UNCHANGED <<snapshots, known>>

\* ... then its pairs, under default keys, and the region state are written.
ApplyEnd(s) ==
  LET x == applying[s] IN
  /\ x # Absent
  /\ kv' = [kv EXCEPT ![s] = [k \in RawKeys |->
       IF k = StateKey[x.region] THEN "Normal"
       ELSE IF \E j \in DOMAIN x.kvs : DefaultKey[j] = k
            THEN x.kvs[CHOOSE j \in DOMAIN x.kvs : DefaultKey[j] = k]
            ELSE kv[s][k]]]
  /\ live' = [live EXCEPT ![s] = @ \cup {x.region}]
  /\ applying' = [applying EXCEPT ![s] = Absent]
  /\ UNCHANGED <<snapshots, known, ops>>

\* recover_regions: the scan from the first region state key up to the first key
\* that is not metadata, without tombstones and regions of other stores.
RecoverRegions(s) == {r \in Regions : kv[s][StateKey[r]] = "Normal" /\ s \in Members[r]}

\* The process ends, whatever it was doing, and a new one recovers.
StoreRestart(s) ==
  /\ Counted
  /\ applying' = [applying EXCEPT ![s] = Absent]
  /\ known' = [known EXCEPT ![s] = RecoverRegions(s)]
  /\ UNCHANGED <<kv, snapshots, live>>

DataNext ==
  \E s \in Stores :
    \/ \E r \in Regions : \/ \E state \in States : WriteRegionState(s, r, state)
                          \/ GenSnapshot(s, r) \/ Destroy(s, r)
    \/ \E k \in DataKeys, v \in Data : WriteData(s, k, v)
    \/ \E x \in snapshots : ApplyBegin(s, x)
    \/ ApplyEnd(s) \/ StoreRestart(s)

DataSpec == DataInit /\ [][DataNext]_dataVars

-----------------------------------------------------------------------------
\* destroy_range says that it skips metadata keys (region_task.rs:176), so that
\* clearing the range of one region leaves the states of the others: a store
\* recovers every region whose state was last written as Normal.  It does not
\* hold: the keys of region states are not below 0x10, and a range from the empty
\* key takes them along with the data.
RegionSurvives ==
  \A s \in Stores : \A r \in live[s] : s \in Members[r] => r \in RecoverRegions(s)
================================================================================
