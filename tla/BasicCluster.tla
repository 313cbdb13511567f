----------------------------- MODULE BasicCluster -----------------------------
(***************************************************************************)
(* PD's picture of the cluster (scheduler/cluster): the stores with their  *)
(* statistics, the last reported region of every region id, and the two    *)
(* indexes from stores to regions.  put_region is split where the code     *)
(* releases its locks; its callers are the heartbeat handlers of Pd.       *)
(***************************************************************************)
EXTENDS Naturals, FiniteSets, Sequences

CONSTANTS StoreSet, RegionSet, Nil,
          PeerIds,         \* ids peers may have
          RegionSize       \* approximate_size of a region

VARIABLES
  stores,         \* stores: Nil or the statistics of a StoreInfo
  regions,        \* regions: Nil or the last RegionInfo put: the peer id on every store
                  \* that has one, the leader's store, those of pending peers, conf_ver
  storeRegions,   \* store_regions
  storeLeaders    \* store_leaders

clusterVars == <<stores, regions, storeRegions, storeLeaders>>

\* get_store_ids
StoreIds(v) == DOMAIN v.peers

\* RegionInfo.
PeerMaps == UNION {[S -> PeerIds] : S \in SUBSET StoreSet}
Views == [peers : PeerMaps, leader : StoreSet, pending : SUBSET StoreSet, conf : Nat]

NewStore == [rc |-> 0, lc |-> 0, size |-> 0, heard |-> TRUE]

ClusterInit(first) ==
  /\ stores = [s \in StoreSet |-> IF s \in first THEN NewStore ELSE Nil]
  /\ regions = [r \in RegionSet |-> Nil]
  /\ storeRegions = [s \in StoreSet |-> {}]
  /\ storeLeaders = [s \in StoreSet |-> {}]

\* put_store with StoreInfo::new: the statistics start from nothing.
PutStore(s) ==
  /\ stores' = [stores EXCEPT ![s] = NewStore]
  /\ UNCHANGED <<regions, storeRegions, storeLeaders>>

\* put_region, second section: forget the mappings of the region read before.
Unindex(r, old) ==
  /\ storeRegions' = [s \in StoreSet |-> IF s \in StoreIds(old) THEN storeRegions[s] \ {r}
                                       ELSE storeRegions[s]]
  /\ storeLeaders' = [storeLeaders EXCEPT ![old.leader] = @ \ {r}]
  /\ UNCHANGED <<stores, regions>>

\* put_region, third section: the new region and its mappings.
IndexMutant(r, new) ==
  /\ regions' = [regions EXCEPT ![r] = new]
  /\ storeRegions' = [s \in StoreSet |-> IF s \in StoreIds(new) THEN storeRegions[s] \cup {r}
                                       ELSE storeRegions[s]]
  /\ storeLeaders' = [s \in StoreSet |-> IF s \in StoreIds(new) THEN storeLeaders[s] \cup {r}
                                       ELSE storeLeaders[s]]
  /\ UNCHANGED stores
Index(r, new) ==
  /\ regions' = [regions EXCEPT ![r] = new]
  /\ storeRegions' = [s \in StoreSet |-> IF s \in StoreIds(new) THEN storeRegions[s] \cup {r}
                                       ELSE storeRegions[s]]
  /\ storeLeaders' = [storeLeaders EXCEPT ![new.leader] = @ \cup {r}]
  /\ UNCHANGED stores

\* update_store_stats: every known store is recounted from the regions.
On(s) == {r \in RegionSet : regions[r] # Nil /\ s \in StoreIds(regions[r])}
LedBy(s) == {r \in RegionSet : regions[r] # Nil /\ regions[r].leader = s}
Recount ==
  /\ stores' = [s \in StoreSet |->
       IF stores[s] = Nil THEN Nil
       ELSE [stores[s] EXCEPT !.rc = Cardinality(On(s)), !.lc = Cardinality(LedBy(s)),
                              !.size = RegionSize * Cardinality(On(s))]]
  /\ UNCHANGED <<regions, storeRegions, storeLeaders>>

\* The regions rand_pending_region, rand_follower_region and rand_leader_region
\* draw from.
Healthy(r) == regions[r].pending = {}
Known(R) == {r \in R : regions[r] # Nil}
PendingRegions(s) == {r \in Known(storeRegions[s]) : ~Healthy(r)}
FollowerRegions(s) == {r \in Known(storeRegions[s]) : regions[r].leader # s /\ Healthy(r)}
LeaderRegions(s) == {r \in Known(storeLeaders[s]) : Healthy(r)}
==============================================================================
