------------------------------- MODULE StoreMeta -------------------------------
(***************************************************************************)
(* The regions a store knows (raftstore/store_meta.rs, raftstore/util.rs): *)
(* a map by id and a list of (start_key, id) kept sorted by start key.     *)
(* Keys are numbered in byte order from 1; 0 is the empty key, which as an *)
(* end key means no end.                                                   *)
(***************************************************************************)
EXTENDS Naturals, Sequences, FiniteSets

CONSTANTS NRegionKeys, NoRegion
RegionKeys == 1..NRegionKeys

VARIABLES
  regionOf,    \* regions: id -> Region (id, start, end, ver, conf) or NoRegion
  ranges       \* region_ranges

metaVars == <<regionOf, ranges>>

ExceedEndKey(k, end) == end # 0 /\ k >= end
KeyInRegion(k, g) == ~(g.start # 0 /\ k < g.start) /\ ~ExceedEndKey(k, g.end)

\* set_region, under both write locks: retain drops the pair of the region, if it
\* is in the list ...
Retained(rs, id) ==
  LET at == {i \in DOMAIN rs : rs[i].id = id}
  IN  IF at = {} THEN rs
      ELSE LET gap == CHOOSE i \in at : TRUE
           IN  [j \in 1..(Len(rs) - 1) |-> IF j < gap THEN rs[j] ELSE rs[j + 1]]

\* ... the new pair is pushed at the back, and the stable sort by start key takes it
\* behind the pairs of the sorted list that do not start after it.
SortedRanges(rs, g) ==
  LET kept == Retained(rs, g.id)
      stays(j) == kept[j].start <= g.start
  IN  [j \in 1..(Len(kept) + 1) |->
         IF j <= Len(kept) /\ stays(j) THEN kept[j]
         ELSE IF j = 1 \/ stays(j - 1) THEN [start |-> g.start, id |-> g.id]
         ELSE kept[j - 1]]
SetRegion(g) ==
  /\ regionOf' = [regionOf EXCEPT ![g.id] = g]
  /\ ranges' = SortedRanges(ranges, g)

\* find_region_by_key: the last pair whose start key is not above k decides.
FindRegionByKey(k) ==
  LET below == {i \in DOMAIN ranges : k >= ranges[i].start}
      last == CHOOSE i \in below : \A j \in below : j <= i
  IN  IF below = {} THEN NoRegion
      ELSE LET g == regionOf[ranges[last].id]
           IN  IF g # NoRegion /\ KeyInRegion(k, g) THEN g.id ELSE NoRegion

\* regions_overlap looks at the start keys only; get_overlap_regions.
RegionsOverlap(a, b) == KeyInRegion(a.start, b) \/ KeyInRegion(b.start, a)
GetOverlapRegions(g) ==
  {ranges[i].id : i \in {j \in DOMAIN ranges :
     regionOf[ranges[j].id] # NoRegion /\ RegionsOverlap(g, regionOf[ranges[j].id])}}
================================================================================
