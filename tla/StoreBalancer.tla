---------------------------- MODULE StoreBalancer ----------------------------
(***************************************************************************)
(* The store loads of raftstore/store_balancer.rs and the placement of new *)
(* peers by raftstore/region_allocator.rs.  Time is abstracted to whether  *)
(* a load is older than max_load_age; hash maps are read in any order.     *)
(***************************************************************************)
EXTENDS Naturals, Sequences, FiniteSets, Functions

CONSTANTS LoadStores, Absent,
          Counts, Sizes,          \* region_count and region_size of a load
          CountWeight,            \* load_score: what a region weighs in units of size
          ReplicationFactor

Loads == [count : Nat, size : Nat, fresh : BOOLEAN, up : BOOLEAN]

ASSUME BalancerAssumption ==
  /\ IsFiniteSet(LoadStores) /\ Counts \subseteq Nat /\ Sizes \subseteq Nat
  /\ ReplicationFactor \in Nat /\ Absent \notin Loads

VARIABLES loads,      \* loads: the StoreLoad of a store, or Absent
          placed,     \* the stores of the last allocation, in order
          isDown,     \* ghost: stores set down since their load was created
          taken       \* ghost: the stores the last step chose, if it chose any

balancerVars == <<loads, placed, isDown, taken>>

NewLoad == [count |-> 0, size |-> 0, fresh |-> TRUE, up |-> TRUE]
LoadScore(s) == loads[s].count * CountWeight + loads[s].size

BalancerInit == loads = [s \in LoadStores |-> Absent] /\ placed = << >> /\ isDown = {} /\ taken = {}

UpdateStoreLoadMutant(s, count, size) ==
  /\ loads' = [loads EXCEPT ![s] = [NewLoad EXCEPT !.count = count, !.size = size]]
  /\ taken' = {} /\ UNCHANGED <<placed, isDown>>
UpdateStoreLoad(s, count, size) ==
  /\ loads' = [loads EXCEPT ![s] =
       [(IF @ = Absent THEN NewLoad ELSE @) EXCEPT !.count = count, !.size = size, !.fresh = TRUE]]
  /\ taken' = {} /\ UNCHANGED <<placed, isDown>>

\* update_from_store_heartbeat knows no size and sets it to zero.
UpdateFromStoreHeartbeat(s, count) == UpdateStoreLoad(s, count, 0)

SetStoreState(s, up) ==
  /\ loads[s] # Absent
  /\ loads' = [loads EXCEPT ![s].up = up]
  /\ isDown' = IF up THEN isDown \ {s} ELSE isDown \cup {s}
  /\ taken' = {} /\ UNCHANGED placed

LoadAges(s) ==
  /\ loads[s] # Absent /\ loads[s].fresh
  /\ loads' = [loads EXCEPT ![s].fresh = FALSE]
  /\ taken' = {} /\ UNCHANGED <<placed, isDown>>

\* cleanup_stale_loads forgets that a store was down along with its load.
Stale == {s \in LoadStores : loads[s] # Absent /\ ~loads[s].fresh}
CleanupStaleLoads ==
  /\ Stale # {}
  /\ loads' = [s \in LoadStores |-> IF s \in Stale THEN Absent ELSE loads[s]]
  /\ isDown' = isDown \ Stale
  /\ taken' = {} /\ UNCHANGED placed

\* get_available_stores: up and not stale, by load score, equal ones in any order.
Available == {s \in LoadStores : loads[s] # Absent /\ loads[s].up /\ loads[s].fresh}
Sorted(q) == \A i, j \in DOMAIN q : i < j => LoadScore(q[i]) <= LoadScore(q[j])
GetAvailableStores == {q \in Injection(1..Cardinality(Available), Available) : Sorted(q)}

\* allocate_stores, or its error when there are too few.
AllocateStores ==
  /\ Cardinality(Available) >= ReplicationFactor
  /\ \E q \in GetAvailableStores : placed' = SubSeq(q, 1, ReplicationFactor)
  /\ taken' = Range(placed')
  /\ UNCHANGED <<loads, isDown>>

\* select_single_store: the first one that is not excluded joins the others.
SelectSingleStore ==
  /\ Len(placed) = ReplicationFactor
  /\ \E q \in GetAvailableStores : \E i \in DOMAIN q :
       /\ q[i] \notin Range(placed) /\ \A j \in 1..(i - 1) : q[j] \in Range(placed)
       /\ placed' = Append(placed, q[i]) /\ taken' = {q[i]}
  /\ UNCHANGED <<loads, isDown>>

BalancerNext ==
  \/ \E s \in LoadStores : \/ \E n \in Counts : \/ UpdateFromStoreHeartbeat(s, n)
                                                \/ \E z \in Sizes : UpdateStoreLoad(s, n, z)
                           \/ \E up \in BOOLEAN : SetStoreState(s, up)
                           \/ LoadAges(s)
  \/ CleanupStaleLoads \/ AllocateStores \/ SelectSingleStore

BalancerSpec == BalancerInit /\ [][BalancerNext]_balancerVars

-----------------------------------------------------------------------------
\* No allocation takes a store that was set down before it is set up again or its
\* load has been cleaned up: updates of its load do not bring it back.
DownStoreGetsNothing == taken \cap isDown = {}
==============================================================================
