------------------------------ MODULE Schedulers ------------------------------
(***************************************************************************)
(* The operators the three schedulers propose for the current picture of   *)
(* the cluster (scheduler/schedulers, scheduler/filter, scheduler/operator).*)
(* A proposal is nondeterministic where the code draws a random region,    *)
(* iterates over a hash map, breaks a tie or draws a random peer id.  The   *)
(* reads of one proposal are taken as one: its region is read only once.   *)
(***************************************************************************)
EXTENDS BasicCluster

CONSTANTS MinPeers, MaxPeers    \* min_peer_count, max_peer_count of ScaleScheduler

AddPeer(s, id) == [type |-> "AddPeer", store |-> s, id |-> id]
RemovePeer(s) == [type |-> "RemovePeer", store |-> s]
TransferLeader(s) == [type |-> "TransferLeader", store |-> s]

\* OpStep and Operator.
StepT == [type : {"AddPeer"}, store : StoreSet, id : PeerIds]
           \cup [type : {"RemovePeer", "TransferLeader"}, store : StoreSet]
OperatorT == [region : RegionSet, kind : {"add", "remove", "leader", "move"}, steps : Seq(StepT),
              cur : Nat, conf : Nat, old : BOOLEAN]

Has(v, step) == step.store \in StoreIds(v) /\ v.peers[step.store] = step.id

\* OpStep::is_finish and OpStep::conf_ver_changed on a region view.
StepDone(step, v) ==
  CASE step.type = "AddPeer"        -> Has(v, step) /\ step.store \notin v.pending
    [] step.type = "RemovePeer"     -> step.store \notin StoreIds(v)
    [] step.type = "TransferLeader" -> v.leader = step.store

ConfVerChanged(step, v) ==
  CASE step.type = "AddPeer"        -> Has(v, step)
    [] step.type = "RemovePeer"     -> step.store \notin StoreIds(v)
    [] step.type = "TransferLeader" -> FALSE

\* Operator::new; old tells that is_timeout would answer true.
NewOperator(r, kind, steps) ==
  [region |-> r, kind |-> kind, steps |-> steps, cur |-> 1, conf |-> regions[r].conf,
   old |-> FALSE]

AddOperator(r, t, id) == NewOperator(r, "add", <<AddPeer(t, id)>>)
RemoveOperator(r, s) == NewOperator(r, "remove", <<RemovePeer(s)>>)
LeaderOperator(r, t) == NewOperator(r, "leader", <<TransferLeader(t)>>)
MoveOperator(r, s, t, id) ==
  NewOperator(r, "move", IF regions[r].leader = s
                         THEN <<AddPeer(t, id), TransferLeader(t), RemovePeer(s)>>
                         ELSE <<AddPeer(t, id), RemovePeer(s)>>)

Registered == {s \in StoreSet : stores[s] # Nil}
\* StoreStateFilter: stores heard of within max_down_time.
Usable == {s \in Registered : stores[s].heard}

Heavier(a, b) == \/ stores[a].rc > stores[b].rc
                 \/ stores[a].rc = stores[b].rc /\ stores[a].size > stores[b].size

\* ScaleScheduler: a region with too few peers gets one on the least loaded
\* store outside it ...
ScaleUp ==
  UNION {LET free == Usable \ StoreIds(regions[r])
         IN  {AddOperator(r, t, id) : t \in {x \in free : ~\E y \in free : Heavier(x, y)},
                                   id \in PeerIds} :
         r \in {x \in Known(RegionSet) : Cardinality(StoreIds(regions[x])) < MinPeers}}

\* ... and, when no region can grow, one with too many loses the follower on the
\* most loaded store.  A store PD does not know compares as equal to all, so with
\* one among them the sort may leave any follower in front.
ScaleDown ==
  UNION {LET followers == StoreIds(regions[r]) \ {regions[r].leader}
             first == {x \in followers : followers \subseteq Registered =>
                                           ~\E y \in followers : Heavier(y, x)}
         IN  {RemoveOperator(r, s) : s \in first} :
         r \in {x \in Known(RegionSet) : /\ Cardinality(StoreIds(regions[x])) > MaxPeers
                                       /\ Cardinality(StoreIds(regions[x])) > MinPeers}}

ScaleProposals ==
  IF Cardinality(Registered) < MinPeers THEN {}
  ELSE IF ScaleUp # {} THEN ScaleUp ELSE ScaleDown

\* BalanceRegionScheduler: a region drawn at random, pending ones before those the
\* source follows and those it leads, goes to the least loaded target that stays
\* smaller than the source.  A draw may miss in every retry unless every region of
\* its kind has a target; then the next kind, or the next source, is tried.
MoveTargets(r, s) ==
  {t \in Usable \ StoreIds(regions[r]) : stores[s].size > stores[t].size + 2 * RegionSize}
Sure(R, s) == R # {} /\ \A r \in R : MoveTargets(r, s) # {}
Drawn(s) ==
  PendingRegions(s) \cup
    IF Sure(PendingRegions(s), s) THEN {}
    ELSE FollowerRegions(s) \cup (IF Sure(FollowerRegions(s), s) THEN {} ELSE LeaderRegions(s))
MovesFrom(s) ==
  UNION {{MoveOperator(r, s, t, id) :
            t \in {x \in MoveTargets(r, s) : ~\E y \in MoveTargets(r, s) : Heavier(x, y)},
            id \in PeerIds} : r \in Drawn(s)}
BalanceRegionProposals ==
  UNION {MovesFrom(s) : s \in {x \in Usable : ~\E y \in Usable :
    /\ Heavier(y, x)
    /\ \E R \in {PendingRegions(y), FollowerRegions(y), LeaderRegions(y)} : Sure(R, y)}}

\* BalanceLeaderScheduler: a leader moves to a follower's store that leads at
\* least two regions fewer.
TransferTargets(r, s) ==
  {t \in Usable \cap (StoreIds(regions[r]) \ {regions[r].leader}) : stores[s].lc >= stores[t].lc + 2}
TransfersFrom(s) ==
  UNION {{LeaderOperator(r, t) : t \in {x \in TransferTargets(r, s) :
            ~\E y \in TransferTargets(r, s) : stores[y].lc < stores[x].lc}} : r \in LeaderRegions(s)}
BalanceLeaderProposals ==
  UNION {TransfersFrom(s) : s \in {x \in Usable : ~\E y \in Usable :
    /\ stores[y].lc > stores[x].lc
    /\ LeaderRegions(y) # {} /\ \A r \in LeaderRegions(y) : TransferTargets(r, y) # {}}}

Proposals(scheduler) ==
  CASE scheduler = "scale"          -> ScaleProposals
    [] scheduler = "balance-region" -> BalanceRegionProposals
    [] scheduler = "balance-leader" -> BalanceLeaderProposals
==============================================================================
