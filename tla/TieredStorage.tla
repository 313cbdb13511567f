---------------------------- MODULE TieredStorage ----------------------------
(***************************************************************************)
(* storage/tiered_storage.rs: three RocksDB instances, the access counters *)
(* and the background mover (rebalance_once), one step per database call   *)
(* or lock acquisition.  Readers and writers are the tasks of RawKv.       *)
(***************************************************************************)
EXTENDS Engine

CONSTANTS Promote, Demote, Hysteresis, \* promote_threshold, demote_threshold, hysteresis
          MaxCount,                    \* bound: access counters saturate here
          MaxMove                      \* MAX_MOVE_PER_ROUND

ASSUME TieredAssumption == MaxMove \in Nat \ {0} /\ MaxCount \in Nat

VARIABLES
  tiers,    \* content of hot, warm and cold; survives a crash
  access,   \* access: reads and writes of a key in the current window
  mover     \* the rebalance round in progress

tieredVars == <<tiers, access, mover>>

TierOrder == <<"hot", "warm", "cold">>
Tiers == Range(TierOrder)
Idle == [pc |-> "idle", tier |-> 1, snap |-> NoKeys, at |-> 1, target |-> "hot", moved |-> 0]

TieredInit(stored) ==
  /\ tiers = stored
  /\ access = [k \in Keys |-> 0]
  /\ mover = Idle

\* bump_access, and the counting of a hit in TieredReader::get_cf.
Bumped(acc, k) == [acc EXCEPT ![k] = IF @ < MaxCount THEN @ + 1 ELSE @]

DecideTarget(current, cnt) ==
  CASE current = "hot"  -> IF cnt + Hysteresis <= Demote THEN "warm" ELSE "hot"
    [] current = "cold" -> IF cnt >= Promote + Hysteresis THEN "warm" ELSE "cold"
    [] current = "warm" -> IF cnt >= Promote THEN "hot"
                           ELSE IF cnt <= Demote THEN "cold" ELSE "warm"

-----------------------------------------------------------------------------
(* rebalance_once *)
CurrentTier == TierOrder[mover.tier]
Rest == {k \in Keys : k >= mover.at /\ mover.snap[k] # None}
Least(S) == CHOOSE x \in S : \A y \in S : x <= y

MoverStart ==
  /\ mover.pc = "idle"
  /\ mover' = [Idle EXCEPT !.pc = "open"]
  /\ UNCHANGED <<tiers, access>>

\* db.iterator(Start) reads a snapshot of the tier taken here.
MoverOpen ==
  /\ mover.pc = "open"
  /\ mover' = [mover EXCEPT !.pc = "scan", !.snap = tiers[CurrentTier], !.at = 1]
  /\ UNCHANGED <<tiers, access>>

\* The count of the next key decides whether it stays.
MoverScan ==
  /\ mover.pc = "scan"
  /\ IF Rest = {} \/ mover.moved >= MaxMove
     THEN mover' = IF mover.tier = 3 \/ mover.moved >= MaxMove
                   THEN [mover EXCEPT !.pc = "clear"]
                   ELSE [mover EXCEPT !.pc = "open", !.tier = @ + 1]
     ELSE LET k == Least(Rest)
              t == DecideTarget(CurrentTier, access[k])
          IN  mover' = IF t = CurrentTier THEN [mover EXCEPT !.at = k + 1]
                       ELSE [mover EXCEPT !.pc = "put", !.at = k, !.target = t]
  /\ UNCHANGED <<tiers, access>>

MoverPutMutant ==
  /\ mover.pc = "put"
  /\ tiers' = [tiers EXCEPT ![CurrentTier][mover.at] = None]
  /\ mover' = [mover EXCEPT !.pc = "delete"]
  /\ UNCHANGED access
MoverPut ==
  /\ mover.pc = "put"
  /\ tiers' = [tiers EXCEPT ![mover.target][mover.at] = mover.snap[mover.at]]
  /\ mover' = [mover EXCEPT !.pc = "delete"]
  /\ UNCHANGED access

MoverDelete ==
  /\ mover.pc = "delete"
  /\ tiers' = [tiers EXCEPT ![CurrentTier][mover.at] = None]
  /\ mover' = [mover EXCEPT !.pc = "scan", !.at = @ + 1, !.moved = @ + 1]
  /\ UNCHANGED access

\* `?` on the put or the delete ends the round without clearing the counters.
MoverFail ==
  /\ mover.pc \in {"put", "delete"}
  /\ mover' = Idle
  /\ UNCHANGED <<tiers, access>>

MoverClear ==
  /\ mover.pc = "clear"
  /\ access' = [k \in Keys |-> 0]
  /\ mover' = Idle
  /\ UNCHANGED tiers

MoverStep == MoverOpen \/ MoverScan \/ MoverPut \/ MoverDelete \/ MoverClear
==============================================================================
