------------------------------- MODULE MCStore -------------------------------
(***************************************************************************)
(* One instance for the parts of a store that do not share state: the raw  *)
(* key-value API over its storages (raw), region splits (splits), the key  *)
(* encodings (codec), and the placement driver with the processes of the   *)
(* stores that report to it (pd).  A behaviour is one of a single part;    *)
(* the others rest.                                                        *)
(***************************************************************************)
EXTENDS MCRawKv, Splits, KeyCodec, Pd

VARIABLE part

(* Splits: three keys, two column families, pairs below and above  *)
(* the limits in every distribution.                                        *)
MCNewIds == <<2, 3, 4>>
\* The keys are bytes that are not UTF-8, one below and two above the text EF BF BD
\* that stands for them.
MCSeekPosition == <<2, 2, 2>>
MCSplitCFs == <<"default", "lock">>
MCNoSizes == [cf \in {"default", "lock"} |-> [k \in 1..3 |-> 0]]
MCSplitContents ==
  {[cf \in {"default", "lock"} |-> IF cf = "default" THEN f ELSE g] :
     f \in [1..3 -> {0, 1, 3}], g \in {h \in [1..3 -> {0, 3}] : h[3] = 0}}

(* PD: one region on three stores or on one; two streams, which the        *)
(* processes of s1 and s2 open, or two processes of the same store.        *)
CONSTANTS s1, s2, s3, p1, p2

MCReports == {[rc |-> 2, lc |-> 2, size |-> 3]}
MCFirstViews == {[r \in RegionSet |-> [peers |-> [s \in S |-> p1], leader |-> s1,
                                    pending |-> {}, conf |-> 0]] : S \in {StoreSet, {s1}}}
\* A change, a new leader or a report of statistics with the heartbeats, or a
\* process that starts again.
MCBudget(c, t, r, b, e) == [changes |-> c, terms |-> t, reports |-> r, beats |-> b, restarts |-> e]
MCBudgets == {MCBudget(1, 0, 0, 2, 0), MCBudget(0, 1, 0, 2, 0), MCBudget(0, 0, 1, 2, 0),
              MCBudget(1, 0, 1, 1, 0), MCBudget(0, 0, 0, 2, 1)}

MCSymmetry == Permutations(Clients) \cup Permutations(Conns)

storeVars == <<vars, splitVars, sample, pdVars, part>>

AtRest == [one |-> << >>, two |-> << >>, t |-> 0, u |-> 0]

StoreInit ==
  /\ part \in {"raw", "splits", "codec", "pd"}
  /\ PdInit /\ (part # "pd" => budget.restarts = 1 /\ \A r \in RegionSet : StoreIds(truth[r]) = {s1})
  /\ Init /\ (part # "raw" => backend = "tiered" /\ \A k \in Keys : tiers["cold"][k] = None)
  /\ SplitsInit /\ (part # "splits" => sizes = MCNoSizes)
  /\ IF part = "codec" THEN CodecInit ELSE sample = AtRest

StoreNext ==
  \/ part = "raw" /\ Next /\ UNCHANGED <<splitVars, sample, pdVars, part>>
  \/ part = "splits" /\ SplitsNext /\ UNCHANGED <<vars, sample, pdVars, part>>
  \/ part = "pd" /\ PdNext /\ UNCHANGED <<vars, splitVars, sample, part>>

StoreSpec == StoreInit /\ [][StoreNext]_storeVars
==============================================================================
