------------------------------- MODULE MCRaft -------------------------------
(***************************************************************************)
(* Three nodes in one of two scenarios, one peer and its disk, or, beside  *)
(* Raft, the latches of the transactions: a behaviour is one of a single   *)
(* scenario and the others rest.  Each bound on the nodes is a set of      *)
(* pairs: which node may start which election, propose at which log        *)
(* length, beat at which commit index.                                     *)
(*                                                                         *)
(* replication  one leader, a proposal behind its first entry, a heartbeat *)
(*              at commit 1, restarts of a follower                        *)
(* failover     a second leader takes over and may commit its first entry  *)
(* peer         the Ready cycle of RawNode, with crashes                   *)
(* latches      three commands on two keys (MCLatches)                     *)
(*                                                                         *)
(* Node n1 is elected with the vote of n2: its request to n3 gets lost.     *)
(***************************************************************************)
EXTENDS Raft, RawNode, MCLatches

CONSTANTS n1, n2, n3

MCNode == {n1, n2, n3}
MCElections == {<<n1, 1>>, <<n2, 2>>}
MCProposals == {<<n1, 1>>}
MCHeartbeats == {<<n1, 1>>, <<n2, 1>>}

VARIABLE scenario

ScenarioInit ==
    /\ Init /\ PeerInit /\ LatchesInit
    /\ scenario \in {"replication", "failover", "peer", "latches"}

Replication == scenario = "replication"

Lost(m) == m.type = "RequestVote" /\ m.from = n1 /\ m.to = n3

NodesNext ==
    \/ \E n \in Node : (Replication => n = n1) /\ Hup(n)
    \/ Beat(IF Replication THEN n1 ELSE n2)
    \/ Replication /\ \E n \in Node : Propose(n) \/ Restart(n)
    \/ \E m \in msgs : ~Lost(m) /\ Receive(m)

ScenarioNext ==
    \/ /\ scenario \in {"replication", "failover"} /\ NodesNext
       /\ UNCHANGED <<peerVars, latchVars, scenario>>
    \/ scenario = "peer" /\ PeerNext /\ UNCHANGED <<vars, latchVars, scenario>>
    \/ scenario = "latches" /\ LatchesNext /\ UNCHANGED <<vars, peerVars, scenario>>

ScenarioSpec == ScenarioInit /\ [][ScenarioNext]_<<vars, peerVars, latchVars, scenario>>
=============================================================================
