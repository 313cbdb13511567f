--------------------------- MODULE FailureDetector ---------------------------
(***************************************************************************)
(* FailureDetector and LeaderSwitchManager of raftstore/failure_detector.rs.*)
(* Heartbeats, recorded failures, the detection loop, callers of           *)
(* check_all_nodes, the leader monitor and callers of                      *)
(* check_and_switch_leader run concurrently; every RwLock critical section *)
(* is one step.  Time is abstracted to whether the last heartbeat is older *)
(* than heartbeat_timeout.                                                 *)
(***************************************************************************)
EXTENDS Naturals, FiniteSets

CONSTANTS Nodes, Regions, None,
          FailureThreshold,   \* failure_threshold
          MaxBeats,           \* bound: (re)registrations and heartbeats per node
          MaxFailures,        \* bound: failures recorded between two heartbeats
          MaxSwitches         \* bound: set_leader calls per region

ASSUME FDAssumption ==
  /\ FailureThreshold \in Nat /\ MaxBeats \in Nat /\ MaxFailures \in Nat
  /\ MaxSwitches \in Nat /\ None \notin Nodes

VARIABLES
  nodes,      \* nodes: the NodeHealth of every registered node, None otherwise
  failed,     \* the detection loop's failed_nodes, not yet passed to on_failure
  leaders,    \* region_leaders
  switcher,   \* a call of check_and_switch_leader per region, None when absent
  monitor,    \* failed_nodes read by the leader monitor, None between rounds
  beats,      \* ghost: outage number of a node, one more at each heartbeat
  reports,    \* ghost: on_failure calls and check_all_nodes results per outage
  alarms,     \* the on_leader_failure calls of the monitor's last round
  switches    \* set_leader calls per region (bound)

vars == <<nodes, failed, leaders, switcher, monitor, beats, reports, alarms, switches>>

Statuses == {"Healthy", "Suspect", "Failed"}
Health == [status : Statuses, heard : {"never", "recent", "old"}, failures : 0..MaxFailures]
Outages == Nodes \X (0..MaxBeats)

TypeOK ==
  /\ nodes \in [Nodes -> Health \cup {None}]
  /\ failed \subseteq Outages
  /\ leaders \in [Regions -> Nodes \cup {None}]
  /\ switcher \in [Regions -> [leader : Nodes, bad : BOOLEAN] \cup {None}]
  /\ monitor \in (SUBSET Nodes) \cup {None}
  /\ beats \in [Nodes -> 0..MaxBeats]
  /\ reports \in [Outages -> 0..2]
  /\ alarms \subseteq Regions \X Nodes
  /\ switches \in [Regions -> 0..MaxSwitches]

NewHealth == [status |-> "Healthy", heard |-> "never", failures |-> 0]
Beaten(h) == [status |-> "Healthy", heard |-> "recent", failures |-> 0]
Strike(h) == [h EXCEPT !.failures = @ + 1]

\* check_health: never heard of counts as an hour of silence.
TimedOut(h) == h.heard # "recent"
CheckHealthMutant(h) ==
  IF ~TimedOut(h) THEN h
  ELSE IF h.failures = FailureThreshold THEN [h EXCEPT !.status = "Failed"]
  ELSE IF h.status = "Healthy" THEN [h EXCEPT !.status = "Suspect"] ELSE h
CheckHealth(h) ==
  IF ~TimedOut(h) THEN h
  ELSE IF h.failures >= FailureThreshold THEN [h EXCEPT !.status = "Failed"]
  ELSE IF h.status = "Healthy" THEN [h EXCEPT !.status = "Suspect"] ELSE h

\* What check_health answers: true when this very call makes the node Failed.
TurnsFailedMutant(h) == CheckHealth(h).status = "Failed"
TurnsFailed(h) == CheckHealth(h).status = "Failed" /\ h.status # "Failed"

Registered == {n \in Nodes : nodes[n] # None}
FailedNodes == {n \in Registered : nodes[n].status = "Failed"}

Init ==
  /\ nodes = [n \in Nodes |-> None]
  /\ failed = {}
  /\ leaders = [r \in Regions |-> None]
  /\ switcher = [r \in Regions |-> None]
  /\ monitor = None
  /\ beats = [n \in Nodes |-> 0]
  /\ reports = [o \in Outages |-> 0]
  /\ alarms = {}
  /\ switches = [r \in Regions |-> 0]

LeaderSide == <<leaders, switcher, monitor, alarms, switches>>

\* A heartbeat or a registration begins a new outage number for the node.
Fresh(n, h) ==
  /\ beats[n] < MaxBeats
  /\ beats' = [beats EXCEPT ![n] = @ + 1]
  /\ nodes' = [nodes EXCEPT ![n] = h]

RegisterNode(n) == Fresh(n, NewHealth) /\ UNCHANGED <<failed, reports, LeaderSide>>

\* An unknown node is registered by its first heartbeat.
UpdateHeartbeat(n) ==
  /\ Fresh(n, Beaten(IF nodes[n] = None THEN NewHealth ELSE nodes[n]))
  /\ UNCHANGED <<failed, reports, LeaderSide>>

RecordFailure(n) ==
  /\ n \in Registered /\ nodes[n].failures < MaxFailures
  /\ nodes' = [nodes EXCEPT ![n] = Strike(@)]
  /\ UNCHANGED <<failed, beats, reports, LeaderSide>>

RemoveNode(n) ==
  /\ n \in Registered
  /\ nodes' = [nodes EXCEPT ![n] = None]
  /\ UNCHANGED <<failed, beats, reports, LeaderSide>>

\* heartbeat_timeout elapses since the last heartbeat of n.
Silence(n) ==
  /\ n \in Registered /\ nodes[n].heard = "recent"
  /\ nodes' = [nodes EXCEPT ![n].heard = "old"]
  /\ UNCHANGED <<failed, beats, reports, LeaderSide>>

Checked == [n \in Nodes |-> IF n \in Registered THEN CheckHealth(nodes[n]) ELSE None]
NewlyFailed == {<<n, beats[n]>> : n \in {m \in Registered : TurnsFailed(nodes[m])}}
Reported(os) == [o \in Outages |-> IF o \in os THEN reports[o] + 1 ELSE reports[o]]

\* check_all_nodes: the caller gets the list, the detection loop does not.
CheckAllNodes ==
  /\ nodes' = Checked
  /\ reports' = Reported(NewlyFailed)
  /\ UNCHANGED <<failed, beats, LeaderSide>>

\* One round of start_detection_loop: the check under the write lock ...
DetectRound ==
  /\ failed = {}
  /\ nodes' = Checked
  /\ failed' = NewlyFailed
  /\ UNCHANGED <<beats, reports, LeaderSide>>

\* ... and on_failure for each failed node after the lock is released.
OnFailure(o) ==
  /\ o \in failed
  /\ failed' = failed \ {o}
  /\ reports' = Reported({o})
  /\ UNCHANGED <<nodes, beats, LeaderSide>>

SetLeader(r, n) ==
  /\ switches[r] < MaxSwitches
  /\ switches' = [switches EXCEPT ![r] = @ + 1]
  /\ leaders' = [leaders EXCEPT ![r] = n]
  /\ UNCHANGED <<nodes, failed, switcher, monitor, beats, reports, alarms>>

\* check_and_switch_leader: get_leader, then get_status, then the removal,
\* each under its own lock.  An unknown or healthy leader ends the call.
SwitchBegin(r) ==
  /\ switcher[r] = None /\ leaders[r] # None
  /\ switcher' = [switcher EXCEPT ![r] = [leader |-> leaders[r], bad |-> FALSE]]
  /\ UNCHANGED <<nodes, failed, leaders, monitor, beats, reports, alarms, switches>>

SwitchStatus(r) ==
  /\ switcher[r] # None /\ ~switcher[r].bad
  /\ switcher' = [switcher EXCEPT ![r] = IF @.leader \in FailedNodes THEN [@ EXCEPT !.bad = TRUE]
                                                                   ELSE None]
  /\ UNCHANGED <<nodes, failed, leaders, monitor, beats, reports, alarms, switches>>

SwitchRemove(r) ==
  /\ switcher[r] # None /\ switcher[r].bad
  /\ leaders' = [leaders EXCEPT ![r] = None]
  /\ switcher' = [switcher EXCEPT ![r] = None]
  /\ UNCHANGED <<nodes, failed, monitor, beats, reports, alarms, switches>>

\* One round of start_monitoring: get_failed_nodes ...
MonitorRead ==
  /\ monitor = None /\ FailedNodes # {}
  /\ monitor' = FailedNodes
  /\ UNCHANGED <<nodes, failed, leaders, switcher, beats, reports, alarms, switches>>

\* ... then, under the read lock on region_leaders, one call per region led by
\* a node of that list.
MonitorReport ==
  /\ monitor # None
  /\ alarms' = {p \in Regions \X monitor : leaders[p[1]] = p[2]}
  /\ monitor' = None
  /\ UNCHANGED <<nodes, failed, leaders, switcher, beats, reports, switches>>

Next ==
  \/ \E n \in Nodes : RegisterNode(n) \/ UpdateHeartbeat(n) \/ RecordFailure(n)
                      \/ RemoveNode(n) \/ Silence(n)
  \/ CheckAllNodes \/ DetectRound \/ \E o \in Outages : OnFailure(o)
  \/ \E r \in Regions : \/ \E n \in Nodes : SetLeader(r, n)
                        \/ SwitchBegin(r) \/ SwitchStatus(r) \/ SwitchRemove(r)
  \/ MonitorRead \/ MonitorReport

Fairness ==
  /\ WF_vars(DetectRound)
  /\ WF_vars(\E o \in Outages : OnFailure(o))
  /\ WF_vars(MonitorRead)
  /\ WF_vars(MonitorReport)

Spec == Init /\ [][Next]_vars /\ Fairness

-----------------------------------------------------------------------------
\* One outage of a node (from one heartbeat or registration to the next) is
\* reported at most once, although the detection loop and callers of
\* check_all_nodes check concurrently and the loop calls on_failure only after
\* it has released the lock.
OneReportPerOutage ==
  \A o \in Outages : reports[o] + (IF o \in failed THEN 1 ELSE 0) <= 1

\* A node that stays silent with failure_threshold failures recorded, and still
\* leads a region, ends up in the monitor's on_leader_failure calls, whoever
\* found the failure and however often it had recovered before.
SilentLeaderIsReported ==
  \A n \in Nodes, r \in Regions :
    <>[](/\ leaders[r] = n /\ nodes[n] # None
         /\ nodes[n].heard = "old" /\ nodes[n].failures >= FailureThreshold)
      => <>[](<<r, n>> \in alarms)
==============================================================================
