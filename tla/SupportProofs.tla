----------------------------- MODULE SupportProofs -----------------------------
(***************************************************************************)
(* Theorems about the parts around a store that do not share state: the    *)
(* failure detector, the engines and their write batches, the start and    *)
(* stop of the ingest worker, and the placement of peers.  They hold for   *)
(* any nodes, keys, requests and bounds.                                   *)
(***************************************************************************)
EXTENDS FailureDetector, Ingest, StoreBalancer, Engines, SequenceTheorems, FiniteSetTheorems, TLAPS

-----------------------------------------------------------------------------
(* Failure detector: one report per outage.                                *)
(*                                                                         *)
(* OneReportPerOutage is not inductive: check_health reports a node on the *)
(* way from another status to Failed, so the invariant has to say that a   *)
(* node that is not Failed has no report of its current outage, delivered  *)
(* or waiting in the detection loop, and that no report is about an outage *)
(* that has not begun (Unreported).                                        *)

Unreported ==
  \A n \in Nodes, b \in 0..MaxBeats :
    b > beats[n] \/ (b = beats[n] /\ nodes[n] # None /\ nodes[n].status # "Failed")
      => reports[<<n, b>>] = 0 /\ <<n, b>> \notin failed

IInv == TypeOK /\ OneReportPerOutage /\ Unreported

\* A new detector has reported nothing.
LEMMA InitIInv == Init => IInv
BY FDAssumption DEF Init, IInv, TypeOK, Outages, OneReportPerOutage, Unreported

\* check_health keeps a NodeHealth one, and never undoes a failure.
LEMMA CheckHealthType ==
  ASSUME NEW h \in Health
  PROVE  CheckHealth(h) \in Health /\ (h.status = "Failed" => CheckHealth(h).status = "Failed")
BY Zenon DEF CheckHealth, TimedOut, Health, Statuses

\* One check of all nodes under the write lock: every node it makes Failed is in
\* the answer, and nothing was reported of that node's outage before.
LEMMA CheckFacts ==
  ASSUME IInv
  PROVE  /\ Checked \in [Nodes -> Health \cup {None}]
         /\ NewlyFailed \subseteq Outages
         /\ \A o \in NewlyFailed : reports[o] = 0 /\ o \notin failed
         /\ \A n \in Nodes :
              /\ <<n, beats[n]>> \notin NewlyFailed /\ Checked[n] # None
                   /\ Checked[n].status # "Failed" => nodes[n] # None /\ nodes[n].status # "Failed"
              /\ <<n, beats[n]>> \in NewlyFailed => Checked[n].status = "Failed"
              /\ \A b \in 0..MaxBeats : <<n, b>> \in NewlyFailed => b = beats[n]
<1> USE DEF IInv, TypeOK
<1>1. \A n \in Registered : n \in Nodes /\ nodes[n] \in Health
  BY Zenon DEF Registered
<1>2. Checked \in [Nodes -> Health \cup {None}]
  BY <1>1, CheckHealthType, Zenon DEF Checked
<1>3. \A o \in NewlyFailed : \E n \in Registered : o = <<n, beats[n]>> /\ TurnsFailed(nodes[n])
  BY Zenon DEF NewlyFailed
<1>4. NewlyFailed \subseteq Outages
  BY <1>1, <1>3 DEF Outages
<1>5. \A o \in NewlyFailed : reports[o] = 0 /\ o \notin failed
  <2> TAKE o \in NewlyFailed
  <2>1. PICK n \in Registered : o = <<n, beats[n]>> /\ TurnsFailed(nodes[n])
    BY <1>3, Zenon
  <2>2. n \in Nodes /\ nodes[n] # None /\ nodes[n].status # "Failed" /\ beats[n] \in 0..MaxBeats
    BY <1>1, <2>1, Zenon DEF Registered, TurnsFailed
  <2> QED
    BY <2>1, <2>2, Zenon DEF Unreported
<1>6. ASSUME NEW n \in Nodes
      PROVE  /\ <<n, beats[n]>> \notin NewlyFailed /\ Checked[n] # None
                  /\ Checked[n].status # "Failed" => nodes[n] # None /\ nodes[n].status # "Failed"
             /\ <<n, beats[n]>> \in NewlyFailed => Checked[n].status = "Failed"
             /\ \A b \in 0..MaxBeats : <<n, b>> \in NewlyFailed => b = beats[n]
  <2>1. CASE n \notin Registered
    <3>1. Checked[n] = None
      BY <2>1, Zenon DEF Checked
    <3>2. \A b \in 0..MaxBeats : <<n, b>> \notin NewlyFailed
      BY <1>3, <2>1, Zenon
    <3> QED
      BY <3>1, <3>2, Zenon
  <2>2. CASE n \in Registered
    <3>1. Checked[n] = CheckHealth(nodes[n]) /\ nodes[n] \in Health /\ nodes[n] # None
      BY <1>1, <2>2, Zenon DEF Checked, Registered
    <3>2. \A b \in 0..MaxBeats : <<n, b>> \in NewlyFailed => b = beats[n] /\ TurnsFailed(nodes[n])
      BY <1>3, Zenon
    <3>3. nodes[n].status = "Failed" => Checked[n].status = "Failed"
      BY <3>1, CheckHealthType, Zenon
    <3> QED
      BY <3>1, <3>2, <3>3, Zenon DEF TurnsFailed
  <2> QED
    BY <2>1, <2>2, Zenon
<1> QED
  BY <1>2, <1>4, <1>5, <1>6, Zenon

\* Every step keeps the invariant.
LEMMA NextIInv == IInv /\ [Next]_vars => IInv'
<1> SUFFICES ASSUME IInv, [Next]_vars
             PROVE  IInv'
  BY Zenon
<1> USE FDAssumption
<1>1. ASSUME NEW n \in Nodes, NEW h \in Health, Fresh(n, h), UNCHANGED <<failed, reports, LeaderSide>>
      PROVE  IInv'
  <2>1. TypeOK'
    BY <1>1 DEF Fresh, LeaderSide, IInv, TypeOK, Outages
  <2>2. OneReportPerOutage'
    BY <1>1, Zenon DEF OneReportPerOutage, IInv
  <2>3. Unreported'
    BY <1>1 DEF Fresh, IInv, TypeOK, Unreported
  <2> QED
    BY <2>1, <2>2, <2>3, Zenon DEF IInv
<1>2. ASSUME NEW n \in Nodes, RegisterNode(n) \/ UpdateHeartbeat(n)
      PROVE  IInv'
  <2>1. NewHealth \in Health /\ \A h : Beaten(h) \in Health
    BY DEF NewHealth, Beaten, Health, Statuses
  <2> QED
    BY <1>1, <1>2, <2>1, Zenon DEF RegisterNode, UpdateHeartbeat
<1>3. ASSUME NEW n \in Nodes, RecordFailure(n) \/ RemoveNode(n) \/ Silence(n)
      PROVE  IInv'
  <2>1. nodes[n] \in Health
    BY <1>3, Zenon DEF RecordFailure, RemoveNode, Silence, Registered, IInv, TypeOK
  <2>2. /\ nodes' \in [Nodes -> Health \cup {None}]
        /\ \A m \in Nodes : nodes'[m] # None /\ nodes'[m].status # "Failed"
                              => nodes[m] # None /\ nodes[m].status # "Failed"
    BY <1>3, <2>1 DEF RecordFailure, RemoveNode, Silence, Strike, Registered, Health, IInv, TypeOK
  <2>3. UNCHANGED <<failed, beats, reports, LeaderSide>>
    BY <1>3, Zenon DEF RecordFailure, RemoveNode, Silence
  <2>4. TypeOK'
    BY <2>2, <2>3, Zenon DEF LeaderSide, IInv, TypeOK
  <2>5. OneReportPerOutage' /\ Unreported'
    BY <2>2, <2>3, Zenon DEF IInv, OneReportPerOutage, Unreported
  <2> QED
    BY <2>4, <2>5, Zenon DEF IInv
<1>4. CASE CheckAllNodes
  <2>1. nodes' = Checked /\ reports' = Reported(NewlyFailed) /\ UNCHANGED <<failed, beats, LeaderSide>>
    BY <1>4, Zenon DEF CheckAllNodes
  <2>2. \A o \in Outages : /\ reports[o] \in 0..2
                           /\ reports'[o] = IF o \in NewlyFailed THEN 1 ELSE reports[o]
    BY <2>1, CheckFacts DEF Reported, IInv, TypeOK
  <2>3. TypeOK'
    <3>1. reports' \in [Outages -> 0..2]
      BY <2>1, <2>2 DEF Reported
    <3> QED
      BY <2>1, <3>1, CheckFacts, Zenon DEF LeaderSide, IInv, TypeOK
  <2>4. OneReportPerOutage'
    BY <2>1, <2>2, CheckFacts DEF OneReportPerOutage, IInv
  <2>5. Unreported'
    <3> SUFFICES ASSUME NEW n \in Nodes, NEW b \in 0..MaxBeats,
                        b > beats[n] \/ (b = beats[n] /\ Checked[n] # None /\ Checked[n].status # "Failed")
                 PROVE  reports'[<<n, b>>] = 0 /\ <<n, b>> \notin failed
      BY <2>1, Zenon DEF Unreported
    <3>1. beats[n] \in Nat /\ <<n, b>> \in Outages
      BY DEF IInv, TypeOK, Outages
    <3>2. <<n, b>> \notin NewlyFailed
      <4>1. CASE b > beats[n]
        <5>1. b # beats[n]
          BY <3>1, <4>1
        <5> QED
          BY <5>1, CheckFacts, Zenon
      <4>2. CASE b = beats[n] /\ Checked[n].status # "Failed"
        BY <4>2, CheckFacts, Zenon
      <4> QED
        BY <4>1, <4>2, Zenon
    <3>3. b > beats[n] \/ (b = beats[n] /\ nodes[n] # None /\ nodes[n].status # "Failed")
      BY <3>2, CheckFacts, Zenon
    <3> QED
      BY <2>2, <3>1, <3>2, <3>3, Zenon DEF IInv, Unreported
  <2> QED
    BY <2>3, <2>4, <2>5, Zenon DEF IInv
<1>5. CASE DetectRound
  <2>1. failed = {} /\ nodes' = Checked /\ failed' = NewlyFailed /\ UNCHANGED <<beats, reports, LeaderSide>>
    BY <1>5, Zenon DEF DetectRound
  <2>2. TypeOK'
    BY <2>1, CheckFacts, Zenon DEF LeaderSide, IInv, TypeOK
  <2>3. OneReportPerOutage'
    BY <2>1, CheckFacts DEF OneReportPerOutage, IInv, TypeOK
  <2>4. Unreported'
    <3> SUFFICES ASSUME NEW n \in Nodes, NEW b \in 0..MaxBeats,
                        b > beats[n] \/ (b = beats[n] /\ Checked[n] # None /\ Checked[n].status # "Failed")
                 PROVE  reports[<<n, b>>] = 0 /\ <<n, b>> \notin NewlyFailed
      BY <2>1, Zenon DEF Unreported
    <3>1. beats[n] \in Nat
      BY DEF IInv, TypeOK
    <3>2. <<n, b>> \notin NewlyFailed
      <4>1. CASE b > beats[n]
        <5>1. b # beats[n]
          BY <3>1, <4>1
        <5> QED
          BY <5>1, CheckFacts, Zenon
      <4>2. CASE b = beats[n] /\ Checked[n].status # "Failed"
        BY <4>2, CheckFacts, Zenon
      <4> QED
        BY <4>1, <4>2, Zenon
    <3>3. b > beats[n] \/ (b = beats[n] /\ nodes[n] # None /\ nodes[n].status # "Failed")
      BY <3>2, CheckFacts, Zenon
    <3> QED
      BY <3>2, <3>3, Zenon DEF IInv, Unreported
  <2> QED
    BY <2>2, <2>3, <2>4, Zenon DEF IInv
<1>6. ASSUME NEW o \in Outages, OnFailure(o)
      PROVE  IInv'
  <2>1. /\ o \in failed /\ failed' = failed \ {o} /\ UNCHANGED <<nodes, beats, LeaderSide>>
        /\ reports' = [q \in Outages |-> IF q = o THEN reports[q] + 1 ELSE reports[q]]
    BY <1>6, Zenon DEF OnFailure, Reported
  <2>2. reports[o] = 0 /\ \A q \in Outages : reports[q] \in 0..2
    BY <2>1 DEF IInv, TypeOK, OneReportPerOutage
  <2>3. TypeOK'
    BY <2>1, <2>2 DEF LeaderSide, IInv, TypeOK
  <2>4. OneReportPerOutage'
    BY <2>1, <2>2 DEF OneReportPerOutage, IInv
  <2>5. Unreported'
    BY <2>1, <2>2, Zenon DEF Unreported, IInv, Outages
  <2> QED
    BY <2>3, <2>4, <2>5, Zenon DEF IInv
<1>7. ASSUME UNCHANGED <<nodes, failed, beats, reports>>, TypeOK'
      PROVE  IInv'
  BY <1>7, Zenon DEF IInv, OneReportPerOutage, Unreported
<1>8. ASSUME NEW r \in Regions, NEW n \in Nodes, SetLeader(r, n)
      PROVE  IInv'
  BY <1>7, <1>8 DEF SetLeader, IInv, TypeOK
<1>9. ASSUME NEW r \in Regions, SwitchBegin(r) \/ SwitchStatus(r) \/ SwitchRemove(r)
      PROVE  IInv'
  <2>1. leaders[r] # None => leaders[r] \in Nodes
    BY Zenon DEF IInv, TypeOK
  <2>2. switcher[r] # None => switcher[r] \in [leader : Nodes, bad : BOOLEAN]
    BY Zenon DEF IInv, TypeOK
  <2>3. CASE SwitchBegin(r)
    <3>1. switcher' \in [Regions -> [leader : Nodes, bad : BOOLEAN] \cup {None}]
      BY <2>1, <2>3, Zenon DEF SwitchBegin, IInv, TypeOK
    <3> QED
      BY <1>7, <2>3, <3>1, Zenon DEF SwitchBegin, IInv, TypeOK
  <2>4. CASE SwitchStatus(r)
    <3>1. [switcher[r] EXCEPT !.bad = TRUE] \in [leader : Nodes, bad : BOOLEAN]
      BY <2>2, <2>4, Zenon DEF SwitchStatus
    <3>2. switcher' \in [Regions -> [leader : Nodes, bad : BOOLEAN] \cup {None}]
      BY <2>4, <3>1, Zenon DEF SwitchStatus, IInv, TypeOK
    <3> QED
      BY <1>7, <2>4, <3>2, Zenon DEF SwitchStatus, IInv, TypeOK
  <2>5. CASE SwitchRemove(r)
    <3>1. switcher' \in [Regions -> [leader : Nodes, bad : BOOLEAN] \cup {None}]
      BY <2>5, Zenon DEF SwitchRemove, IInv, TypeOK
    <3> QED
      BY <1>7, <2>5, <3>1, Zenon DEF SwitchRemove, IInv, TypeOK
  <2> QED
    BY <1>9, <2>3, <2>4, <2>5, Zenon
<1>10. CASE MonitorRead \/ MonitorReport
  <2>1. FailedNodes \subseteq Nodes /\ (monitor # None => monitor \subseteq Nodes)
    BY Zenon DEF FailedNodes, Registered, IInv, TypeOK
  <2> QED
    BY <1>7, <1>10, <2>1, Zenon DEF MonitorRead, MonitorReport, IInv, TypeOK
<1>11. CASE UNCHANGED vars
  BY <1>7, <1>11, Zenon DEF vars, IInv, TypeOK
<1> QED
  BY <1>2, <1>3, <1>4, <1>5, <1>6, <1>8, <1>9, <1>10, <1>11 DEF Next

\* The invariant holds in every state of every behaviour.
LEMMA SpecIInv == Spec => []IInv
BY InitIInv, NextIInv, PTL DEF Spec

\* A failure is reported once per outage, whoever checks and whenever the
\* detection loop gets to call on_failure (failure_detector.rs, check_health,
\* check_all_nodes and start_detection_loop).
THEOREM OneReport == Spec => []OneReportPerOutage
<1>1. IInv => OneReportPerOutage
  BY Zenon DEF IInv
<1> QED
  BY <1>1, SpecIInv, PTL
-----------------------------------------------------------------------------
(* Engines: answered writes survive.                                       *)
(*                                                                         *)
(* A crash cuts a log at some point from synced on, so the invariant must  *)
(* place what was answered for below synced in every log (Durable); that a *)
(* log is a sequence of batches rests on the batch being one.              *)

Entry == [op : {"Put", "Delete"}, key : BatchKeys]
Entries == Seq(Entry)
Batch == [entries : Entries, size : Nat, safe_point : Nat, safe_point_size : Nat]
Log == Seq(Entries)

EnginesTypes ==
  /\ batch \in Batch
  /\ DOMAIN wal \in {{"kv"}, {"kv", "raft"}}
  /\ wal \in [DOMAIN wal -> Log]
  /\ synced \in [DOMAIN wal -> Nat]
  /\ promised \in [DOMAIN wal -> Log]

Durable ==
  \A d \in DOMAIN wal :
    /\ Len(promised[d]) <= synced[d] /\ synced[d] <= Len(wal[d])
    /\ \A i \in 1..Len(promised[d]) : promised[d][i] = wal[d][i]

EnginesInv == EnginesTypes /\ Durable

\* Agreement at every index of the shorter sequence makes it a prefix.
LEMMA PrefixByIndex ==
  ASSUME NEW S, NEW s \in Seq(S), NEW t \in Seq(S), Len(s) <= Len(t),
         \A i \in 1..Len(s) : s[i] = t[i]
  PROVE  s = SubSeq(t, 1, Len(s))
OBVIOUS

\* WriteBatch::new makes a batch.
LEMMA EmptyBatchType == EmptyBatch \in Batch
BY DEF EmptyBatch, Batch, Entries

\* New engines have answered for nothing.
LEMMA EnginesInitInv == EnginesInit => EnginesInv
BY EmptyBatchType DEF EnginesInit, EnginesInv, EnginesTypes, Durable, Log

\* The steps on the batch alone keep it a batch.
LEMMA BatchType ==
  ASSUME EnginesInv, AddEntry \/ set_safe_point \/ rollback_to_safe_point \/ Reset
  PROVE  batch' \in Batch
<1>1. batch \in Batch
  BY Zenon DEF EnginesInv, EnginesTypes
<1> USE EnginesAssumption DEF Batch
<1>2. CASE AddEntry
  <2>1. PICK k \in BatchKeys : set_cf(k) \/ delete_cf(k)
    BY <1>2, Zenon DEF AddEntry
  <2>2. [op |-> "Put", key |-> k] \in Entry /\ [op |-> "Delete", key |-> k] \in Entry
    BY Zenon DEF Entry
  <2>3. \A e \in Entry : Append(batch.entries, e) \in Entries
    BY <1>1 DEF Entries
  <2>4. batch.size + PutSize \in Nat /\ batch.size + DeleteSize \in Nat
    BY <1>1
  <2> QED
    BY <1>1, <2>1, <2>2, <2>3, <2>4, Zenon DEF set_cf, delete_cf
<1>3. CASE set_safe_point
  <2>1. Len(batch.entries) \in Nat
    BY <1>1 DEF Entries
  <2> QED
    BY <1>1, <1>3, <2>1, Zenon DEF set_safe_point
<1>4. CASE rollback_to_safe_point
  <2> DEFINE m == Min({batch.safe_point, Len(batch.entries)})
  <2>1. batch.safe_point \in Nat /\ Len(batch.entries) \in Nat
    BY <1>1 DEF Entries
  <2>2. m \in Nat /\ m <= Len(batch.entries)
    BY <2>1 DEF Min
  <2>3. SubSeq(batch.entries, 1, m) \in Entries
    <3> HIDE DEF m
    <3> QED
      BY <1>1, <2>2 DEF Entries
  <2> QED
    BY <1>1, <1>4, <2>3, Zenon DEF rollback_to_safe_point, RolledBack
<1>5. CASE Reset
  BY <1>5, EmptyBatchType, Zenon DEF Reset
<1> QED
  BY <1>2, <1>3, <1>4, <1>5, Zenon

\* A write appends to one log, answered for or not.
LEMMA WriteInv ==
  ASSUME EnginesInv, NEW d \in {"kv", "raft"},
         Writes(d, WriteSync(d)) \/ Writes(d, WriteAsync(d))
  PROVE  EnginesInv'
<1>1. /\ d \in DOMAIN wal /\ batch' = batch
      /\ wal' = [wal EXCEPT ![d] = Written(d)]
      /\ \/ synced' = [synced EXCEPT ![d] = Len(Written(d))] /\ promised' = [promised EXCEPT ![d] = Written(d)]
         \/ synced' = synced /\ promised' = promised
  BY Zenon DEF Writes, WriteSync, WriteAsync
<1>2. /\ Written(d) \in Log /\ Len(Written(d)) = Len(wal[d]) + 1
      /\ \A i \in 1..Len(wal[d]) : Written(d)[i] = wal[d][i]
  BY <1>1 DEF Written, Log, EnginesInv, EnginesTypes, Batch
<1>3. EnginesTypes'
  <2>1. Len(Written(d)) \in Nat
    BY <1>2 DEF Log
  <2> QED
    BY <1>1, <1>2, <2>1 DEF EnginesInv, EnginesTypes
<1>4. Durable'
  <2> SUFFICES ASSUME NEW e \in DOMAIN wal
               PROVE  /\ Len(promised'[e]) <= synced'[e] /\ synced'[e] <= Len(wal'[e])
                      /\ \A i \in 1..Len(promised'[e]) : promised'[e][i] = wal'[e][i]
    BY <1>1, Zenon DEF Durable
  <2>1. /\ Len(promised[e]) <= synced[e] /\ synced[e] <= Len(wal[e])
        /\ \A i \in 1..Len(promised[e]) : promised[e][i] = wal[e][i]
        /\ synced[e] \in Nat /\ Len(wal[e]) \in Nat /\ Len(promised[e]) \in Nat
    BY DEF EnginesInv, EnginesTypes, Durable, Log
  <2>2. CASE e # d
    BY <1>1, <2>1, <2>2, Zenon DEF EnginesInv, EnginesTypes
  <2>3. CASE e = d
    BY <1>1, <1>2, <2>1, <2>3 DEF EnginesInv, EnginesTypes
  <2> QED
    BY <2>2, <2>3, Zenon
<1> QED
  BY <1>3, <1>4, Zenon DEF EnginesInv

\* A flush moves synced up to the end of a log, and promised only with it.
LEMMA FlushInv == ASSUME EnginesInv, flush_wal PROVE EnginesInv'
<1>1. PICK flushed \in {DOMAIN wal, {"kv"}} :
        /\ synced' = [d \in DOMAIN wal |-> IF d \in flushed THEN Len(wal[d]) ELSE synced[d]]
        /\ promised' = IF flushed = DOMAIN wal THEN wal ELSE promised
        /\ batch' = batch /\ wal' = wal
  BY Zenon DEF flush_wal
<1>2. \A d \in DOMAIN wal : Len(wal[d]) \in Nat
  BY DEF EnginesInv, EnginesTypes, Log
<1>3. EnginesTypes'
  BY <1>1, <1>2, Zenon DEF EnginesInv, EnginesTypes
<1>4. Durable'
  BY <1>1, <1>2 DEF EnginesInv, EnginesTypes, Durable
<1> QED
  BY <1>3, <1>4, Zenon DEF EnginesInv

\* A crash keeps of every log at least what is synchronised.
LEMMA CrashInv == ASSUME EnginesInv, Crash PROVE EnginesInv'
<1>1. PICK n \in [DOMAIN wal -> 0..MaxWrites] :
        /\ \A d \in DOMAIN wal : n[d] \in synced[d]..Len(wal[d])
        /\ wal' = [d \in DOMAIN wal |-> SubSeq(wal[d], 1, n[d])]
        /\ synced' = n
  BY Zenon DEF Crash
<1>2. batch' = EmptyBatch /\ promised' = promised
  BY Zenon DEF Crash
<1>3. ASSUME NEW d \in DOMAIN wal
      PROVE  /\ wal[d] \in Log /\ n[d] \in Nat /\ n[d] <= Len(wal[d]) /\ synced[d] <= n[d]
             /\ synced[d] \in Nat /\ Len(promised[d]) \in Nat
  BY <1>1, EnginesAssumption DEF EnginesInv, EnginesTypes, Log
<1>4. ASSUME NEW d \in DOMAIN wal
      PROVE  /\ SubSeq(wal[d], 1, n[d]) \in Log /\ Len(SubSeq(wal[d], 1, n[d])) = n[d]
             /\ \A i \in 1..n[d] : SubSeq(wal[d], 1, n[d])[i] = wal[d][i]
  BY <1>3 DEF Log
<1>5. EnginesTypes'
  BY <1>1, <1>2, <1>3, <1>4, EmptyBatchType, Zenon DEF EnginesInv, EnginesTypes
<1>6. Durable'
  BY <1>1, <1>2, <1>3, <1>4 DEF EnginesInv, EnginesTypes, Durable
<1> QED
  BY <1>5, <1>6, Zenon DEF EnginesInv

\* Every call on a batch or on the engines, and every crash, keeps the
\* invariant.
LEMMA EnginesNextInv == EnginesInv /\ [EnginesNext]_engineVars => EnginesInv'
<1> SUFFICES ASSUME EnginesInv, [EnginesNext]_engineVars
             PROVE  EnginesInv'
  BY Zenon
<1>1. ASSUME batch' \in Batch, UNCHANGED <<wal, synced, promised>>
      PROVE  EnginesInv'
  BY <1>1, Zenon DEF EnginesInv, EnginesTypes, Durable
<1>2. CASE AddEntry \/ set_safe_point \/ rollback_to_safe_point \/ Reset
  BY <1>1, <1>2, BatchType, Zenon DEF AddEntry, set_safe_point, rollback_to_safe_point, Reset, batchOnly
<1>3. CASE write_kv \/ write_raft \/ write_kv_async \/ write_raft_async
  BY <1>3, WriteInv, Zenon DEF write_kv, write_raft, write_kv_async, write_raft_async
<1>4. CASE flush_wal
  BY <1>4, FlushInv, Zenon
<1>5. CASE Crash
  BY <1>5, CrashInv, Zenon
<1>6. CASE UNCHANGED engineVars
  BY <1>1, <1>6, Zenon DEF engineVars, EnginesInv, EnginesTypes
<1> QED
  BY <1>2, <1>3, <1>4, <1>5, <1>6, Zenon DEF EnginesNext

\* Whatever mix of synchronous and asynchronous writes, partly failed flushes and
\* crashes (engines.rs write_kv to flush_wal), no answered write is lost.
THEOREM AnsweredWritesSurvive == EnginesSpec => []PromisedSurvives
<1>1. EnginesInv => PromisedSurvives
  <2> SUFFICES ASSUME EnginesInv, NEW d \in DOMAIN wal
               PROVE  Len(promised[d]) <= Len(wal[d]) /\ promised[d] = SubSeq(wal[d], 1, Len(promised[d]))
    BY Zenon DEF PromisedSurvives
  <2>1. promised[d] \in Seq(Entries) /\ wal[d] \in Seq(Entries) /\ synced[d] \in Nat
    BY Zenon DEF EnginesInv, EnginesTypes, Log
  <2>2. Len(promised[d]) <= Len(wal[d]) /\ \A i \in 1..Len(promised[d]) : promised[d][i] = wal[d][i]
    BY <2>1 DEF EnginesInv, Durable
  <2> QED
    BY <2>1, <2>2, PrefixByIndex, Zenon
<1> QED
  BY <1>1, EnginesInitInv, EnginesNextInv, PTL DEF EnginesSpec

-----------------------------------------------------------------------------
(* Engines: the safe point.                                                *)
(*                                                                         *)
(* RollbackRestores needs that the safe point never lies behind the end of *)
(* the batch: then truncate cuts exactly there.                            *)

SafePoint ==
  /\ batch.safe_point <= Len(batch.entries)
  /\ mark = SubSeq(batch.entries, 1, batch.safe_point)
  /\ batch.safe_point_size = SizeOf(mark) /\ batch.size = SizeOf(batch.entries)

\* One more entry adds its bytes.
LEMMA AppendSize ==
  ASSUME NEW es \in Entries, NEW e \in Entry
  PROVE  SizeOf(Append(es, e)) = SizeOf(es) + (IF e.op = "Put" THEN PutSize ELSE DeleteSize)
<1> DEFINE n(op) == Cardinality(Having(es, op))
           m(op) == Cardinality(Having(Append(es, e), op))
<1>1. /\ Len(es) \in Nat /\ DOMAIN es = 1..Len(es) /\ Append(es, e)[Len(es) + 1] = e
      /\ DOMAIN Append(es, e) = 1..(Len(es) + 1)
      /\ \A i \in 1..Len(es) : Append(es, e)[i] = es[i]
  BY DEF Entries
<1>2. ASSUME NEW op
      PROVE  /\ n(op) \in Nat
             /\ m(op) = IF e.op = op THEN n(op) + 1 ELSE n(op)
  <2>1. IsFiniteSet(Having(es, op)) /\ (Len(es) + 1) \notin Having(es, op)
    <3>1. Having(es, op) \subseteq 1..Len(es)
      BY <1>1, Zenon DEF Having
    <3>2. IsFiniteSet(1..Len(es))
      BY <1>1, FS_Interval
    <3> QED
      BY <1>1, <3>1, <3>2, FS_Subset
  <2>2. Having(Append(es, e), op) = Having(es, op) \cup (IF e.op = op THEN {Len(es) + 1} ELSE {})
    BY <1>1 DEF Having
  <2> QED
    BY <2>1, <2>2, FS_CardinalityType, FS_AddElement, Zenon
<1>3. e.op \in {"Put", "Delete"}
  BY Zenon DEF Entry
<1>4. \A a, b \in Nat : a * (b + 1) = a * b + a
  OBVIOUS
<1>5. n("Put") \in Nat /\ n("Delete") \in Nat
  BY <1>2, Zenon
<1>6. m("Put") = (IF e.op = "Put" THEN n("Put") + 1 ELSE n("Put"))
  BY <1>2, Zenon
<1>7. m("Delete") = (IF e.op = "Delete" THEN n("Delete") + 1 ELSE n("Delete"))
  BY <1>2, Zenon
<1>8. /\ SizeOf(Append(es, e)) = PutSize * m("Put") + DeleteSize * m("Delete")
      /\ SizeOf(es) = PutSize * n("Put") + DeleteSize * n("Delete")
  BY Zenon DEF SizeOf
<1> HIDE DEF n, m
<1> QED
  BY <1>3, <1>4, <1>5, <1>6, <1>7, <1>8, EnginesAssumption

\* An empty batch has no bytes.
LEMMA EmptySafePoint ==
  /\ EmptyBatch.safe_point <= Len(EmptyBatch.entries)
  /\ <<>> = SubSeq(EmptyBatch.entries, 1, EmptyBatch.safe_point)
  /\ EmptyBatch.safe_point_size = SizeOf(<<>>) /\ EmptyBatch.size = SizeOf(EmptyBatch.entries)
<1>1. \A op : Having(<<>>, op) = {}
  BY DEF Having
<1>2. SizeOf(<<>>) = 0
  <2>1. SizeOf(<<>>) = PutSize * Cardinality({}) + DeleteSize * Cardinality({})
    BY <1>1, Zenon DEF SizeOf
  <2>2. Cardinality({}) = 0
    BY FS_EmptySet, Zenon
  <2> QED
    BY <2>1, <2>2, EnginesAssumption
<1>3. /\ EmptyBatch.entries = <<>> /\ EmptyBatch.size = 0
      /\ EmptyBatch.safe_point = 0 /\ EmptyBatch.safe_point_size = 0
  BY Zenon DEF EmptyBatch
<1>4. Len(<<>>) = 0 /\ SubSeq(<<>>, 1, 0) = <<>>
  OBVIOUS
<1> QED
  BY <1>2, <1>3, <1>4

\* Every call on the batch keeps the safe point in it.
LEMMA SafePointStep ==
  ASSUME batch \in Batch, SafePoint, [EnginesNext]_engineVars
  PROVE  SafePoint'
<1>1. /\ batch.entries \in Entries /\ batch.safe_point \in Nat /\ batch.size \in Nat
      /\ Len(batch.entries) \in Nat /\ batch.safe_point_size \in Nat
  BY DEF Batch, Entries
<1>2. CASE AddEntry
  <2>1. PICK e \in Entry :
          /\ batch'.entries = Append(batch.entries, e)
          /\ batch'.size = batch.size + (IF e.op = "Put" THEN PutSize ELSE DeleteSize)
          /\ batch'.safe_point = batch.safe_point /\ batch'.safe_point_size = batch.safe_point_size
    <3>1. PICK k \in BatchKeys : set_cf(k) \/ delete_cf(k)
      BY <1>2, Zenon DEF AddEntry
    <3>2. CASE set_cf(k)
      <4>1. [op |-> "Put", key |-> k] \in Entry
        BY Zenon DEF Entry
      <4> QED
        BY <4>1, <3>2, Zenon DEF set_cf, Batch
    <3>3. CASE delete_cf(k)
      <4>1. [op |-> "Delete", key |-> k] \in Entry
        BY Zenon DEF Entry
      <4> QED
        BY <4>1, <3>3, Zenon DEF delete_cf, Batch
    <3> QED
      BY <3>1, <3>2, <3>3, Zenon
  <2>2. mark' = mark
    BY <1>2, Zenon DEF AddEntry
  <2>3. /\ Len(Append(batch.entries, e)) = Len(batch.entries) + 1
        /\ SubSeq(Append(batch.entries, e), 1, batch.safe_point) = SubSeq(batch.entries, 1, batch.safe_point)
    BY <1>1 DEF Entries, SafePoint
  <2> QED
    BY <1>1, <2>1, <2>2, <2>3, AppendSize DEF SafePoint
<1>3. CASE set_safe_point
  <2>1. SubSeq(batch.entries, 1, Len(batch.entries)) = batch.entries
    BY <1>1 DEF Entries
  <2> QED
    BY <1>1, <1>3, <2>1 DEF set_safe_point, SafePoint, Batch
<1>4. CASE rollback_to_safe_point
  <2>1. Min({batch.safe_point, Len(batch.entries)}) = batch.safe_point
    BY <1>1 DEF Min, SafePoint
  <2>2. /\ batch'.entries = mark /\ batch'.size = batch.safe_point_size /\ mark' = mark
        /\ batch'.safe_point = batch.safe_point /\ batch'.safe_point_size = batch.safe_point_size
    BY <1>4, <2>1, Zenon DEF rollback_to_safe_point, RolledBack, SafePoint, Batch
  <2>3. Len(mark) = batch.safe_point /\ SubSeq(mark, 1, batch.safe_point) = mark
    BY <1>1 DEF SafePoint, Entries
  <2> QED
    BY <1>1, <2>2, <2>3 DEF SafePoint
<1>5. CASE batch' = EmptyBatch /\ mark' = <<>>
  BY <1>5, EmptySafePoint, Zenon DEF SafePoint
<1>6. CASE UNCHANGED <<batch, mark>>
  BY <1>6, Zenon DEF SafePoint
<1> QED
  BY <1>2, <1>3, <1>4, <1>5, <1>6, Zenon
     DEF EnginesNext, Reset, Crash, flush_wal, write_kv, write_raft, write_kv_async,
         write_raft_async, Writes, engineVars

\* rollback_to_safe_point would at any time restore the entries and the size
\* of the batch at the safe point (write_batch.rs set_safe_point to reset).
THEOREM RollbacksRestore == EnginesSpec => []RollbackRestores
<1>1. EnginesInit => SafePoint
  BY EmptySafePoint, Zenon DEF EnginesInit, SafePoint
<1>2. EnginesInv /\ SafePoint /\ [EnginesNext]_engineVars => SafePoint'
  BY SafePointStep, Zenon DEF EnginesInv, EnginesTypes
<1>3. EnginesInv /\ SafePoint => RollbackRestores
  <2> SUFFICES ASSUME batch \in Batch, SafePoint PROVE RollbackRestores
    BY Zenon DEF EnginesInv, EnginesTypes
  <2>1. Min({batch.safe_point, Len(batch.entries)}) = batch.safe_point
    BY DEF Min, SafePoint, Batch, Entries
  <2>2. RolledBack(batch).entries = SubSeq(batch.entries, 1, batch.safe_point)
    BY <2>1, Zenon DEF RolledBack, Batch
  <2> QED
    BY <2>2, Zenon DEF RollbackRestores, SafePoint
<1> QED
  BY <1>1, <1>2, <1>3, EnginesInitInv, EnginesNextInv, PTL DEF EnginesSpec

-----------------------------------------------------------------------------
(* Placement of peers.                                                     *)

\* A store is set down in its load until it is set up or the load is gone.
LoadsInv ==
  /\ loads \in [LoadStores -> Loads \cup {Absent}]
  /\ \A s \in isDown : s \in LoadStores /\ loads[s] # Absent /\ loads[s].up = FALSE

\* Updates of a load, its ageing and its clean-up keep it down.
LEMMA LoadsStep ==
  ASSUME LoadsInv, [BalancerNext]_balancerVars
  PROVE  LoadsInv'
<1> USE BalancerAssumption DEF LoadsInv
<1>1. ASSUME NEW s \in LoadStores, NEW n \in Nat, NEW z \in Nat, UpdateStoreLoad(s, n, z)
      PROVE  LoadsInv'
  <2> DEFINE old == IF loads[s] = Absent THEN NewLoad ELSE loads[s]
             new == [old EXCEPT !.count = n, !.size = z, !.fresh = TRUE]
  <2>1. old \in Loads
    BY Zenon DEF NewLoad, Loads
  <2>2. new \in Loads /\ new.up = old.up
    BY <2>1, Zenon DEF Loads
  <2>3. loads' = [loads EXCEPT ![s] = new] /\ isDown' = isDown
    BY <1>1, Zenon DEF UpdateStoreLoad
  <2> HIDE DEF new
  <2> QED
    BY <2>2, <2>3, Zenon
<1>2. ASSUME NEW s \in LoadStores, loads[s] # Absent, NEW l \in Loads,
             loads' = [loads EXCEPT ![s] = l], isDown' \ {s} \subseteq isDown, s \in isDown' => ~l.up
      PROVE  LoadsInv'
  BY <1>2 DEF Loads
<1>3. ASSUME NEW s \in LoadStores, NEW up \in BOOLEAN, SetStoreState(s, up) PROVE LoadsInv'
  <2>1. [loads[s] EXCEPT !.up = up] \in Loads /\ [loads[s] EXCEPT !.up = up].up = up
    BY <1>3, Zenon DEF SetStoreState, Loads
  <2> QED
    BY <1>2, <1>3, <2>1, Zenon DEF SetStoreState
<1>4. ASSUME NEW s \in LoadStores, LoadAges(s) PROVE LoadsInv'
  <2>1. [loads[s] EXCEPT !.fresh = FALSE] \in Loads /\ [loads[s] EXCEPT !.fresh = FALSE].up = loads[s].up
    BY <1>4, Zenon DEF LoadAges, Loads
  <2> QED
    BY <1>2, <1>4, <2>1, Zenon DEF LoadAges
<1>5. CASE CleanupStaleLoads
  BY <1>5, Zenon DEF CleanupStaleLoads
<1>6. CASE UNCHANGED <<loads, isDown>>
  BY <1>6, Zenon
<1>7. ASSUME NEW s \in LoadStores, NEW n \in Counts, UpdateFromStoreHeartbeat(s, n) PROVE LoadsInv'
  BY <1>1, <1>7, Zenon DEF UpdateFromStoreHeartbeat
<1>8. ASSUME NEW s \in LoadStores, NEW n \in Counts, NEW z \in Sizes, UpdateStoreLoad(s, n, z)
      PROVE LoadsInv'
  BY <1>1, <1>8, Zenon
<1> QED
  BY <1>3, <1>4, <1>5, <1>6, <1>7, <1>8, Zenon
     DEF BalancerNext, AllocateStores, SelectSingleStore, balancerVars

\* A step that chooses stores chooses available ones, and changes no load.
LEMMA TakenAvailable ==
  ASSUME BalancerNext
  PROVE  taken' \subseteq Available /\ (taken' # {} => isDown' = isDown)
<1>1. CASE AllocateStores
  <2>1. PICK q \in GetAvailableStores : placed' = SubSeq(q, 1, ReplicationFactor)
    BY <1>1, Zenon DEF AllocateStores
  <2>2. /\ Cardinality(Available) \in Nat /\ ReplicationFactor \in Nat
        /\ ReplicationFactor <= Cardinality(Available)
    <3>1. IsFiniteSet(Available)
      BY BalancerAssumption, FS_Subset, Zenon DEF Available
    <3> QED
      BY <1>1, <3>1, BalancerAssumption, FS_CardinalityType, Zenon DEF AllocateStores
  <2>3. q \in [1..Cardinality(Available) -> Available]
    BY Zenon DEF GetAvailableStores, Injection
  <2>4. q \in Seq(Available) /\ Len(q) = Cardinality(Available)
    BY <2>2, <2>3
  <2>5. SubSeq(q, 1, ReplicationFactor) \in Seq(Available)
    BY <2>2, <2>4
  <2>6. Range(placed') \subseteq Available
    BY <2>1, <2>5 DEF Range
  <2> QED
    BY <1>1, <2>6, Zenon DEF AllocateStores
<1>2. CASE SelectSingleStore
  <2>1. PICK q \in GetAvailableStores : \E i \in DOMAIN q : taken' = {q[i]}
    BY <1>2, Zenon DEF SelectSingleStore
  <2> QED
    BY <1>2, <2>1, Zenon DEF GetAvailableStores, Injection, SelectSingleStore
<1> QED
  BY <1>1, <1>2, Zenon
     DEF BalancerNext, UpdateFromStoreHeartbeat, UpdateStoreLoad, SetStoreState, LoadAges, CleanupStaleLoads

\* No allocation takes a store that was set down (store_balancer.rs and
\* region_allocator.rs), whatever updates of its load arrive meanwhile.
THEOREM DownStoresGetNothing == BalancerSpec => []DownStoreGetsNothing
<1>1. BalancerInit => LoadsInv /\ DownStoreGetsNothing
  BY DEF BalancerInit, LoadsInv, DownStoreGetsNothing
<1>2. LoadsInv /\ [BalancerNext]_balancerVars => LoadsInv'
  BY LoadsStep
<1>3. LoadsInv /\ DownStoreGetsNothing /\ [BalancerNext]_balancerVars => DownStoreGetsNothing'
  <2>1. ASSUME LoadsInv PROVE Available \cap isDown = {}
    BY <2>1, Zenon DEF LoadsInv, Available
  <2>2. ASSUME LoadsInv, BalancerNext PROVE taken' \cap isDown' = {}
    BY <2>1, <2>2, TakenAvailable, Zenon
  <2> QED
    BY <2>2, Zenon DEF DownStoreGetsNothing, balancerVars
<1> QED
  BY <1>1, <1>2, <1>3, PTL DEF BalancerSpec

-----------------------------------------------------------------------------
(* Ingest: the service does not stay "running" without a worker.           *)
(*                                                                         *)
(* stop aborts the worker of the handle, so the worker that RunningMeans-  *)
(* Worker promises must be one that is not doomed.  As long as no start    *)
(* overtakes a stop, one is aborted only while running is not set          *)
(* (Flagged).                                                              *)

CallPcs == {"new", "reset", "clear", "spawn", "handle", "abort", "dropped", "done"}
TaskPcs == {"none", "connect", "loop", "sleep", "request", "record", "metrics", "scan", "finish", "dead"}
Ops == {"none", "connect", "put", "get", "del"}
Spawned == {w \in Workers : task[w].pc # "none"}
Alive(w) == task[w].pc \notin {"none", "dead"}
Unspawned(c) == call[c].pc \in {"reset", "clear", "spawn", "dropped"}

IngestTypes ==
  /\ running \in BOOLEAN /\ ordered \in BOOLEAN
  /\ call \in [Calls -> [pc : CallPcs, worker : Workers \cup {NoTask}]]
  /\ task \in [Workers \cup Execs -> [pc : TaskPcs, i : Nat, op : Ops]]
  /\ handle \in Spawned \cup {NoTask} /\ doomed \subseteq Spawned
  /\ \A c \in Calls : call[c].pc = "handle" => call[c].worker \in Spawned
  /\ \A w \in Workers : task[w].pc \in {"request", "record", "metrics"} => task[w].op # "none"

Flagged ==
  ordered /\ running =>
    /\ \A c \in Calls : call[c].pc # "abort"
    /\ (\E w \in Workers \ doomed : Alive(w)) \/ (owner \in Calls /\ Unspawned(owner))

IngestInv == IngestTypes /\ Flagged

\* A request moves on.
LEMMA CallMoves ==
  ASSUME IngestInv, NEW c \in Calls, NEW pc \in CallPcs, NEW w \in Workers \cup {NoTask}, Goto(c, pc, w)
  PROVE  /\ call' \in [Calls -> [pc : CallPcs, worker : Workers \cup {NoTask}]]
         /\ call'[c].pc = pc /\ call'[c].worker = w /\ \A d \in Calls \ {c} : call'[d] = call[d]
BY Zenon DEF IngestInv, IngestTypes, Goto

\* What a step of start or stop has to keep.
LEMMA CallKeeps ==
  ASSUME IngestInv, NEW c \in Calls, NEW pc \in CallPcs, NEW w \in Workers \cup {NoTask},
         Goto(c, pc, w), task' = task, running' \in BOOLEAN, ordered' \in BOOLEAN,
         handle' \in Spawned \cup {NoTask}, doomed' \subseteq Spawned,
         pc = "handle" => w \in Spawned,
         ordered' /\ running' =>
           /\ pc # "abort"
           /\ \/ running /\ ordered /\ doomed' = doomed /\ owner' = owner
                 /\ (Unspawned(c) => pc \in {"reset", "clear", "spawn", "dropped"})
              \/ /\ \A d \in Calls : call[d].pc # "abort"
                 /\ owner' = c /\ pc = "reset"
  PROVE  IngestInv'
<1>1. /\ call' \in [Calls -> [pc : CallPcs, worker : Workers \cup {NoTask}]]
      /\ call'[c].pc = pc /\ call'[c].worker = w /\ \A d \in Calls \ {c} : call'[d] = call[d]
  BY CallMoves, Zenon
<1>2. IngestTypes'
  BY <1>1, Zenon DEF IngestInv, IngestTypes, Spawned
<1>3. Flagged'
  <2> SUFFICES ASSUME ordered', running'
               PROVE  /\ \A d \in Calls : call'[d].pc # "abort"
                      /\ \/ \E v \in Workers \ doomed' : Alive(v)'
                         \/ owner' \in Calls /\ call'[owner'].pc \in {"reset", "clear", "spawn", "dropped"}
    BY Zenon DEF Flagged, Unspawned
  <2>1. CASE /\ running /\ ordered /\ doomed' = doomed /\ owner' = owner
             /\ Unspawned(c) => pc \in {"reset", "clear", "spawn", "dropped"}
    <3>1. /\ \A d \in Calls : call[d].pc # "abort"
          /\ (\E v \in Workers \ doomed : Alive(v)) \/ (owner \in Calls /\ Unspawned(owner))
      BY <2>1, Zenon DEF IngestInv, Flagged
    <3>2. \A d \in Calls : call'[d].pc # "abort"
      BY <1>1, <3>1, Zenon
    <3>3. \A v \in Workers : Alive(v) => Alive(v)'
      BY Zenon DEF Alive
    <3> QED
      BY <1>1, <2>1, <3>1, <3>2, <3>3, Zenon DEF Unspawned
  <2>2. CASE (\A d \in Calls : call[d].pc # "abort") /\ owner' = c /\ pc = "reset"
    BY <1>1, <2>2, Zenon
  <2> QED
    BY <2>1, <2>2, Zenon
<1> QED
  BY <1>2, <1>3, Zenon DEF IngestInv

\* What a step of a worker or of a key operation has to keep.
LEMMA TaskKeeps ==
  ASSUME IngestInv, NEW t \in Workers \cup Execs,
         NEW r \in [pc : TaskPcs, i : Nat, op : Ops],
         task' = [task EXCEPT ![t] = r], TaskOnly, running' \in {running, FALSE},
         t \in Workers => /\ r.pc # "none"
                          /\ r.pc \in {"request", "record", "metrics"} => r.op # "none"
                          /\ r.pc = "dead" => t \in doomed \/ ~running'
  PROVE  IngestInv'
<1>1. /\ task' \in [Workers \cup Execs -> [pc : TaskPcs, i : Nat, op : Ops]]
      /\ task'[t] = r /\ \A v \in Workers : v # t => task'[v] = task[v]
      /\ handle' = handle /\ call' = call /\ doomed' = doomed
      /\ owner' = owner /\ ordered' = ordered
  BY Zenon DEF IngestInv, IngestTypes, TaskOnly, ghosts
<1>2. Spawned \subseteq Spawned'
  BY <1>1, Zenon DEF Spawned
<1>3. IngestTypes'
  BY <1>1, <1>2, Zenon DEF IngestInv, IngestTypes
<1>4. ASSUME running', NEW v \in Workers \ doomed, Alive(v) PROVE Alive(v)'
  BY <1>1, <1>4, Zenon DEF Alive
<1>5. Flagged'
  BY <1>1, <1>4, Zenon DEF IngestInv, Flagged, Unspawned
<1> QED
  BY <1>3, <1>5, Zenon DEF IngestInv

\* start spawns a worker that nobody has aborted.
LEMMA SpawnKeeps ==
  ASSUME IngestInv, NEW c \in Calls, StartSpawn(c)
  PROVE  IngestInv'
<1>1. PICK w \in Workers : /\ \A v \in Workers : task[v] = Idle <=> v >= w
                           /\ task' = [task EXCEPT ![w].pc = "connect"]
                           /\ Goto(c, "handle", w)
  BY Zenon DEF StartSpawn
<1>2. /\ running' = running /\ handle' = handle /\ doomed' = doomed
      /\ owner' = owner /\ ordered' = ordered
  BY Zenon DEF StartSpawn, ghosts
<1>3. task[w] = Idle
  BY <1>1 DEF Workers
<1>4. /\ task \in [Workers \cup Execs -> [pc : TaskPcs, i : Nat, op : Ops]]
      /\ doomed \subseteq Spawned
  BY Zenon DEF IngestInv, IngestTypes
<1>5. /\ task' \in [Workers \cup Execs -> [pc : TaskPcs, i : Nat, op : Ops]]
      /\ task'[w].pc = "connect" /\ \A v \in Workers : v # w => task'[v] = task[v]
  BY <1>1, <1>4, Zenon DEF TaskPcs
<1>6. w \in Spawned' /\ Spawned \subseteq Spawned' /\ w \notin doomed
  BY <1>3, <1>4, <1>5 DEF Spawned, Idle
<1>7. /\ call' \in [Calls -> [pc : CallPcs, worker : Workers \cup {NoTask}]]
      /\ call'[c].pc = "handle" /\ call'[c].worker = w /\ \A d \in Calls \ {c} : call'[d] = call[d]
  <2>1. "handle" \in CallPcs
    BY Zenon DEF CallPcs
  <2> QED
    BY <1>1, <2>1, CallMoves, Zenon
<1>8. IngestTypes'
  BY <1>2, <1>5, <1>6, <1>7, SMTT(20) DEF IngestInv, IngestTypes
<1>9. Alive(w)' /\ w \in Workers \ doomed'
  BY <1>2, <1>5, <1>6, Zenon DEF Alive
<1>10. Flagged'
  BY <1>2, <1>7, <1>9, Zenon DEF IngestInv, Flagged
<1> QED
  BY <1>8, <1>10, Zenon DEF IngestInv

\* start and stop.
LEMMA CallSteps ==
  ASSUME IngestInv, NEW c \in Calls,
         \/ StartSwap(c) \/ StartMetrics(c) \/ StartEvents(c) \/ StartHandle(c)
         \/ StopFlag(c) \/ StopAbort(c) \/ CallDropped(c)
  PROVE  IngestInv'
<1>1. /\ running \in BOOLEAN /\ ordered \in BOOLEAN
      /\ handle \in Spawned \cup {NoTask} /\ doomed \subseteq Spawned
      /\ call[c].pc = "handle" => call[c].worker \in Spawned
      /\ ordered /\ running => \A d \in Calls : call[d].pc # "abort"
  BY Zenon DEF IngestInv, IngestTypes, Flagged
<1>2. Spawned \subseteq Workers /\ NoTask \in Workers \cup {NoTask}
  BY Zenon DEF Spawned
<1>3. Arrives(c) => call[c].pc = "new"
  BY DEF Arrives, Calls
<1> USE DEF CallPcs, Unspawned
<1>4. CASE StartSwap(c)
  <2>1. /\ running' = TRUE /\ Goto(c, IF running THEN "done" ELSE "reset", NoTask)
        /\ call[c].pc = "new" /\ task' = task /\ handle' = handle /\ doomed' = doomed
        /\ owner' = (IF running THEN owner ELSE c)
        /\ ordered' = (ordered /\ (running \/ \A d \in Calls : call[d].pc # "abort"))
    BY <1>3, <1>4, Zenon DEF StartSwap, CallOnly
  <2>2. CASE running
    BY <1>1, <1>2, <2>1, <2>2, CallKeeps, Zenon
  <2>3. CASE ~running
    BY <1>1, <1>2, <2>1, <2>3, CallKeeps, Zenon
  <2> QED
    BY <2>2, <2>3, Zenon
<1>5. CASE StartMetrics(c) \/ StartEvents(c)
  <2>1. PICK pc \in {"clear", "spawn"} : Goto(c, pc, NoTask)
    BY <1>5, Zenon DEF StartMetrics, StartEvents
  <2>2. /\ task' = task /\ handle' = handle /\ doomed' = doomed
        /\ running' = running /\ owner' = owner /\ ordered' = ordered
    BY <1>5, Zenon DEF StartMetrics, StartEvents, CallOnly, ghosts
  <2> QED
    BY <1>1, <1>2, <2>1, <2>2, CallKeeps, Zenon
<1>6. CASE StartHandle(c)
  <2>1. /\ call[c].pc = "handle" /\ task' = task /\ handle' = call[c].worker /\ doomed' = doomed
        /\ running' = running /\ owner' = owner /\ ordered' = ordered /\ Goto(c, "done", NoTask)
    BY <1>6, Zenon DEF StartHandle, CallOnly, ghosts
  <2> QED
    BY <1>1, <1>2, <2>1, CallKeeps, Zenon
<1>7. CASE StopFlag(c)
  <2>1. /\ task' = task /\ handle' = handle /\ doomed' = doomed
        /\ running' = FALSE /\ ordered' = ordered /\ Goto(c, "abort", NoTask)
    BY <1>7, Zenon DEF StopFlag, CallOnly, ghosts
  <2> QED
    BY <1>1, <1>2, <2>1, CallKeeps, Zenon
<1>8. CASE StopAbort(c)
  <2>1. /\ call[c].pc = "abort" /\ task' = task /\ handle' = NoTask /\ running' = running
        /\ doomed' \subseteq Spawned /\ ordered' = ordered /\ Goto(c, "done", NoTask)
    BY <1>1, <1>8, Zenon DEF StopAbort, ghosts
  <2> QED
    BY <1>1, <1>2, <2>1, CallKeeps, Zenon
<1>9. CASE CallDropped(c)
  <2>1. /\ task' = task /\ handle' = handle /\ doomed' = doomed
        /\ running' = running /\ owner' = owner /\ ordered' = ordered
        /\ call[c].pc \in {"reset", "clear", "handle", "abort"}
        /\ Goto(c, IF call[c].pc \in {"reset", "clear"} THEN "dropped" ELSE "done", NoTask)
    BY <1>9, Zenon DEF CallDropped, CallOnly, ghosts
  <2>2. CASE call[c].pc \in {"reset", "clear"}
    BY <1>1, <1>2, <2>1, <2>2, CallKeeps, Zenon
  <2>3. CASE call[c].pc \in {"handle", "abort"}
    BY <1>1, <1>2, <2>1, <2>3, CallKeeps, Zenon
  <2> QED
    BY <2>1, <2>2, <2>3, Zenon
<1> QED
  BY <1>4, <1>5, <1>6, <1>7, <1>8, <1>9, Zenon

\* The workers and the key operations.
LEMMA TaskSteps ==
  ASSUME IngestInv, NEW t \in Workers \cup Execs,
         \/ t \in Workers /\ (Connected(t) \/ Loop(t) \/ ScanDone(t) \/ Finish(t) \/ Aborted(t))
         \/ t \in Execs /\ (ExecuteKv(t) \/ ExecDropped(t))
         \/ Answer(t) \/ RecordEvent(t) \/ RecordMetric(t)
  PROVE  IngestInv'
<1> DEFINE R == [pc : TaskPcs, i : Nat, op : Ops]
<1>1. /\ task[t] \in R /\ running \in BOOLEAN
      /\ t \in Workers /\ task[t].pc \in {"request", "record", "metrics"} => task[t].op # "none"
  BY Zenon DEF IngestInv, IngestTypes
<1>2. Idle \in R /\ [Idle EXCEPT !.pc = "dead"] \in R /\ [Idle EXCEPT !.pc = "request"] \in R
  BY Zenon DEF Idle, TaskPcs, Ops
<1>3. ASSUME NEW r \in R, Become(t, r), TaskOnly, running' \in {running, FALSE},
             t \in Workers => /\ r.pc # "none"
                              /\ r.pc \in {"request", "record", "metrics"} => r.op # "none"
                              /\ r.pc = "dead" => t \in doomed \/ ~running'
      PROVE  IngestInv'
  BY <1>3, TaskKeeps, Zenon DEF Become
<1>4. t \in Workers => t \notin Execs
  BY IngestAssumption, Zenon
<1> HIDE DEF R
<1> USE DEF R, TaskPcs, Ops
<1>5. CASE t \in Workers /\ Connected(t)
  BY <1>1, <1>3, <1>5, Zenon DEF Connected
<1>6. CASE t \in Workers /\ Loop(t)
  BY <1>1, <1>3, <1>6, Zenon DEF Loop
<1>7. CASE t \in Workers /\ ScanDone(t)
  BY <1>1, <1>3, <1>7, Zenon DEF ScanDone
<1>8. CASE t \in Workers /\ Finish(t)
  BY <1>2, <1>3, <1>8, Zenon DEF Finish, Idle
<1>9. CASE t \in Workers /\ Aborted(t)
  BY <1>2, <1>3, <1>9, Zenon DEF Aborted, Idle
<1>10. CASE t \in Execs /\ ExecuteKv(t)
  BY <1>2, <1>3, <1>4, <1>10, Zenon DEF ExecuteKv
<1>11. CASE Answer(t)
  BY <1>1, <1>3, <1>11, Zenon DEF Answer
<1>12. CASE RecordEvent(t)
  BY <1>1, <1>3, <1>12, Zenon DEF RecordEvent
<1>13. CASE RecordMetric(t)
  <2>1. PICK r \in After(t) : Become(t, r)
    BY <1>13, Zenon DEF RecordMetric
  <2>2. CASE t \in Execs
    BY <1>2, <1>3, <1>4, <1>13, <2>1, <2>2, SMTT(20) DEF After, RecordMetric
  <2>3. CASE t \in Workers
    <3>1. task[t].op \in {"connect", "put", "get", "del"} /\ t \notin Execs
      BY <1>1, <1>4, <1>13, <2>3, Zenon DEF RecordMetric
    <3>2. \/ r = [task[t] EXCEPT !.pc = "finish"]
          \/ r = [task[t] EXCEPT !.pc = "request", !.op = "get"]
          \/ r = [task[t] EXCEPT !.pc = "request", !.op = "del"]
          \/ r = [task[t] EXCEPT !.pc = "sleep", !.op = "none", !.i = @ + 1]
      BY <2>1, <3>1, Zenon DEF After
    <3>3. /\ r \in R /\ r.pc \in {"request", "sleep", "finish"}
          /\ r.pc = "request" => r.op # "none"
      <4>1. task[t].i + 1 \in Nat
        BY <1>1
      <4>2. CASE r = [task[t] EXCEPT !.pc = "sleep", !.op = "none", !.i = @ + 1]
        BY <1>1, <4>1, <4>2, Zenon
      <4>3. CASE r = [task[t] EXCEPT !.pc = "finish"]
        BY <1>1, <4>3, Zenon
      <4>4. CASE \/ r = [task[t] EXCEPT !.pc = "request", !.op = "get"]
                 \/ r = [task[t] EXCEPT !.pc = "request", !.op = "del"]
        BY <1>1, <4>4, Zenon
      <4> QED
        BY <3>2, <4>2, <4>3, <4>4, ZenonT(20)
    <3> QED
      BY <1>3, <1>13, <2>1, <3>3 DEF RecordMetric
  <2> QED
    BY <2>2, <2>3, Zenon
<1>14. CASE t \in Execs /\ ExecDropped(t)
  BY <1>2, <1>3, <1>4, <1>14, Zenon DEF ExecDropped
<1> QED
  BY <1>5, <1>6, <1>7, <1>8, <1>9, <1>10, <1>11, <1>12, <1>13, <1>14, Zenon

\* Whatever starts, stops, workers and key operations overlap and whichever
\* requests are dropped, a service that says it is running has a worker that no
\* stop has aborted, or the start that set the flag has not spawned one
\* (ingest_http.rs start and stop), unless that start overtook a stop.
THEOREM RunningHasWorker == IngestSpec => []RunningMeansWorker
<1>1. ASSUME IngestInit PROVE IngestInv
  <2>1. /\ call = [c \in Calls |-> [pc |-> "new", worker |-> NoTask]]
        /\ task = [t \in Workers \cup Execs |-> Idle]
        /\ running = FALSE /\ handle = NoTask /\ doomed = {} /\ ordered = TRUE
    BY <1>1, Zenon DEF IngestInit
  <2>2. \A c \in Calls : call[c].pc = "new"
    BY <2>1, Zenon
  <2>3. call \in [Calls -> [pc : CallPcs, worker : Workers \cup {NoTask}]]
    BY <2>1, Zenon DEF CallPcs
  <2>4. /\ task \in [Workers \cup Execs -> [pc : TaskPcs, i : Nat, op : Ops]]
        /\ \A w \in Workers : task[w].pc = "none"
    BY <2>1, Zenon DEF Idle, TaskPcs, Ops
  <2>5. IngestTypes
    BY <2>1, <2>2, <2>3, <2>4, Zenon DEF IngestTypes
  <2>6. Flagged
    BY <2>1, Zenon DEF Flagged
  <2> QED
    BY <2>5, <2>6, Zenon DEF IngestInv
<1>2. IngestInv /\ [IngestNext]_ingestVars => IngestInv'
  <2> SUFFICES ASSUME IngestInv, [IngestNext]_ingestVars PROVE IngestInv'
    BY Zenon
  <2>1. CASE UNCHANGED controlVars
    BY <2>1, Zenon DEF controlVars, ghosts, IngestInv, IngestTypes, Flagged, Spawned, Alive, Unspawned
  <2>2. CASE ControlNext
    BY <2>2, SpawnKeeps, CallSteps, TaskSteps, Zenon DEF ControlNext, StartStep, WorkerStep
  <2> QED
    BY <2>1, <2>2, Zenon DEF IngestNext, ingestVars
<1>3. IngestInv => RunningMeansWorker
  BY Zenon DEF IngestInv, Flagged, RunningMeansWorker, Alive, Unspawned
<1> QED
  BY <1>1, <1>2, <1>3, PTL DEF IngestSpec
================================================================================
