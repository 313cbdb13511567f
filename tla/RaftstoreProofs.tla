--------------------------- MODULE RaftstoreProofs ---------------------------
(***************************************************************************)
(* Theorems about a store's peers and regions.                             *)
(*                                                                         *)
(* One peer and its disk (RawNode), for logs of any length and any number  *)
(* of crashes: what was acknowledged is durable, entries are applied in    *)
(* order, has_ready is exact.  The three follow from PeerInv: as long as   *)
(* no entry was overwritten once it was handed out,                        *)
(*                                                                         *)
(*   - an entry is at the position its index names,                        *)
(*   - a Ready holds the entries that follow the stable ones,              *)
(*   - the disk holds the log in memory up to the last index it records,   *)
(*   - the applied index on disk follows the one in memory.                *)
(*                                                                         *)
(* Region splits (Splits), for any keys and any number of splits under way *)
(* at once: every key is routed to the one region that holds it.  It       *)
(* follows from SplitsInv:                                                 *)
(*                                                                         *)
(*   - the regions and the halves still to be entered partition the keys,  *)
(*   - an id of PD belongs to one task, then one half, then one region,    *)
(*   - the list of ranges is sorted and has one pair per region,           *)
(*   - the last pair of a start key is that of a region with keys, or the  *)
(*     half that has them is still to be entered.                          *)
(***************************************************************************)
EXTENDS RawNode, Splits, FiniteSetTheorems, TLAPS

-----------------------------------------------------------------------------
(* One peer and its disk. *)

Entries == [term : Nat \ {0}, index : Nat, data : {None}]
Steps == {"idle", "log", "state", "send", "apply", "advance"}

PeerTypes ==
  /\ log \in [entries : Seq(Entries), committed : Nat, applied : Nat, stabled : Nat]
  /\ disk \in [log : [1..MaxIndex -> Nat], state : RaftStates \cup {None}, applied : Nat]
  /\ term \in Nat /\ prevHard \in HardStates /\ at \in Steps /\ wrote \in Nat

\* Entries are where their index says.
InPlace ==
  /\ Len(log.entries) <= MaxIndex
  /\ \A i \in 1..Len(log.entries) : log.entries[i].index = i

\* The last index that is, or is about to be, on disk.
Top == IF at = "idle" THEN log.stabled ELSE log.stabled + Len(rd.entries)

ReadyHolds ==
  /\ Top <= Len(log.entries)
  /\ at # "idle" =>
       /\ rd.entries \in Seq(Entries) /\ rd.committed \in Seq(Entries)
       /\ rd.hard \in HardStates \cup {None}
       /\ \A j \in 1..Len(rd.entries) : rd.entries[j] = log.entries[log.stabled + j]
       /\ \A j \in 1..Len(rd.committed) : rd.committed[j].index = log.applied + j
       /\ \A e \in rd.seen : \E i \in 1..Top : log.entries[i] = e

OnDisk ==
  /\ disk.state = None => disk.applied = 0
  /\ at \in {"idle", "log", "state"} => DiskLast(disk) = log.stabled
  /\ at \in {"send", "apply", "advance"} => DiskLast(disk) = Top /\ disk.state # None
  /\ \A i \in 1..DiskLast(disk) : disk.log[i] = log.entries[i].term
  /\ at \in {"log", "state"} => \A j \in 1..wrote : disk.log[log.stabled + j] = rd.entries[j].term
  /\ at = "log" => wrote <= Len(rd.entries)
  /\ at = "state" => wrote = Len(rd.entries)

AppliedOnDisk ==
  disk.applied = IF at = "advance" /\ rd.committed # << >>
                 THEN rd.committed[Len(rd.committed)].index ELSE log.applied

ToldOnDisk == \A e \in told : \E i \in 1..DiskLast(disk) : log.entries[i] = e

PeerOk == PeerTypes /\ InPlace /\ ReadyHolds /\ OnDisk /\ AppliedOnDisk /\ ToldOnDisk

\* An overwritten entry leaves clean false for good.
PeerInv == clean => PeerOk

-----------------------------------------------------------------------------
(* The disk.                                                               *)

\* The last index on disk is not behind the end of the log.
LEMMA DiskLastBound ==
  ASSUME PeerOk
  PROVE  /\ DiskLast(disk) \in Nat /\ Top \in Nat
         /\ log.stabled <= Top /\ Top <= Len(log.entries) /\ Len(log.entries) <= MaxIndex
         /\ DiskLast(disk) = log.stabled \/ DiskLast(disk) = Top
         /\ DiskLast(disk) <= Len(log.entries)
<1>1. log.stabled \in Nat /\ Len(log.entries) \in Nat
  BY DEF PeerOk, PeerTypes
<1>2. at # "idle" => Len(rd.entries) \in Nat
  BY DEF PeerOk, ReadyHolds
<1>3. Top \in Nat /\ log.stabled <= Top /\ Top <= Len(log.entries) /\ Len(log.entries) <= MaxIndex
  BY <1>1, <1>2 DEF PeerOk, ReadyHolds, InPlace, Top
<1>4. DiskLast(disk) = log.stabled \/ DiskLast(disk) = Top
  BY Zenon DEF PeerOk, PeerTypes, Steps, OnDisk
<1> QED
  BY <1>1, <1>3, <1>4, RawNodeAssumption

\* read_raft_log finds every index up to the last one, so a restart reads back
\* the log as far as it is on disk.
LEMMA LoadIsPrefix ==
  ASSUME PeerOk
  PROVE  LoadLog(disk).entries = SubSeq(log.entries, 1, DiskLast(disk))
<1> DEFINE L == DiskLast(disk)
<1>1. L \in Nat /\ L <= Len(log.entries) /\ log.entries \in Seq(Entries) /\ L <= MaxIndex
  BY DiskLastBound, RawNodeAssumption DEF PeerOk, PeerTypes
<1>2. \A i \in 1..L : /\ disk.log[i] = log.entries[i].term /\ log.entries[i] \in Entries
                      /\ log.entries[i].index = i
  BY <1>1 DEF PeerOk, OnDisk, InPlace
<1> HIDE DEF L
<1>3. \A i \in 1..L : disk.log[i] # 0 /\ Entry(disk.log[i], i, None) = log.entries[i]
  BY <1>2, Zenon DEF Entries, Entry
<1>4. CASE L = 0
  BY <1>4 DEF LoadLog, L
<1>5. CASE L >= 1
  <2> DEFINE Stop(i) == /\ i = L + 1 \/ disk.log[i] = 0
                        /\ \A j \in 1..(i - 1) : disk.log[j] # 0
  <2>1. Stop(L + 1) /\ L + 1 \in 1..(L + 1) /\ \A i \in 1..(L + 1) : Stop(i) => i = L + 1
    BY <1>1, <1>3
  <2> DEFINE stop == CHOOSE i \in 1..(L + 1) : Stop(i)
  <2>2. stop = L + 1
    <3> HIDE DEF Stop
    <3> QED BY <2>1, Zenon
  <2>3. ReadRaftLog(disk, 1, L + 1) = [i \in 1..(stop - 1) |-> Entry(disk.log[1 + i - 1], 1 + i - 1, None)]
    BY Zenon DEF ReadRaftLog
  <2> HIDE DEF stop
  <2>4. ReadRaftLog(disk, 1, L + 1) = [i \in 1..L |-> Entry(disk.log[i], i, None)]
    BY <1>1, <2>2, <2>3
  <2>5. ReadRaftLog(disk, 1, L + 1) = [i \in 1..L |-> log.entries[i]]
    BY <1>3, <2>4, Zenon
  <2>6. SubSeq(log.entries, 1, L) = [i \in 1..L |-> log.entries[i]]
    BY <1>1
  <2> QED
    BY <1>5, <2>5, <2>6, Zenon DEF LoadLog, L
<1> QED
  BY <1>1, <1>4, <1>5 DEF L

\* The last index handed out is the one a Ready ends with.
LEMMA HandedIsTop == PeerOk => Handed = Top
<1> SUFFICES ASSUME PeerOk PROVE Handed = Top
  BY Zenon
<1>1. CASE at = "idle"
  BY <1>1, Zenon DEF Handed, Top
<1>2. CASE at # "idle" /\ rd.entries = << >>
  BY <1>2 DEF Handed, Top, PeerOk, PeerTypes
<1>3. CASE at # "idle" /\ rd.entries # << >>
  <2> DEFINE n == Len(rd.entries)
  <2>1. n \in Nat /\ n >= 1 /\ log.stabled \in Nat /\ log.stabled + n <= Len(log.entries)
    BY <1>3 DEF PeerOk, PeerTypes, ReadyHolds, Top
  <2>2. rd.entries[n] = log.entries[log.stabled + n]
    BY <1>3, <2>1, SMTT(20) DEF PeerOk, ReadyHolds
  <2>3. log.entries[log.stabled + n].index = log.stabled + n
    BY <2>1 DEF PeerOk, InPlace, PeerTypes
  <2> QED
    BY <1>3, <2>2, <2>3, Zenon DEF Handed, Top
<1> QED
  BY <1>1, <1>2, <1>3, Zenon
\* Positions and indexes are the same.
LEMMA Indexes ==
  ASSUME PeerOk
  PROVE  /\ first_index(log) = 1 /\ last_index(log) = Len(log.entries)
         /\ \A n \in Nat : Offset(log, n) = n
<1>1. log.entries \in Seq(Entries) /\ log.stabled \in Nat /\ log.stabled <= Len(log.entries)
  BY DiskLastBound DEF PeerOk, PeerTypes
<1>2. \A i \in 1..Len(log.entries) : log.entries[i].index = i
  BY Zenon DEF PeerOk, InPlace
<1>3. first_index(log) = 1 /\ last_index(log) = Len(log.entries)
  BY <1>1, <1>2 DEF first_index, last_index
<1> QED
  BY <1>3 DEF Offset

-----------------------------------------------------------------------------
(* Every step keeps PeerOk.                                                *)

LEMMA PeerInitInv == PeerInit => PeerInv
<1> SUFFICES ASSUME PeerInit PROVE PeerOk
  BY Zenon DEF PeerInv
<1>1. disk = [log |-> [i \in 1..MaxIndex |-> 0], state |-> None, applied |-> 0] /\ at = "idle"
  BY Zenon DEF PeerInit
<1>2. DiskLast(disk) = 0 /\ DiskHard(disk) = [term |-> 0, commit |-> 0]
  BY <1>1, Zenon DEF DiskLast, DiskHard
<1>3. log = [entries |-> << >>, committed |-> 0, applied |-> 0, stabled |-> 0]
  BY <1>1, <1>2 DEF PeerInit, LoadLog
<1>4. term = 0 /\ prevHard = [term |-> 0, commit |-> 0] /\ wrote = 0 /\ told = {}
  BY <1>3 DEF PeerInit, Hard
<1>5. PeerTypes
  BY <1>1, <1>3, <1>4 DEF PeerTypes, HardStates, Steps
<1>6. InPlace
  BY <1>3, RawNodeAssumption DEF InPlace
<1>7. ReadyHolds
  BY <1>1, <1>3 DEF ReadyHolds, Top
<1>8. OnDisk
  <2>1. disk.applied = 0 /\ log.stabled = 0 /\ \A i \in 1..0 : FALSE
    BY <1>1, <1>3
  <2>2. at \notin {"send", "apply", "advance"} /\ at \notin {"log", "state"} /\ at # "log" /\ at # "state"
    BY <1>1
  <2> QED
    BY <1>2, <2>1, <2>2, Zenon DEF OnDisk
<1>9. AppliedOnDisk /\ ToldOnDisk
  BY <1>1, <1>3, <1>4 DEF AppliedOnDisk, ToldOnDisk
<1> QED
  BY <1>5, <1>6, <1>7, <1>8, <1>9, Zenon DEF PeerOk

\* A Raft step between two Readys may change the log above what was handed out.
LEMMA RaftStepInv ==
  ASSUME PeerOk, InPlace', term' \in Nat, UNCHANGED <<prevHard, rd, at, wrote, disk, told>>,
         log' \in [entries : Seq(Entries), committed : Nat, applied : Nat, stabled : Nat],
         log'.applied = log.applied, log'.stabled = log.stabled,
         Top <= Len(log'.entries), \A j \in 1..Top : log'.entries[j] = log.entries[j]
  PROVE  PeerOk'
<1>1. PeerTypes'
  BY Zenon DEF PeerOk, PeerTypes
<1>2. Top' = Top /\ DiskLast(disk') = DiskLast(disk)
  BY Zenon DEF Top
<1>3. Top \in Nat /\ log.stabled \in Nat /\ log.stabled <= Top /\ DiskLast(disk) \in Nat /\ DiskLast(disk) <= Top
  BY DiskLastBound DEF PeerOk, PeerTypes
<1>4. ReadyHolds'
  <2>1. at # "idle" => Len(rd.entries) \in Nat /\ log.stabled + Len(rd.entries) = Top
    BY DEF PeerOk, ReadyHolds, Top
  <2>2. at # "idle" => \A j \in 1..Len(rd.entries) : log.stabled + j \in 1..Top
    BY <1>3, <2>1
  <2> QED
    BY <1>2, <2>2, Zenon DEF PeerOk, ReadyHolds
<1>5. \A j \in 1..DiskLast(disk) : j \in 1..Top
  BY <1>3
<1>6. OnDisk'
  BY <1>2, <1>5, Zenon DEF PeerOk, OnDisk
<1>7. AppliedOnDisk'
  BY Zenon DEF PeerOk, AppliedOnDisk
<1>8. ToldOnDisk'
  BY <1>2, <1>5, Zenon DEF PeerOk, ToldOnDisk
<1> QED
  BY <1>1, <1>4, <1>6, <1>7, <1>8, Zenon DEF PeerOk

\* An append that keeps clean cuts nothing that was handed out.
LEMMA AppendInv ==
  ASSUME PeerOk, NEW i \in 1..MaxIndex, NEW t \in 1..MaxTerm, RaftAppend(i, t), clean'
  PROVE  PeerOk'
<1> DEFINE e == Entry(t, i, None)
<1>1. /\ log.entries \in Seq(Entries) /\ log \in [entries : Seq(Entries), committed : Nat, applied : Nat, stabled : Nat]
      /\ i \in Nat /\ i >= 1 /\ t \in Nat /\ t # 0 /\ MaxIndex \in Nat /\ MaxTerm \in Nat
  BY RawNodeAssumption DEF PeerOk, PeerTypes
<1>2. /\ Top \in Nat /\ log.stabled <= Top /\ DiskLast(disk) \in Nat /\ DiskLast(disk) <= Top /\ Top < i
      /\ i <= Len(log.entries) + 1 /\ i <= MaxIndex /\ (log.entries = << >> \/ i > 1)
  <2>1. /\ i > Handed /\ i <= last_index(log) + 1 /\ i <= MaxIndex
        /\ (log.entries = << >> \/ i > first_index(log))
    BY Zenon DEF RaftAppend
  <2> QED
    BY <1>1, <2>1, DiskLastBound, HandedIsTop, Indexes
<1>3. e \in Entries /\ e.index = i
  BY <1>1, Zenon DEF Entry, Entries
<1>4. /\ log' = [log EXCEPT !.entries = log'.entries]
      /\ log'.entries \in Seq(Entries) /\ Len(log'.entries) = i
      /\ \A j \in 1..(i - 1) : log'.entries[j] = log.entries[j]
      /\ log'.entries[i] = e
  <2> DEFINE es == <<e>>
             kept == IF i > 1 /\ i - 1 < Len(log.entries) THEN SubSeq(log.entries, 1, i - 1) ELSE log.entries
  <2>1. log' = [log EXCEPT !.entries = kept \o es]
    BY <1>1, <1>3, Indexes, Zenon DEF RaftAppend, append
  <2>2. kept \in Seq(Entries) /\ Len(kept) = i - 1 /\ \A j \in 1..(i - 1) : kept[j] = log.entries[j]
    BY <1>1, <1>2
  <2> HIDE DEF kept, e
  <2>3. log'.entries = kept \o es
    BY <1>1, <2>1, Zenon
  <2> QED
    BY <1>1, <1>3, <2>1, <2>2, <2>3, SMTT(20)
<1> HIDE DEF e
<1>5. UNCHANGED <<prevHard, rd, at, wrote, disk, told>> /\ term' = t
  BY Zenon DEF RaftAppend, RaftOnly
<1>6. log' \in [entries : Seq(Entries), committed : Nat, applied : Nat, stabled : Nat]
  BY <1>1, <1>4, Zenon
<1>7. log'.applied = log.applied /\ log'.stabled = log.stabled
  BY <1>1, <1>4, Zenon
<1>8. InPlace'
  <2>1. \A j \in 1..(i - 1) : log.entries[j].index = j
    BY <1>1, <1>2 DEF PeerOk, InPlace
  <2>2. \A j \in 1..i : j = i \/ j \in 1..(i - 1)
    BY <1>1
  <2>3. \A j \in 1..i : log'.entries[j].index = j
    BY <1>3, <1>4, <2>1, <2>2, Zenon
  <2> QED
    BY <1>2, <1>4, <2>3, Zenon DEF InPlace
<1>9. Top <= Len(log'.entries) /\ \A j \in 1..Top : log'.entries[j] = log.entries[j]
  BY <1>1, <1>2, <1>4
<1> QED
  BY <1>1, <1>5, <1>6, <1>7, <1>8, <1>9, RaftStepInv, Zenon

LEMMA CommitInv ==
  ASSUME PeerOk, NEW i \in 1..MaxIndex, RaftCommit(i)
  PROVE  PeerOk'
<1>1. /\ log \in [entries : Seq(Entries), committed : Nat, applied : Nat, stabled : Nat]
      /\ log' = [log EXCEPT !.committed = i] /\ i \in Nat /\ term \in Nat
  BY RawNodeAssumption DEF PeerOk, PeerTypes, RaftCommit
<1>2. /\ log' \in [entries : Seq(Entries), committed : Nat, applied : Nat, stabled : Nat]
      /\ log'.entries = log.entries /\ log'.applied = log.applied /\ log'.stabled = log.stabled
  BY <1>1, Zenon
<1>3. UNCHANGED <<term, prevHard, rd, at, wrote, disk, told>>
  BY Zenon DEF RaftCommit, RaftOnly
<1>4. InPlace' /\ Top <= Len(log'.entries)
  BY <1>2, DiskLastBound, Zenon DEF PeerOk, InPlace
<1> QED
  BY <1>1, <1>2, <1>3, <1>4, RaftStepInv, Zenon

\* What a slice of the log holds.
LEMMA Slice ==
  ASSUME NEW S, NEW s \in Seq(S), NEW a \in Nat, NEW m \in Nat, m <= Len(s),
         NEW t, t = SubSeq(s, a + 1, m)
  PROVE  t \in Seq(S) /\ (t # << >> <=> a < m) /\ \A j \in 1..Len(t) : a + j \in 1..Len(s) /\ t[j] = s[a + j]
<1>1. CASE a + 1 <= m
  BY <1>1
<1>2. CASE ~(a + 1 <= m)
  BY <1>2
<1> QED
  BY <1>1, <1>2, Zenon

\* ready() hands out what follows the stable entries, and applies from the
\* applied index on.
LEMMA ReadyInv ==
  ASSUME PeerOk, Ready
  PROVE  PeerOk'
<1>1. /\ log \in [entries : Seq(Entries), committed : Nat, applied : Nat, stabled : Nat]
      /\ log.stabled <= Len(log.entries) /\ Top = log.stabled
  BY DiskLastBound, Zenon DEF PeerOk, PeerTypes, Ready, Top
<1>2. UNCHANGED <<log, term, prevHard, disk, told>> /\ at = "idle" /\ at' = "log" /\ wrote' = 0
  BY Zenon DEF Ready
<1>3. /\ rd'.entries = SubSeq(log.entries, log.stabled + 1, Len(log.entries))
      /\ rd'.committed = IF log.applied < log.committed
                         THEN SubSeq(log.entries, log.applied + 1, NextEnd(log) + 1) ELSE << >>
      /\ rd'.hard \in {Hard, None} /\ rd'.seen = {log.entries[i] : i \in DOMAIN log.entries}
  BY <1>1, Indexes, Zenon DEF Ready, NewReady, unstable_entries, next_entries
<1>4. /\ rd'.entries \in Seq(Entries) /\ Len(rd'.entries) = Len(log.entries) - log.stabled
      /\ \A j \in 1..Len(rd'.entries) : rd'.entries[j] = log.entries[log.stabled + j]
  BY <1>1, <1>3, SMTT(20)
<1>5. Top' = Len(log.entries)
  BY <1>1, <1>2, <1>4 DEF Top
<1>6. rd'.committed \in Seq(Entries) /\ \A j \in 1..Len(rd'.committed) : rd'.committed[j].index = log.applied + j
  <2>1. CASE log.applied < log.committed
    <3>1. NextEnd(log) + 1 \in Nat /\ NextEnd(log) + 1 <= Len(log.entries)
      <4>1. ~(NextEnd(log) + 1 > Len(log.entries))
        BY <2>1, Zenon DEF Ready, ReadyPanics, NextPanics
      <4>2. NextEnd(log) = IF log.committed < Len(log.entries) THEN log.committed ELSE Len(log.entries)
        BY <1>1, Indexes, Zenon DEF NextEnd
      <4> QED
        BY <1>1, <4>1, <4>2
    <3>2. /\ rd'.committed \in Seq(Entries)
          /\ \A j \in 1..Len(rd'.committed) : /\ log.applied + j \in 1..Len(log.entries)
                                              /\ rd'.committed[j] = log.entries[log.applied + j]
      <4>1. log.entries \in Seq(Entries) /\ log.applied \in Nat
        BY <1>1, Zenon
      <4>2. rd'.committed = SubSeq(log.entries, log.applied + 1, NextEnd(log) + 1)
        BY <1>3, <2>1, Zenon
      <4> QED
        <5> DEFINE u == log.entries
                   b == log.applied
                   m == NextEnd(log) + 1
                   cs == rd'.committed
        <5>1. u \in Seq(Entries) /\ b \in Nat /\ m \in Nat /\ m <= Len(u) /\ cs = SubSeq(u, b + 1, m)
          BY <3>1, <4>1, <4>2, Zenon
        <5> HIDE DEF u, b, m, cs
        <5>2. cs \in Seq(Entries) /\ \A j \in 1..Len(cs) : b + j \in 1..Len(u) /\ cs[j] = u[b + j]
          BY <5>1, Slice
        <5> QED
          BY <5>2, Zenon DEF u, b, cs
    <3> QED
      BY <3>2, Zenon DEF PeerOk, InPlace
  <2>2. CASE ~(log.applied < log.committed)
    BY <1>3, <2>2
  <2> QED
    BY <2>1, <2>2, Zenon
<1>7. rd'.hard \in HardStates \cup {None}
  BY <1>1, <1>3 DEF Hard, HardStates, PeerOk, PeerTypes
<1>8. \A e \in rd'.seen : \E i \in 1..Top' : log.entries[i] = e
  BY <1>1, <1>3, <1>5
<1>9. PeerTypes' /\ InPlace'
  BY <1>2, Zenon DEF PeerOk, PeerTypes, InPlace, Steps
<1>10. ReadyHolds'
  <2>1. Top' <= Len(log.entries)
    BY <1>1, <1>5
  <2> QED
    BY <1>2, <1>4, <1>6, <1>7, <1>8, <2>1, Zenon DEF ReadyHolds
<1>11. OnDisk'
  <2>1. wrote' <= Len(rd'.entries) /\ \A j \in 1..wrote' : FALSE
    BY <1>1, <1>2, <1>4
  <2>2. at' \notin {"send", "apply", "advance"} /\ at' # "state" /\ at \in {"idle", "log", "state"}
    BY <1>2, Zenon
  <2> QED
    BY <1>2, <2>1, <2>2, Zenon DEF PeerOk, OnDisk
<1>12. AppliedOnDisk' /\ ToldOnDisk'
  BY <1>2, Zenon DEF PeerOk, AppliedOnDisk, ToldOnDisk
<1> QED
  BY <1>9, <1>10, <1>11, <1>12, Zenon DEF PeerOk

\* The application leaves the log and the Ready alone.
LEMMA AppKeeps ==
  ASSUME PeerOk, AppOnly, at # "idle", at' \in Steps \ {"idle"}, wrote' \in Nat
  PROVE  InPlace' /\ ReadyHolds' /\ Top' = Top /\ UNCHANGED <<log, rd, term, prevHard>>
<1>1. UNCHANGED <<log, rd, term, prevHard>> /\ at' # "idle"
  BY Zenon DEF AppOnly, Steps
<1>2. Top' = Top
  BY <1>1, Zenon DEF Top
<1> QED
  BY <1>1, <1>2, Zenon DEF PeerOk, InPlace, ReadyHolds
\* One entry more is on disk, above what the raft state covers.
LEMMA WriteRaftLogInv ==
  ASSUME PeerOk, WriteRaftLog
  PROVE  PeerOk'
<1>1. at = "log" /\ AppOnly /\ told' = told
  BY Zenon DEF WriteRaftLog
<1>2. /\ wrote \in Nat /\ wrote <= Len(rd.entries) /\ rd.entries \in Seq(Entries)
      /\ DiskLast(disk) = log.stabled /\ log.stabled \in Nat
      /\ log.stabled + Len(rd.entries) <= Len(log.entries) /\ Len(log.entries) <= MaxIndex
      /\ log.entries \in Seq(Entries)
  BY <1>1, Zenon DEF PeerOk, PeerTypes, InPlace, ReadyHolds, Top, OnDisk
<1>3. CASE wrote = Len(rd.entries)
  <2>1. at' = "state" /\ UNCHANGED <<disk, wrote>>
    BY <1>3, Zenon DEF WriteRaftLog
  <2>2. InPlace' /\ ReadyHolds' /\ UNCHANGED <<log, rd, term, prevHard>>
    BY <1>1, <1>2, <2>1, AppKeeps, Zenon DEF Steps
  <2>3. PeerTypes'
    BY <1>2, <2>1, <2>2, Zenon DEF PeerOk, PeerTypes, Steps
  <2>4. OnDisk'
    BY <1>1, <1>3, <2>1, <2>2, Zenon DEF PeerOk, OnDisk
  <2>5. AppliedOnDisk' /\ ToldOnDisk'
    BY <1>1, <2>1, <2>2, Zenon DEF PeerOk, AppliedOnDisk, ToldOnDisk
  <2> QED
    BY <2>2, <2>3, <2>4, <2>5, Zenon DEF PeerOk
<1>4. CASE wrote # Len(rd.entries)
  <2> DEFINE e == rd.entries[wrote + 1]
             n == log.stabled + wrote + 1
  <2>1. at' = at /\ wrote' = wrote + 1 /\ disk' = [disk EXCEPT !.log[e.index] = e.term]
    BY <1>4, Zenon DEF WriteRaftLog
  <2>2. wrote + 1 \in 1..Len(rd.entries) /\ n \in 1..Len(log.entries) /\ n \in 1..MaxIndex
    BY <1>2, <1>4, RawNodeAssumption, SMTT(20)
  <2>3. e = log.entries[n] /\ e \in Entries /\ e.index = n /\ e.term \in Nat
    <3>1. rd.entries[wrote + 1] = log.entries[log.stabled + (wrote + 1)]
      BY <1>1, <2>2, Zenon DEF PeerOk, ReadyHolds
    <3> QED
      <4>1. log.stabled + (wrote + 1) = n
        BY <1>2
      <4>2. log.entries[n] \in Entries
        BY <1>2, <2>2
      <4> QED
        BY <2>2, <3>1, <4>1, <4>2, Zenon DEF PeerOk, InPlace, Entries
  <2> HIDE DEF e, n
  <2>4. InPlace' /\ ReadyHolds' /\ UNCHANGED <<log, rd, term, prevHard>>
    BY <1>1, <1>2, <2>1, AppKeeps DEF Steps
  <2>5. disk \in [log : [1..MaxIndex -> Nat], state : RaftStates \cup {None}, applied : Nat]
    BY Zenon DEF PeerOk, PeerTypes
  <2>6. /\ disk' \in [log : [1..MaxIndex -> Nat], state : RaftStates \cup {None}, applied : Nat]
        /\ disk'.state = disk.state /\ disk'.applied = disk.applied
        /\ disk'.log[n] = e.term /\ \A i \in 1..MaxIndex : i # n => disk'.log[i] = disk.log[i]
    BY <2>1, <2>2, <2>3, <2>5, Zenon
  <2>7. PeerTypes'
    <3>1. wrote' \in Nat
      BY <1>2, <2>1
    <3> QED
      BY <2>1, <2>4, <2>6, <3>1, Zenon DEF PeerOk, PeerTypes
  <2>8. DiskLast(disk') = DiskLast(disk)
    BY <2>6, Zenon DEF DiskLast
  <2>9. \A i \in 1..DiskLast(disk) : disk'.log[i] = log.entries[i].term
    <3>1. \A i \in 1..DiskLast(disk) : i \in 1..MaxIndex /\ i # n
      BY <1>2, <2>2, RawNodeAssumption DEF n
    <3> QED
      BY <2>6, <3>1, Zenon DEF PeerOk, OnDisk
  <2>10. \A j \in 1..wrote' : disk'.log[log.stabled + j] = rd.entries[j].term
    <3> SUFFICES ASSUME NEW j \in 1..wrote' PROVE disk'.log[log.stabled + j] = rd.entries[j].term
      BY Zenon
    <3>1. CASE j = wrote + 1
      <4>1. log.stabled + j = n
        BY <1>2, <3>1, SMTT(20) DEF n
      <4> QED
        BY <3>1, <4>1, <2>6, Zenon DEF e
    <3>2. CASE j # wrote + 1
      <4>1. j \in 1..wrote /\ log.stabled + j \in 1..MaxIndex /\ log.stabled + j # n
        <5>1. j \in Nat /\ j >= 1 /\ j <= wrote
          BY <1>2, <2>1, <3>2
        <5> QED
          BY <1>2, <5>1, RawNodeAssumption DEF n
      <4> QED
        BY <1>1, <2>6, <4>1, Zenon DEF PeerOk, OnDisk
    <3> QED
      BY <3>1, <3>2, Zenon
  <2>11. wrote' <= Len(rd.entries)
    BY <1>2, <2>1, <2>2
  <2>12. OnDisk'
    <3>1. at' = "log" /\ at' \notin {"send", "apply", "advance"} /\ at' # "state"
      BY <1>1, <2>1, Zenon
    <3> QED
      BY <1>2, <2>4, <2>6, <2>8, <2>9, <2>10, <2>11, <3>1, Zenon DEF PeerOk, OnDisk
  <2>13. AppliedOnDisk' /\ ToldOnDisk'
    BY <1>1, <2>1, <2>4, <2>6, <2>8, Zenon DEF PeerOk, AppliedOnDisk, ToldOnDisk
  <2> QED
    BY <2>4, <2>7, <2>12, <2>13, Zenon DEF PeerOk
<1> QED
  BY <1>3, <1>4, Zenon
\* The raft state now covers the entries of the Ready, all of which are on disk.
LEMMA WriteRaftStateInv ==
  ASSUME PeerOk, WriteRaftState
  PROVE  PeerOk'
<1>1. at = "state" /\ at' = "send" /\ AppOnly /\ UNCHANGED <<wrote, told>>
  BY Zenon DEF WriteRaftState
<1>2. /\ wrote = Len(rd.entries) /\ wrote \in Nat /\ rd.entries \in Seq(Entries)
      /\ DiskLast(disk) = log.stabled /\ log.stabled \in Nat /\ Top = log.stabled + wrote
      /\ Top <= Len(log.entries) /\ log.entries \in Seq(Entries)
  BY <1>1, Zenon DEF PeerOk, PeerTypes, InPlace, ReadyHolds, Top, OnDisk
<1>3. InPlace' /\ ReadyHolds' /\ Top' = Top /\ UNCHANGED <<log, rd, term, prevHard>>
  BY <1>1, <1>2, AppKeeps, Zenon DEF Steps
<1>4. PICK st : /\ disk' = [disk EXCEPT !.state = st] /\ st \in RaftStates /\ st.last = Top
  <2> DEFINE h == IF rd.hard = None THEN DiskHard(disk) ELSE rd.hard
             m == IF rd.entries = << >> THEN DiskLast(disk) ELSE rd.entries[Len(rd.entries)].index
  <2>1. disk' = [disk EXCEPT !.state = [hard |-> h, last |-> m]]
    BY Zenon DEF WriteRaftState
  <2>2. h \in HardStates
    <3>1. disk.state \in RaftStates \cup {None} /\ rd.hard \in HardStates \cup {None}
      BY <1>1, Zenon DEF PeerOk, PeerTypes, ReadyHolds
    <3> QED
      BY <3>1, Zenon DEF DiskHard, RaftStates, HardStates
  <2>3. m = Top
    <3>1. at # "idle" /\ Handed = Top
      BY <1>1, HandedIsTop, Zenon
    <3>2. CASE rd.entries = << >>
      BY <1>2, <3>2
    <3>3. CASE rd.entries # << >>
      BY <3>1, <3>3, Zenon DEF Handed
    <3> QED
      BY <3>2, <3>3, Zenon
  <2>4. [hard |-> h, last |-> m] \in RaftStates /\ [hard |-> h, last |-> m].last = Top
    <3> HIDE DEF h, m
    <3> QED
      BY <1>2, <2>2, <2>3 DEF RaftStates
  <2> QED
    BY <2>1, <2>4, Zenon
<1>5. /\ disk' \in [log : [1..MaxIndex -> Nat], state : RaftStates \cup {None}, applied : Nat]
      /\ disk'.state = st /\ disk'.log = disk.log /\ disk'.applied = disk.applied
  BY <1>4, Zenon DEF PeerOk, PeerTypes
<1>6. disk'.state # None /\ DiskLast(disk') = Top
  BY <1>4, <1>5, RawNodeAssumption, Zenon DEF DiskLast
<1>7. PeerTypes'
  BY <1>1, <1>3, <1>5, Zenon DEF PeerOk, PeerTypes, Steps
<1>8. \A i \in 1..Top : disk.log[i] = log.entries[i].term
  <2> SUFFICES ASSUME NEW i \in 1..Top PROVE disk.log[i] = log.entries[i].term
    BY Zenon
  <2>1. CASE i <= log.stabled
    BY <1>2, <2>1 DEF PeerOk, OnDisk
  <2>2. CASE i > log.stabled
    <3> DEFINE j == i - log.stabled
    <3>1. j \in 1..wrote /\ log.stabled + j = i
      BY <1>2, <2>2
    <3> HIDE DEF j
    <3>2. rd.entries[j] = log.entries[log.stabled + j] /\ disk.log[log.stabled + j] = rd.entries[j].term
      BY <1>1, <1>2, <3>1, Zenon DEF PeerOk, ReadyHolds, OnDisk
    <3> QED
      BY <3>1, <3>2, Zenon
  <2> QED
    BY <1>2, <2>1, <2>2
<1>9. OnDisk'
  <2>1. at' \notin {"idle", "log", "state"} /\ at' # "log" /\ at' # "state"
    BY <1>1, Zenon
  <2> QED
    BY <1>3, <1>5, <1>6, <1>8, <2>1, Zenon DEF OnDisk
<1>10. AppliedOnDisk'
  BY <1>1, <1>3, <1>5, Zenon DEF PeerOk, AppliedOnDisk
<1>11. ToldOnDisk'
  <2>1. \A i \in 1..DiskLast(disk) : i \in 1..Top
    BY <1>2
  <2> QED
    BY <1>1, <1>3, <1>6, <2>1, Zenon DEF PeerOk, ToldOnDisk
<1> QED
  BY <1>3, <1>7, <1>9, <1>10, <1>11, Zenon DEF PeerOk

\* Append responses leave the node when what they acknowledge is on disk.
LEMMA SendMessagesInv ==
  ASSUME PeerOk, SendMessages
  PROVE  PeerOk'
<1>1. at = "send" /\ at' = "apply" /\ AppOnly /\ UNCHANGED <<wrote, disk>>
  BY Zenon DEF SendMessages
<1>2. InPlace' /\ ReadyHolds' /\ Top' = Top /\ UNCHANGED <<log, rd, term, prevHard>>
  BY <1>1, AppKeeps, Zenon DEF Steps, PeerOk, PeerTypes
<1>3. PeerTypes'
  BY <1>1, <1>2, Zenon DEF PeerOk, PeerTypes, Steps
<1>4. DiskLast(disk) = Top
  BY <1>1, Zenon DEF PeerOk, OnDisk
<1>5. OnDisk' /\ AppliedOnDisk'
  BY <1>1, <1>2, Zenon DEF PeerOk, OnDisk, AppliedOnDisk
<1>6. ToldOnDisk'
  <2>1. told' = rd.seen \/ told' = told
    BY Zenon DEF SendMessages
  <2>2. \A e \in rd.seen : \E i \in 1..Top : log.entries[i] = e
    BY <1>1, Zenon DEF PeerOk, ReadyHolds
  <2> QED
    BY <1>1, <1>2, <1>4, <2>1, <2>2, Zenon DEF PeerOk, ToldOnDisk
<1> QED
  BY <1>2, <1>3, <1>5, <1>6, Zenon DEF PeerOk
\* The applied index on disk runs ahead of the one in memory until advance.
LEMMA WriteApplyStateInv ==
  ASSUME PeerOk, WriteApplyState
  PROVE  PeerOk'
<1>1. at = "apply" /\ at' = "advance" /\ AppOnly /\ UNCHANGED <<wrote, told>>
  BY Zenon DEF WriteApplyState
<1>2. InPlace' /\ ReadyHolds' /\ Top' = Top /\ UNCHANGED <<log, rd, term, prevHard>>
  BY <1>1, AppKeeps, Zenon DEF Steps, PeerOk, PeerTypes
<1>3. disk.state # None /\ DiskLast(disk) = Top /\ disk.applied = log.applied
  BY <1>1, Zenon DEF PeerOk, OnDisk, AppliedOnDisk
<1>4. /\ disk' \in [log : [1..MaxIndex -> Nat], state : RaftStates \cup {None}, applied : Nat]
      /\ disk'.state = disk.state /\ disk'.log = disk.log
      /\ disk'.applied = IF rd.committed # << >> THEN rd.committed[Len(rd.committed)].index ELSE log.applied
  <2>1. disk \in [log : [1..MaxIndex -> Nat], state : RaftStates \cup {None}, applied : Nat]
    BY Zenon DEF PeerOk, PeerTypes
  <2>2. CASE rd.committed = << >>
    BY <1>3, <2>1, <2>2, Zenon DEF WriteApplyState
  <2>3. CASE rd.committed # << >>
    <3> DEFINE n == rd.committed[Len(rd.committed)].index
    <3>1. rd.committed \in Seq(Entries)
      BY <1>1, Zenon DEF PeerOk, ReadyHolds
    <3>2. rd.committed[Len(rd.committed)] \in Entries
      BY <2>3, <3>1
    <3>3. n \in Nat
      BY <3>2, Zenon DEF Entries
    <3>4. disk' = [disk EXCEPT !.applied = n]
      BY <2>3, Zenon DEF WriteApplyState
    <3> HIDE DEF n
    <3>5. /\ disk' \in [log : [1..MaxIndex -> Nat], state : RaftStates \cup {None}, applied : Nat]
          /\ disk'.state = disk.state /\ disk'.log = disk.log /\ disk'.applied = n
      BY <2>1, <3>3, <3>4, Zenon
    <3> QED
      BY <2>3, <3>5, Zenon DEF n
  <2> QED
    BY <2>2, <2>3, Zenon
<1>5. PeerTypes'
  BY <1>1, <1>2, <1>4, Zenon DEF PeerOk, PeerTypes, Steps
<1>6. DiskLast(disk') = DiskLast(disk)
  BY <1>3, <1>4, Zenon DEF DiskLast
<1>7. OnDisk'
  <2>1. at' \notin {"idle", "log", "state"} /\ at' # "log" /\ at' # "state"
    BY <1>1, Zenon
  <2> QED
    BY <1>2, <1>3, <1>4, <1>6, <2>1, Zenon DEF PeerOk, OnDisk
<1>8. AppliedOnDisk'
  BY <1>1, <1>2, <1>4, Zenon DEF AppliedOnDisk
<1>9. ToldOnDisk'
  BY <1>1, <1>2, <1>6, Zenon DEF PeerOk, ToldOnDisk
<1> QED
  BY <1>2, <1>5, <1>7, <1>8, <1>9, Zenon DEF PeerOk

\* advance() moves the stable and the applied index to where the disk is.
LEMMA AdvanceInv ==
  ASSUME PeerOk, Advance
  PROVE  PeerOk'
<1>1. /\ at = "advance" /\ at' = "idle" /\ wrote' = 0 /\ UNCHANGED <<term, disk, told>>
      /\ log' = Advanced(log, rd)
  BY Zenon DEF Advance
<1>2. /\ log \in [entries : Seq(Entries), committed : Nat, applied : Nat, stabled : Nat]
      /\ DiskLast(disk) = Top /\ Top \in Nat /\ Top <= Len(log.entries) /\ disk.applied \in Nat
  BY <1>1, DiskLastBound, Zenon DEF PeerOk, PeerTypes, OnDisk
<1>3. log' = [log EXCEPT !.stabled = Top, !.applied = disk.applied]
  <2>1. (IF rd.entries = << >> THEN log.stabled ELSE rd.entries[Len(rd.entries)].index) = Top
    <3>1. CASE rd.entries = << >>
      BY <1>1, <1>2, <3>1 DEF Top
    <3>2. CASE rd.entries # << >>
      BY <1>1, <3>2, HandedIsTop, Zenon DEF Handed
    <3> QED
      BY <3>1, <3>2, Zenon
  <2>2. (IF rd.committed = << >> THEN log.applied ELSE rd.committed[Len(rd.committed)].index) = disk.applied
    BY <1>1, Zenon DEF PeerOk, AppliedOnDisk
  <2> QED
    BY <1>1, <1>2, <2>1, <2>2, Zenon DEF Advanced
<1>4. /\ log' \in [entries : Seq(Entries), committed : Nat, applied : Nat, stabled : Nat]
      /\ log'.entries = log.entries /\ log'.stabled = Top /\ log'.applied = disk.applied
  BY <1>2, <1>3, Zenon
<1>5. prevHard' \in HardStates
  BY <1>1, RawNodeAssumption, Zenon DEF Advance, PeerOk, PeerTypes, ReadyHolds
<1>6. PeerTypes'
  BY <1>1, <1>4, <1>5, Zenon DEF PeerOk, PeerTypes, Steps
<1>7. Top' = Top /\ InPlace'
  BY <1>1, <1>4, Zenon DEF Top, PeerOk, InPlace
<1>8. ReadyHolds'
  BY <1>1, <1>2, <1>4, <1>7, Zenon DEF ReadyHolds
<1>9. OnDisk' /\ AppliedOnDisk' /\ ToldOnDisk'
  BY <1>1, <1>2, <1>4 DEF PeerOk, OnDisk, AppliedOnDisk, ToldOnDisk
<1> QED
  BY <1>6, <1>7, <1>8, <1>9, Zenon DEF PeerOk

\* A restart reads back the log as far as it is on disk.
LEMMA RestartInv ==
  ASSUME PeerOk, PeerRestart
  PROVE  PeerOk'
<1> DEFINE L == DiskLast(disk)
<1>1. /\ at' = "idle" /\ wrote' = 0 /\ UNCHANGED <<disk, told>> /\ log' = LoadLog(disk)
      /\ term' = DiskHard(disk).term /\ prevHard' = DiskHard(disk)
  BY Zenon DEF PeerRestart
<1>2. /\ L \in Nat /\ L <= Len(log.entries) /\ Len(log.entries) <= MaxIndex /\ log.entries \in Seq(Entries)
      /\ disk.applied \in Nat
  BY DiskLastBound, Zenon DEF PeerOk, PeerTypes
<1>3. DiskHard(disk) \in HardStates
  BY Zenon DEF PeerOk, PeerTypes, DiskHard, RaftStates, HardStates
<1>4. /\ log'.entries = SubSeq(log.entries, 1, L) /\ log'.stabled = L /\ log'.applied = disk.applied
      /\ log' = [entries |-> SubSeq(log.entries, 1, L), committed |-> DiskHard(disk).commit, applied |-> disk.applied, stabled |-> L]
  BY <1>1, LoadIsPrefix, Zenon DEF LoadLog
<1> HIDE DEF L
<1>5. /\ log'.entries \in Seq(Entries) /\ Len(log'.entries) = L
      /\ \A i \in 1..L : log'.entries[i] = log.entries[i] /\ log.entries[i].index = i
  <2>1. \A i \in 1..L : log.entries[i].index = i
    BY <1>2 DEF PeerOk, InPlace
  <2> QED
    BY <1>2, <1>4, <2>1
<1>6. PeerTypes'
  <2>1. term' \in Nat /\ DiskHard(disk).commit \in Nat
    BY <1>1, <1>3, Zenon DEF HardStates
  <2>2. log' \in [entries : Seq(Entries), committed : Nat, applied : Nat, stabled : Nat]
    <3>1. SubSeq(log.entries, 1, L) \in Seq(Entries)
      BY <1>4, <1>5, Zenon
    <3> QED
      BY <1>2, <1>4, <2>1, <3>1
  <2> QED
    BY <1>1, <1>3, <2>1, <2>2, Zenon DEF PeerOk, PeerTypes, Steps
<1>7. InPlace'
  BY <1>2, <1>5, RawNodeAssumption DEF InPlace
<1>8. Top' = L
  BY <1>1, <1>4, Zenon DEF Top
<1>9. ReadyHolds'
  BY <1>1, <1>2, <1>5, <1>8 DEF ReadyHolds
<1>10. OnDisk'
  <2>1. /\ at' \notin {"send", "apply", "advance"} /\ at' # "log" /\ at' # "state"
        /\ at' \notin {"log", "state"}
    BY <1>1, Zenon
  <2>2. disk.state = None => disk.applied = 0
    BY Zenon DEF PeerOk, OnDisk
  <2>3. \A i \in 1..L : disk.log[i] = log'.entries[i].term
    BY <1>5, Zenon DEF PeerOk, OnDisk, L
  <2>4. DiskLast(disk') = L
    BY <1>1, Zenon DEF L
  <2> QED
    BY <1>1, <1>4, <2>1, <2>2, <2>3, <2>4, Zenon DEF OnDisk
<1>11. AppliedOnDisk' /\ ToldOnDisk'
  <2>1. AppliedOnDisk'
    BY <1>1, <1>4, Zenon DEF AppliedOnDisk
  <2>2. ToldOnDisk'
    <3>1. told' = told /\ DiskLast(disk') = L
      BY <1>1, Zenon DEF L
    <3>2. \A e \in told : \E i \in 1..L : log.entries[i] = e
      BY Zenon DEF PeerOk, ToldOnDisk, L
    <3> QED
      BY <1>5, <3>1, <3>2, Zenon DEF ToldOnDisk
  <2> QED
    BY <2>1, <2>2, Zenon
<1> QED
  BY <1>6, <1>7, <1>9, <1>10, <1>11, Zenon DEF PeerOk
LEMMA PeerNextInv == PeerInv /\ [PeerNext]_peerVars => PeerInv'
<1> SUFFICES ASSUME PeerInv, [PeerNext]_peerVars, clean' PROVE PeerOk'
  BY Zenon DEF PeerInv
<1>1. clean
  BY Zenon DEF peerVars, PeerNext, RaftAppend, RaftCommit, Ready, WriteRaftLog, WriteRaftState, SendMessages,
         WriteApplyState, Advance, PeerRestart, AppOnly
<1>2. PeerOk
  BY <1>1, Zenon DEF PeerInv
<1>3. CASE UNCHANGED peerVars
  <2>1. UNCHANGED <<log, term, prevHard, rd, at, wrote, disk, told>>
    BY <1>3, Zenon DEF peerVars
  <2>2. PeerTypes' /\ InPlace' /\ Top' = Top
    BY <1>2, <2>1, Zenon DEF PeerOk, PeerTypes, InPlace, Top
  <2>3. ReadyHolds' /\ OnDisk'
    BY <1>2, <2>1, <2>2, Zenon DEF PeerOk, ReadyHolds, OnDisk
  <2>4. AppliedOnDisk' /\ ToldOnDisk'
    BY <1>2, <2>1, Zenon DEF PeerOk, AppliedOnDisk, ToldOnDisk
  <2> QED
    BY <2>2, <2>3, <2>4, Zenon DEF PeerOk
<1> QED
  BY <1>2, <1>3, AppendInv, CommitInv, ReadyInv, WriteRaftLogInv, WriteRaftStateInv, SendMessagesInv,
     WriteApplyStateInv, AdvanceInv, RestartInv, Zenon DEF PeerNext

-----------------------------------------------------------------------------
(* What the application may rely on.                                       *)

\* An entry that was acknowledged is in memory and on disk (rawnode.rs ready and
\* advance, peer_storage.rs write_raft_log and read_raft_log), wherever a crash
\* falls between the steps of the application.
THEOREM AcknowledgedStays == PeerSpec => []AcknowledgedIsDurable
<1>1. PeerInv => AcknowledgedIsDurable
  <2> SUFFICES ASSUME PeerOk, NEW e \in told
               PROVE  /\ \E i \in DOMAIN log.entries : log.entries[i] = e
                      /\ \E i \in DOMAIN LoadLog(disk).entries : LoadLog(disk).entries[i] = e
    BY Zenon DEF PeerInv, AcknowledgedIsDurable
  <2>1. PICK i \in 1..DiskLast(disk) : log.entries[i] = e
    BY Zenon DEF PeerOk, ToldOnDisk
  <2>2. /\ DiskLast(disk) \in Nat /\ DiskLast(disk) <= Len(log.entries)
        /\ log.entries \in Seq(Entries)
    BY DiskLastBound, Zenon DEF PeerOk, PeerTypes
  <2> DEFINE es == SubSeq(log.entries, 1, DiskLast(disk))
  <2>3. i \in DOMAIN log.entries /\ i \in DOMAIN es /\ es[i] = log.entries[i]
    BY <2>2
  <2> QED
    BY <2>1, <2>3, LoadIsPrefix, Zenon
<1> QED
  BY <1>1, PeerInitInv, PeerNextInv, PTL DEF PeerSpec

\* The entries of a Ready continue where the applied index on disk ends (log.rs
\* next_entries, rawnode.rs advance), over any number of restarts.
THEOREM AppliedInOrder == PeerSpec => []AppliesInOrder
<1>1. PeerInv => AppliesInOrder
  <2> SUFFICES ASSUME PeerOk, at \in {"log", "state", "send", "apply"}, NEW i \in DOMAIN rd.committed
               PROVE  rd.committed[i].index = disk.applied + i
    BY Zenon DEF PeerInv, AppliesInOrder
  <2>1. rd.committed \in Seq(Entries) /\ disk.applied = log.applied
        /\ \A j \in 1..Len(rd.committed) : rd.committed[j].index = log.applied + j
    BY Zenon DEF PeerOk, ReadyHolds, AppliedOnDisk
  <2>2. i \in 1..Len(rd.committed)
    BY <2>1
  <2> QED
    BY <2>1, <2>2, Zenon
<1> QED
  BY <1>1, PeerInitInv, PeerNextInv, PTL DEF PeerSpec

\* has_ready is true exactly when ready would hand out something (rawnode.rs
\* has_ready and ready).
THEOREM ReadyIsAnnounced == PeerSpec => []HasReadyIsExact
<1>1. PeerInv => HasReadyIsExact
  <2> SUFFICES ASSUME PeerOk, at = "idle", ~ReadyPanics
               PROVE  has_ready <=> NonEmpty(NewReady)
    BY Zenon DEF PeerInv, HasReadyIsExact
  <2>1. /\ log.entries \in Seq(Entries) /\ log.stabled \in Nat /\ log.stabled <= Len(log.entries)
        /\ log.applied \in Nat /\ log.committed \in Nat
    BY DiskLastBound DEF PeerOk, PeerTypes
  <2>2. Hard # None
    BY RawNodeAssumption DEF PeerOk, PeerTypes, Hard, HardStates
  <2>3. NewReady.hard # None <=> Hard # prevHard /\ Hard # [term |-> 0, commit |-> 0]
    BY <2>2, Zenon DEF NewReady
  <2>4. NewReady.entries # << >> <=> last_index(log) > log.stabled
    <3>1. NewReady.entries = SubSeq(log.entries, log.stabled + 1, Len(log.entries))
      BY <2>1, Indexes, Zenon DEF NewReady, unstable_entries
    <3>2. NewReady.entries # << >> <=> log.stabled < Len(log.entries)
      <4> DEFINE u == log.entries
                 b == log.stabled
                 m == Len(log.entries)
                 t == NewReady.entries
      <4>1. u \in Seq(Entries) /\ b \in Nat /\ m \in Nat /\ m <= Len(u) /\ t = SubSeq(u, b + 1, m)
        BY <2>1, <3>1
      <4> HIDE DEF u, b, m, t
      <4>2. t # << >> <=> b < m
        BY <4>1, Slice, Zenon
      <4> QED
        BY <4>2, Zenon DEF b, m, t
    <3> QED
      BY <2>1, <3>2, Indexes, Zenon
  <2>5. NewReady.committed # << >> <=> log.applied < log.committed
    <3>1. CASE log.applied < log.committed
      <4>1. NextEnd(log) = IF log.committed < Len(log.entries) THEN log.committed ELSE Len(log.entries)
        BY <2>1, Indexes, Zenon DEF NextEnd
      <4>2. ~(NextEnd(log) + 1 > Len(log.entries))
        BY <3>1, Zenon DEF ReadyPanics, NextPanics
      <4>3. NewReady.committed = SubSeq(log.entries, log.applied + 1, NextEnd(log) + 1)
        BY <2>1, <3>1, Indexes, Zenon DEF NewReady, next_entries
      <4> QED
        <5>1. NextEnd(log) + 1 \in Nat /\ NextEnd(log) + 1 <= Len(log.entries) /\ log.applied < NextEnd(log) + 1
          BY <2>1, <3>1, <4>1, <4>2
        <5> DEFINE u == log.entries
                   b == log.applied
                   m == NextEnd(log) + 1
                   t == NewReady.committed
        <5>2. u \in Seq(Entries) /\ b \in Nat /\ m \in Nat /\ m <= Len(u) /\ t = SubSeq(u, b + 1, m) /\ b < m
          BY <2>1, <4>3, <5>1, Zenon
        <5> HIDE DEF u, b, m, t
        <5>3. t # << >>
          BY <5>2, Slice, Zenon
        <5> QED
          BY <3>1, <5>3, Zenon DEF t
    <3>2. CASE ~(log.applied < log.committed)
      BY <3>2, Zenon DEF NewReady
    <3> QED
      BY <3>1, <3>2, Zenon
  <2>6. NewReady.messages = pending
    BY Zenon DEF NewReady
  <2> QED
    BY <2>3, <2>4, <2>5, <2>6, Zenon DEF has_ready, NonEmpty
<1> QED
  BY <1>1, PeerInitInv, PeerNextInv, PTL DEF PeerSpec

-----------------------------------------------------------------------------
(* Region splits. *)

\* A set of positions has a last element ...
LEMMA LastPosition ==
  ASSUME NEW n \in Nat, NEW S \in SUBSET (1..n), S # {}
  PROVE  \E i \in S : \A j \in S : j <= i
<1> DEFINE T == {i..n : i \in S}
<1>1. T \subseteq FiniteSubsetsOf(Nat) /\ T # {}
  <2>1. ASSUME NEW i \in S PROVE i..n \in FiniteSubsetsOf(Nat)
    <3>1. i \in Int /\ n \in Int /\ i..n \in SUBSET Nat
      OBVIOUS
    <3> QED
      BY <3>1, FS_Interval, Zenon DEF FiniteSubsetsOf
  <2> QED
    BY <2>1, Zenon
<1> HIDE DEF T
<1>2. PICK x \in T : \A y \in T : ~ (<<y, x>> \in StrictSubsetOrdering(Nat))
  BY <1>1, FS_StrictSubsetOrderingWellFounded, WFMin, Zenon
<1>3. PICK i \in S : x = i..n
  BY <1>2, Zenon DEF T
<1>4. ASSUME NEW j \in S, j > i PROVE FALSE
  <2>1. j..n \in T
    BY Zenon DEF T
  <2>2. i \notin j..n /\ i \in i..n /\ j..n \subseteq i..n /\ j..n \in SUBSET Nat /\ i..n \in SUBSET Nat
    BY <1>4
  <2>3. <<j..n, x>> \in StrictSubsetOrdering(Nat)
    BY <1>3, <2>2, Zenon DEF StrictSubsetOrdering
  <2> QED
    BY <1>2, <2>1, <2>3, Zenon
<1> QED
  BY <1>4

\* ... and a first one.
LEMMA FirstPosition ==
  ASSUME NEW n \in Nat, NEW S \in SUBSET (1..n), S # {}
  PROVE  \E i \in S : \A j \in S : i <= j
<1> DEFINE T == {n + 1 - i : i \in S}
<1>1. T \in SUBSET (1..n) /\ T # {}
  <2>1. \A i \in S : n + 1 - i \in 1..n
    OBVIOUS
  <2> QED
    BY <2>1, Zenon
<1>2. PICK m \in T : \A j \in T : j <= m
  <2> HIDE DEF T
  <2> QED
    BY <1>1, LastPosition, Zenon
<1>3. PICK i \in S : m = n + 1 - i
  BY <1>2, Zenon
<1>4. ASSUME NEW j \in S PROVE i <= j
  <2>1. n + 1 - j \in T
    BY Zenon
  <2>2. n + 1 - j <= n + 1 - i
    BY <1>2, <1>3, <2>1, Zenon
  <2> QED
    BY <2>2
<1> QED
  BY <1>4, Zenon

-----------------------------------------------------------------------------
(* The list of ranges. *)

PairT == [start : Nat, id : Ids]
IsSorted(rs) == \A i, j \in DOMAIN rs : i < j => rs[i].start <= rs[j].start
Distinct(rs) == \A i, j \in DOMAIN rs : rs[i].id = rs[j].id => i = j
ListOK(rs) == rs \in Seq(PairT) /\ IsSorted(rs) /\ Distinct(rs)

\* No later pair starts at the same key.
IsLast(rs, i) == \A j \in DOMAIN rs : j > i => rs[j].start # rs[i].start

\* new has the pairs of rs of other regions than id, in the same order.
Others(rs, id, new) ==
  /\ \A i \in DOMAIN new : new[i].id # id /\ \E k \in DOMAIN rs : new[i] = rs[k]
  /\ \A k \in DOMAIN rs : rs[k].id # id => \E i \in DOMAIN new : new[i] = rs[k]
  /\ \A k, l \in DOMAIN rs, i \in DOMAIN new :
       k < l /\ rs[l].id # id /\ new[i] = rs[k] => \E j \in DOMAIN new : i < j /\ new[j] = rs[l]

\* The positions and the pairs of a list.
LEMMA ListTyped ==
  ASSUME NEW rs, ListOK(rs)
  PROVE  /\ Len(rs) \in Nat /\ DOMAIN rs = 1..Len(rs)
         /\ \A i \in DOMAIN rs : rs[i] \in PairT /\ rs[i].start \in Nat /\ rs[i].id \in Ids
<1>1. rs \in Seq(PairT)
  BY Zenon DEF ListOK
<1>2. Len(rs) \in Nat /\ DOMAIN rs = 1..Len(rs) /\ \A i \in DOMAIN rs : rs[i] \in PairT
  BY <1>1
<1>3. \A q \in PairT : q.start \in Nat /\ q.id \in Ids
  BY DEF PairT
<1> QED
  BY <1>2, <1>3, Zenon

\* retain keeps the other pairs in their order.
LEMMA RetainedOthers ==
  ASSUME NEW rs, ListOK(rs), NEW id \in Ids
  PROVE  ListOK(Retained(rs, id)) /\ Others(rs, id, Retained(rs, id))
<1> DEFINE new == Retained(rs, id)
<1> DEFINE own == {i \in DOMAIN rs : rs[i].id = id}
<1>0. /\ Len(rs) \in Nat /\ DOMAIN rs = 1..Len(rs)
      /\ \A i \in DOMAIN rs : rs[i] \in PairT
      /\ \A i, j \in DOMAIN rs : rs[i].id = rs[j].id => i = j
  BY ListTyped, Zenon DEF ListOK, Distinct
<1>1. CASE own = {}
  <2>1. new = rs
    BY <1>1, Zenon DEF Retained
  <2>2. \A i \in DOMAIN rs : rs[i].id # id
    BY <1>1, Zenon
  <2>3. \A k, i \in DOMAIN rs : rs[i] = rs[k] => i = k
    BY <1>0, Zenon
  <2>4. Others(rs, id, rs)
    BY <2>2, <2>3, Zenon DEF Others
  <2> QED
    BY <2>1, <2>4, Zenon
<1>2. CASE own # {}
  <2> DEFINE gap == CHOOSE i \in own : TRUE
             old(j) == IF j < gap THEN j ELSE j + 1
  <2>1. gap \in DOMAIN rs /\ rs[gap].id = id
    BY <1>2, Zenon
  <2>2. new = [j \in 1..(Len(rs) - 1) |-> IF j < gap THEN rs[j] ELSE rs[j + 1]]
    BY <1>2, Zenon DEF Retained
  <2> HIDE DEF gap, own, new
  <2>3. DOMAIN new = 1..(Len(rs) - 1) /\ Len(rs) - 1 \in Nat
    BY <1>0, <2>1, <2>2
  <2>4. \A j \in DOMAIN new : old(j) \in DOMAIN rs /\ old(j) # gap /\ new[j] = rs[old(j)]
    BY <1>0, <2>1, <2>2, <2>3
  <2>5. \A k \in DOMAIN rs : k # gap => \E j \in DOMAIN new : old(j) = k
    <3> SUFFICES ASSUME NEW k \in DOMAIN rs, k # gap PROVE \E j \in DOMAIN new : old(j) = k
      OBVIOUS
    <3>1. CASE k < gap
      BY <1>0, <2>1, <2>3, <3>1
    <3>2. CASE k > gap
      <4>1. k - 1 \in DOMAIN new /\ old(k - 1) = k
        BY <1>0, <2>1, <2>3, <3>2
      <4> QED
        BY <4>1, Zenon
    <3> QED
      BY <1>0, <2>1, <3>1, <3>2
  <2>6. \A i, j \in DOMAIN new : (i < j <=> old(i) < old(j)) /\ (old(i) = old(j) => i = j)
    BY <1>0, <2>1, <2>3
  <2> HIDE DEF old
  <2>7. \A j \in DOMAIN new : rs[old(j)] \in PairT
    BY <1>0, <2>4
  <2>8. new \in Seq(PairT)
    BY <2>2, <2>3, <2>4, <2>7
  <2>9. IsSorted(new) /\ Distinct(new)
    <3>1. IsSorted(new)
      BY <2>4, <2>6, Zenon DEF IsSorted, ListOK
    <3>2. Distinct(new)
      BY <1>0, <2>4, <2>6, Zenon DEF Distinct
    <3> QED
      BY <3>1, <3>2, Zenon
  <2>10. \A k \in DOMAIN rs : rs[k].id # id => \E i \in DOMAIN new : old(i) = k /\ new[i] = rs[k]
    BY <2>1, <2>4, <2>5, Zenon
  <2>11. \A i \in DOMAIN new : new[i].id # id
    BY <1>0, <2>1, <2>4, Zenon
  <2>12. ASSUME NEW k \in DOMAIN rs, NEW l \in DOMAIN rs, NEW i \in DOMAIN new, k < l, rs[l].id # id,
                new[i] = rs[k]
         PROVE  \E j \in DOMAIN new : i < j /\ new[j] = rs[l]
    <3>1. old(i) = k
      BY <1>0, <2>4, <2>12, Zenon
    <3>2. PICK j \in DOMAIN new : old(j) = l /\ new[j] = rs[l]
      BY <2>10, <2>12, Zenon
    <3> QED
      BY <2>6, <2>12, <3>1, <3>2, Zenon
  <2>13. \A k \in DOMAIN rs : rs[k].id # id => \E i \in DOMAIN new : new[i] = rs[k]
    BY <2>10, Zenon
  <2>14. \A i \in DOMAIN new : new[i].id # id /\ \E k \in DOMAIN rs : new[i] = rs[k]
    BY <2>4, <2>11, Zenon
  <2>15. \A k, l \in DOMAIN rs, i \in DOMAIN new :
           k < l /\ rs[l].id # id /\ new[i] = rs[k] => \E j \in DOMAIN new : i < j /\ new[j] = rs[l]
    BY <2>12, Zenon
  <2>16. Others(rs, id, new)
    BY <2>13, <2>14, <2>15, Zenon DEF Others
  <2> QED
    BY <2>8, <2>9, <2>16, Zenon DEF ListOK, new
<1> QED
  BY <1>1, <1>2, Zenon

\* new has the pairs of rs and this one, which stands behind the pairs that start at
\* the same key; a pair that is now the last one of its start key is this one, or
\* was the last one before.
Entered(rs, pair, new) ==
  /\ \E p \in DOMAIN new : new[p] = pair
  /\ \A i \in DOMAIN new : new[i] = pair \/ \E k \in DOMAIN rs : new[i] = rs[k]
  /\ \A k \in DOMAIN rs : \E i \in DOMAIN new : new[i] = rs[k]
  /\ \A i \in DOMAIN new : IsLast(new, i) /\ new[i] # pair =>
       new[i].start # pair.start /\ \E k \in DOMAIN rs : new[i] = rs[k] /\ IsLast(rs, k)

\* set_region enters the pair of g and keeps the other pairs in their order.
LEMMA Inserted ==
  ASSUME NEW rs, ListOK(rs), NEW g, g.id \in Ids, g.start \in Nat,
         \A i \in DOMAIN rs : rs[i].id = g.id => rs[i].start = g.start,
         NEW new, new = SortedRanges(rs, g),
         NEW pair, pair = [start |-> g.start, id |-> g.id]
  PROVE  ListOK(new) /\ Entered(rs, pair, new)
<1> DEFINE kept == Retained(rs, g.id)
           n == Len(kept)
           stays == {j \in 1..n : kept[j].start <= g.start}
<1>1. ListOK(kept) /\ Others(rs, g.id, kept)
  BY RetainedOthers, Zenon
<1>2. new = [j \in 1..(n + 1) |->
               IF j <= n /\ kept[j].start <= g.start THEN kept[j]
               ELSE IF j = 1 \/ kept[j - 1].start <= g.start THEN pair
               ELSE kept[j - 1]]
  BY Zenon DEF SortedRanges
<1> HIDE DEF kept
<1>3. /\ n \in Nat /\ DOMAIN kept = 1..n
      /\ \A j \in 1..n : kept[j] \in PairT /\ kept[j].start \in Nat
      /\ pair \in PairT /\ pair.start = g.start /\ pair.id = g.id
  <2>1. pair \in PairT /\ pair.start = g.start /\ pair.id = g.id
    BY DEF PairT
  <2> QED
    BY <1>1, <2>1, ListTyped, Zenon
<1> HIDE DEF n
<1>4. PICK c \in 0..n : \A j \in 1..n : kept[j].start <= g.start <=> j <= c
  <2>1. CASE stays = {}
    <3>1. 0 \in 0..n /\ \A j \in 1..n : ~(kept[j].start <= g.start) /\ ~(j <= 0)
      BY <1>3, <2>1
    <3> QED
      BY <3>1, Zenon
  <2>2. CASE stays # {}
    <3>1. PICK c \in stays : \A j \in stays : j <= c
      BY <1>3, <2>2, LastPosition, Zenon
    <3>2. c \in 0..n /\ c \in 1..n /\ kept[c].start <= g.start
      BY <1>3, <3>1
    <3>3. \A j \in 1..n : j < c => kept[j].start <= kept[c].start
      BY <1>1, <1>3, <3>2, Zenon DEF ListOK, IsSorted
    <3>4. \A j \in 1..n : j <= c => kept[j].start <= g.start
      <4> SUFFICES ASSUME NEW j \in 1..n, j <= c PROVE kept[j].start <= g.start
        OBVIOUS
      <4>1. CASE j = c
        BY <3>2, <4>1, Zenon
      <4>2. CASE j < c
        BY <1>3, <3>2, <3>3, <4>2
      <4> QED
        BY <1>3, <3>2, <4>1, <4>2
    <3>5. \A j \in 1..n : kept[j].start <= g.start => j <= c
      BY <3>1, Zenon
    <3> QED
      BY <3>2, <3>4, <3>5, Zenon
  <2> QED
    BY <2>1, <2>2, Zenon
<1> HIDE DEF stays
<1>5. \A j \in 1..(n + 1) : new[j] = IF j <= c THEN kept[j] ELSE IF j = c + 1 THEN pair ELSE kept[j - 1]
  <2> SUFFICES ASSUME NEW j \in 1..(n + 1)
               PROVE  new[j] = IF j <= c THEN kept[j] ELSE IF j = c + 1 THEN pair ELSE kept[j - 1]
    OBVIOUS
  <2>1. CASE j <= c
    <3>1. j <= n /\ kept[j].start <= g.start
      BY <1>3, <1>4, <2>1
    <3> QED
      BY <1>2, <2>1, <3>1
  <2>2. CASE j = c + 1
    <3>1. ~(j <= n /\ kept[j].start <= g.start) /\ ~(j <= c)
      BY <1>3, <1>4, <2>2
    <3>2. j = 1 \/ kept[j - 1].start <= g.start
      BY <1>3, <1>4, <2>2
    <3> QED
      BY <1>2, <2>2, <3>1, <3>2
  <2>3. CASE j > c + 1
    <3>1. ~(j <= n /\ kept[j].start <= g.start) /\ ~(j <= c) /\ j # c + 1
      BY <1>3, <1>4, <2>3
    <3>2. ~(j = 1 \/ kept[j - 1].start <= g.start)
      BY <1>3, <1>4, <2>3
    <3> QED
      BY <1>2, <3>1, <3>2
  <2> QED
    BY <1>3, <2>1, <2>2, <2>3
<1>6. DOMAIN new = 1..(n + 1) /\ c + 1 \in DOMAIN new /\ new[c + 1] = pair
  BY <1>2, <1>3, <1>5
<1> DEFINE pos(k) == IF k <= c THEN k ELSE k + 1
<1>7. \A k \in 1..n : pos(k) \in DOMAIN new /\ new[pos(k)] = kept[k] /\ pos(k) # c + 1
  BY <1>3, <1>5, <1>6
<1>8. \A j \in DOMAIN new : j # c + 1 => \E k \in 1..n : j = pos(k)
  <2> SUFFICES ASSUME NEW j \in DOMAIN new, j # c + 1 PROVE \E k \in 1..n : j = pos(k)
    OBVIOUS
  <2>1. CASE j <= c
    BY <1>3, <1>6, <2>1
  <2>2. CASE j > c + 1
    <3>1. j - 1 \in 1..n /\ j = pos(j - 1)
      BY <1>3, <1>6, <2>2
    <3> QED
      BY <3>1, Zenon
  <2> QED
    BY <1>3, <1>6, <2>1, <2>2
<1>9. \A k, l \in 1..n : (pos(k) < pos(l) <=> k < l) /\ (pos(k) = pos(l) => k = l)
  BY <1>3
<1>10. \A k \in 1..n : /\ pos(k) < c + 1 <=> kept[k].start <= g.start
                       /\ c + 1 < pos(k) <=> ~(kept[k].start <= g.start)
  BY <1>3, <1>4
<1> HIDE DEF pos
<1>11. new \in Seq(PairT)
  <2>1. \A j \in 1..(n + 1) : new[j] \in PairT
    <3> SUFFICES ASSUME NEW j \in DOMAIN new PROVE new[j] \in PairT
      BY <1>6, Zenon
    <3>1. CASE j = c + 1
      BY <1>3, <1>6, <3>1, Zenon
    <3>2. CASE j # c + 1
      <4>1. PICK k \in 1..n : j = pos(k)
        BY <1>8, <3>2, Zenon
      <4> QED
        BY <1>3, <1>7, <4>1, Zenon
    <3> QED
      BY <3>1, <3>2, Zenon
  <2> QED
    BY <1>2, <1>3, <2>1
<1>12. IsSorted(new)
  <2> SUFFICES ASSUME NEW i \in DOMAIN new, NEW j \in DOMAIN new, i < j
               PROVE  new[i].start <= new[j].start
    BY Zenon DEF IsSorted
  <2>0. ~(c + 1 < c + 1)
    BY <1>3
  <2>1. CASE i = c + 1
    <3>1. PICK l \in 1..n : j = pos(l)
      BY <1>8, <2>0, <2>1, Zenon
    <3>2. new[j] = kept[l] /\ ~(kept[l].start <= g.start)
      BY <1>7, <1>10, <2>1, <3>1, Zenon
    <3> QED
      BY <1>3, <1>6, <2>1, <3>2
  <2>2. CASE j = c + 1
    <3>1. PICK k \in 1..n : i = pos(k)
      BY <1>8, <2>0, <2>2, Zenon
    <3> QED
      BY <1>3, <1>6, <1>7, <1>10, <2>2, <3>1, Zenon
  <2>3. CASE i # c + 1 /\ j # c + 1
    <3>1. PICK k \in 1..n : i = pos(k)
      BY <1>8, <2>3, Zenon
    <3>2. PICK l \in 1..n : j = pos(l)
      BY <1>8, <2>3, Zenon
    <3> QED
      <4>1. k < l /\ k \in DOMAIN kept /\ l \in DOMAIN kept
        BY <1>3, <1>9, <3>1, <3>2, Zenon
      <4>2. kept[k].start <= kept[l].start
        BY <1>1, <4>1, Zenon DEF ListOK, IsSorted
      <4> QED
        BY <1>7, <3>1, <3>2, <4>2, Zenon
  <2> QED
    BY <2>1, <2>2, <2>3, Zenon
<1>13. Distinct(new)
  <2> SUFFICES ASSUME NEW i \in DOMAIN new, NEW j \in DOMAIN new, new[i].id = new[j].id
               PROVE  i = j
    BY Zenon DEF Distinct
  <2>1. \A q \in DOMAIN new : q # c + 1 => new[q].id # g.id
    <3>1. \A k \in 1..n : kept[k].id # g.id
      BY <1>1, <1>3, Zenon DEF Others
    <3> SUFFICES ASSUME NEW q \in DOMAIN new, q # c + 1 PROVE new[q].id # g.id
      BY Zenon
    <3>2. PICK k \in 1..n : q = pos(k)
      BY <1>8, Zenon
    <3> QED
      BY <1>7, <3>1, <3>2, Zenon
  <2>2. CASE i = c + 1 \/ j = c + 1
    BY <1>3, <1>6, <2>1, <2>2, Zenon
  <2>3. CASE i # c + 1 /\ j # c + 1
    <3>1. PICK k \in 1..n : i = pos(k)
      BY <1>8, <2>3, Zenon
    <3>2. PICK l \in 1..n : j = pos(l)
      BY <1>8, <2>3, Zenon
    <3> QED
      <4>1. kept[k].id = kept[l].id /\ k \in DOMAIN kept /\ l \in DOMAIN kept
        BY <1>3, <1>7, <3>1, <3>2, Zenon
      <4>2. k = l
        BY <1>1, <4>1, Zenon DEF ListOK, Distinct
      <4> QED
        BY <3>1, <3>2, <4>2, Zenon
  <2> QED
    BY <2>2, <2>3, Zenon
<1>14. \A i \in DOMAIN new : new[i] = pair \/ \E k \in DOMAIN rs : new[i] = rs[k]
  <2>1. \A k \in 1..n : \E l \in DOMAIN rs : kept[k] = rs[l]
    BY <1>1, <1>3, Zenon DEF Others
  <2> SUFFICES ASSUME NEW i \in DOMAIN new, i # c + 1 PROVE \E k \in DOMAIN rs : new[i] = rs[k]
    BY <1>6, Zenon
  <2>2. PICK k \in 1..n : i = pos(k)
    BY <1>8, Zenon
  <2> QED
    BY <1>7, <2>1, <2>2, Zenon
<1>15. ASSUME NEW k \in DOMAIN rs PROVE \E i \in DOMAIN new : new[i] = rs[k]
  <2>1. CASE rs[k].id # g.id
    <3>1. \E i \in 1..n : kept[i] = rs[k]
      BY <1>1, <1>3, <2>1, Zenon DEF Others
    <3> QED
      BY <1>7, <3>1, Zenon
  <2>2. CASE rs[k].id = g.id
    <3>1. rs[k] \in PairT /\ rs[k].start = g.start
      BY <2>2 DEF ListOK
    <3>2. rs[k] = pair
      BY <2>2, <3>1 DEF PairT
    <3> QED
      BY <1>6, <3>2, Zenon
  <2> QED
    BY <2>1, <2>2, Zenon
<1>16. ASSUME NEW i \in DOMAIN new, IsLast(new, i), new[i] # pair
       PROVE  new[i].start # g.start /\ \E k \in DOMAIN rs : new[i] = rs[k] /\ IsLast(rs, k)
  <2>1. PICK m \in 1..n : i = pos(m) /\ new[i] = kept[m]
    BY <1>6, <1>7, <1>8, <1>16, Zenon
  <2>2. new[i].start # g.start
    <3> SUFFICES ASSUME new[i].start = g.start PROVE FALSE
      OBVIOUS
    <3>1. kept[m].start <= g.start
      BY <1>3, <2>1
    <3>2. i < c + 1
      BY <1>10, <2>1, <3>1, Zenon
    <3>3. c + 1 > i
      BY <1>3, <1>6, <3>2
    <3> QED
      BY <1>3, <1>6, <1>16, <3>3, Zenon DEF IsLast
  <2>3. PICK k \in DOMAIN rs : kept[m] = rs[k]
    BY <1>1, <1>3, Zenon DEF Others
  <2>4. IsLast(rs, k)
    <3> SUFFICES ASSUME NEW l \in DOMAIN rs, l > k, rs[l].start = rs[k].start PROVE FALSE
      BY Zenon DEF IsLast
    <3>1. rs[l].id # g.id
      BY <2>1, <2>2, <2>3, Zenon
    <3>2. k < l
      BY ListTyped
    <3>3. PICK j \in 1..n : m < j /\ kept[j] = rs[l]
      <4>1. m \in DOMAIN kept
        BY <1>3, Zenon
      <4>2. \E j \in DOMAIN kept : m < j /\ kept[j] = rs[l]
        BY <1>1, <2>3, <3>1, <3>2, <4>1, Zenon DEF Others
      <4> QED
        BY <1>3, <4>2, Zenon
    <3>4. pos(j) \in DOMAIN new /\ new[pos(j)] = rs[l] /\ i < pos(j)
      BY <1>7, <1>9, <2>1, <3>3, Zenon
    <3>5. pos(j) > i
      BY <1>3, <1>6, <3>4
    <3> QED
      BY <1>16, <2>1, <2>3, <3>4, <3>5, Zenon DEF IsLast
  <2> QED
    BY <2>1, <2>2, <2>3, <2>4, Zenon
<1>17. \A i \in DOMAIN new : IsLast(new, i) /\ new[i] # pair =>
         new[i].start # pair.start /\ \E k \in DOMAIN rs : new[i] = rs[k] /\ IsLast(rs, k)
  BY <1>3, <1>16, Zenon
<1>18. Entered(rs, pair, new)
  BY <1>6, <1>14, <1>15, <1>17, Zenon DEF Entered
<1> QED
  BY <1>11, <1>12, <1>13, <1>18, Zenon DEF ListOK

-----------------------------------------------------------------------------
(* Regions and halves. *)

\* The keys a region may start or end with.
Bounds == 0..NRegionKeys
RegionT == [id : Ids, start : Bounds, end : Bounds, ver : Nat, conf : Nat]
MessageT == [ver : Nat, key : Bounds]
TaskT == [at : {"ask", "admin"}, id : Ids, key : RegionKeys, new : Ids \cup {NoRegion}]

Known == {id \in Ids : regionOf[id] # NoRegion}
Pieces == {regionOf[id] : id \in Known} \cup halves
Allocated == {NewIds[n] : n \in 1..allocated}
Admin == {t \in asks : t.at = "admin"}

SplitsTypeOK ==
  /\ regionOf \in [Ids -> RegionT \cup {NoRegion}]
  /\ \A id \in Known : regionOf[id].id = id
  /\ peerRegion \in [Ids -> RegionT \cup {NoRegion}]
  /\ mailbox \in [Ids -> Seq(MessageT)]
  /\ asks \subseteq TaskT /\ halves \subseteq RegionT
  /\ allocated \in 0..Len(NewIds)

\* Messages, tasks and peers are those of regions the store knows.
AddressedOK ==
  /\ \A id \in Ids : peerRegion[id] # NoRegion => id \in Known
  /\ \A id \in Ids : mailbox[id] # <<>> => id \in Known
  /\ \A t \in asks : t.id \in Known

\* An id of PD belongs to one task, then to one half, then to one region.
FreshOK ==
  /\ Known \subseteq {FirstId} \cup Allocated
  /\ \A h \in halves : h.id \in Allocated \ Known
  /\ \A h, i \in halves : h.id = i.id => h = i
  /\ \A t \in Admin : t.new \in Allocated \ Known /\ \A h \in halves : h.id # t.new
  /\ \A t, u \in Admin : t.new = u.new => t = u

\* The regions and the halves still to be entered partition the keys.
PartitionOK ==
  /\ \A k \in Bounds : \E x \in Pieces : KeyInRegion(k, x)
  /\ \A k \in Bounds, x, y \in Pieces : KeyInRegion(k, x) /\ KeyInRegion(k, y) => x = y
  /\ \A h \in halves : KeyInRegion(h.start, h)

\* The list has one pair for every region the store knows.
RangesOK ==
  /\ ListOK(ranges)
  /\ \A i \in DOMAIN ranges :
       ranges[i].id \in Known /\ regionOf[ranges[i].id].start = ranges[i].start
  /\ \A id \in Known : \E i \in DOMAIN ranges : ranges[i].id = id

\* A split at the start key of a region leaves it without a key.  The last pair of
\* a start key is never that of such a region, unless the half that takes over its
\* keys is still to be entered.
LastOK ==
  \A i \in DOMAIN ranges : IsLast(ranges, i) =>
    \/ KeyInRegion(ranges[i].start, regionOf[ranges[i].id])
    \/ \E h \in halves : h.start = ranges[i].start

SplitsInv == SplitsTypeOK /\ AddressedOK /\ FreshOK /\ PartitionOK /\ RangesOK /\ LastOK

\* A piece is a half or a region.
LEMMA PiecesAre ==
  /\ \A x : x \in Pieces <=> x \in halves \/ \E id \in Known : x = regionOf[id]
  /\ \A x : x \in Pieces' <=> x \in halves' \/ \E id \in Known' : x = regionOf'[id]
BY Zenon DEF Pieces

\* What the ids are.
LEMMA IdsFacts ==
  /\ Len(NewIds) \in Nat /\ NRegionKeys \in Nat
  /\ \A n \in 1..Len(NewIds) : NewIds[n] \in Ids /\ NewIds[n] # FirstId
  /\ \A m, n \in 1..Len(NewIds) : NewIds[m] = NewIds[n] => m = n
  /\ FirstId \in Ids /\ NoRegion \notin RegionT
<1>1. Len(NewIds) \in Nat /\ NRegionKeys \in Nat /\ DOMAIN NewIds = 1..Len(NewIds)
  BY SplitsAssumption
<1>2. NoRegion \notin RegionT
  <2>1. RegionT \subseteq [id : Ids, start : Nat, end : Nat, ver : Nat, conf : Nat]
    BY <1>1 DEF RegionT, Bounds
  <2> QED
    BY <2>1, SplitsAssumption, Zenon
<1>3. \A n \in 1..Len(NewIds) : NewIds[n] \in Range(NewIds)
  BY <1>1, Zenon DEF Range
<1>4. \A m, n \in 1..Len(NewIds) : NewIds[m] = NewIds[n] => m = n
  BY <1>1, SplitsAssumption, Zenon DEF IsInjective
<1> QED
  BY <1>1, <1>2, <1>3, <1>4, SplitsAssumption, Zenon DEF Ids

\* The keys of a region lie from its start key to its end key.
LEMMA KeysOfRegion ==
  ASSUME NEW k \in Bounds, NEW g \in RegionT
  PROVE  /\ KeyInRegion(k, g) <=> g.start <= k /\ (g.end = 0 \/ k < g.end)
         /\ IsKeyInRange(k, g) <=> KeyInRegion(k, g)
BY SplitsAssumption DEF KeyInRegion, IsKeyInRange, ExceedEndKey, RegionT, Bounds

\* The keys of g are those of l and those of h.
IsCut(g, l, h) ==
  /\ \A k \in Bounds : KeyInRegion(k, l) \/ KeyInRegion(k, h) <=> KeyInRegion(k, g)
  /\ \A k \in Bounds : ~(KeyInRegion(k, l) /\ KeyInRegion(k, h))

\* A split cuts the keys of the region in two; the left part may be empty, and
\* then the right one starts where it does.
LEMMA Cut ==
  ASSUME NEW g \in RegionT, NEW t \in TaskT, t.new \in Ids, IsKeyInRange(t.key, g),
         NEW l, l = UpdateRegionRange(g, t.key), NEW h, h = CreateNewRegion(g, t)
  PROVE  /\ l \in RegionT /\ l.id = g.id /\ l.start = g.start
         /\ h \in RegionT /\ h.id = t.new /\ KeyInRegion(h.start, h)
         /\ KeyInRegion(l.start, l) \/ h.start = l.start
         /\ IsCut(g, l, h)
<1>1. t.key \in Bounds /\ t.key # 0 /\ t.key \in Nat /\ 0 \in Bounds
  BY SplitsAssumption DEF TaskT, Bounds, RegionKeys
<1>2. /\ l \in RegionT /\ l.id = g.id /\ l.start = g.start /\ l.end = t.key
      /\ h \in RegionT /\ h.id = t.new /\ h.start = t.key /\ h.end = g.end
  <2>1. l = [id |-> g.id, start |-> g.start, end |-> t.key, ver |-> g.ver + 1, conf |-> g.conf]
    BY Zenon DEF UpdateRegionRange, RegionT
  <2> QED
    BY <1>1, <2>1 DEF CreateNewRegion, RegionT
<1>3. g.start <= t.key /\ (g.end = 0 \/ t.key < g.end)
  BY <1>1, KeysOfRegion, Zenon
<1>4. \A k \in Bounds : /\ KeyInRegion(k, l) <=> g.start <= k /\ (t.key = 0 \/ k < t.key)
                        /\ KeyInRegion(k, h) <=> t.key <= k /\ (g.end = 0 \/ k < g.end)
                        /\ KeyInRegion(k, g) <=> g.start <= k /\ (g.end = 0 \/ k < g.end)
  BY <1>2, KeysOfRegion, Zenon
<1>5. g.start \in Bounds /\ g.end \in Bounds
  BY DEF RegionT
<1>6. Bounds \subseteq Nat
  BY SplitsAssumption DEF Bounds
<1>7. ASSUME NEW k \in Bounds
      PROVE  /\ (g.start <= k /\ (t.key = 0 \/ k < t.key)) \/ (t.key <= k /\ (g.end = 0 \/ k < g.end))
                  <=> g.start <= k /\ (g.end = 0 \/ k < g.end)
             /\ ~((g.start <= k /\ (t.key = 0 \/ k < t.key)) /\ (t.key <= k /\ (g.end = 0 \/ k < g.end)))
  <2> DEFINE s == g.start
             e == g.end
             c == t.key
  <2>1. s \in Nat /\ e \in Nat /\ c \in Nat /\ c # 0 /\ s <= c /\ (e = 0 \/ c < e) /\ k \in Nat
    BY <1>1, <1>3, <1>5, <1>6, Zenon
  <2> HIDE DEF s, e, c
  <2>2. /\ (s <= k /\ (c = 0 \/ k < c)) \/ (c <= k /\ (e = 0 \/ k < e)) <=> s <= k /\ (e = 0 \/ k < e)
        /\ ~((s <= k /\ (c = 0 \/ k < c)) /\ (c <= k /\ (e = 0 \/ k < e)))
    BY <2>1
  <2> QED
    BY <2>2, Zenon DEF s, e, c
<1>8. /\ \A k \in Bounds : KeyInRegion(k, l) \/ KeyInRegion(k, h) <=> KeyInRegion(k, g)
      /\ \A k \in Bounds : ~(KeyInRegion(k, l) /\ KeyInRegion(k, h))
  BY <1>4, <1>7, Zenon
<1>9. t.key <= t.key /\ g.start <= g.start /\ (g.start < t.key \/ t.key = g.start)
  <2> DEFINE s == g.start
             c == t.key
  <2>1. s \in Nat /\ c \in Nat /\ s <= c
    BY <1>1, <1>3, <1>5, <1>6, Zenon
  <2> HIDE DEF s, c
  <2>2. c <= c /\ s <= s /\ (s < c \/ c = s)
    BY <2>1
  <2> QED
    BY <2>2, Zenon DEF s, c
<1>10. KeyInRegion(t.key, h) /\ (KeyInRegion(g.start, l) \/ t.key = g.start)
  BY <1>1, <1>3, <1>4, <1>5, <1>9, Zenon
<1>11. IsCut(g, l, h)
  BY <1>8, Zenon DEF IsCut
<1> QED
  BY <1>2, <1>10, <1>11, Zenon

\* The split checker names a key of the store, or the empty key.
LEMMA SplitCheckKeys ==
  ASSUME NEW g, NEW key \in SplitCheck(g)
  PROVE  key \in Bounds
<1>1. PICK cf : key = ScanCf(cf, g).key
  <2> DEFINE over == {n \in 1..Len(SplitCFs) : Total(g, n) > SplitSize}
             one == CHOOSE n \in over : \A m \in over : n <= m
  <2>1. key = ScanCf(SplitCFs[one], g).key
    BY DEF SplitCheck
  <2> QED
    BY <2>1, Zenon
<1> DEFINE beyond == {k \in InRange(cf, g) : UpTo(cf, g, k) > SplitSize}
           first == CHOOSE k \in beyond : \A j \in beyond : k <= j
<1>2. ScanCf(cf, g).key = IF beyond = {} THEN 0 ELSE first
  BY Zenon DEF ScanCf
<1>3. beyond \subseteq 1..NRegionKeys /\ NRegionKeys \in Nat
  BY SplitsAssumption, Zenon DEF InRange, RegionKeys
<1> HIDE DEF beyond
<1>4. beyond # {} => first \in beyond
  <2> SUFFICES ASSUME beyond # {} PROVE \E k \in beyond : \A j \in beyond : k <= j
    BY Zenon
  <2> QED
    BY <1>3, FirstPosition, Zenon
<1>5. 0 \in Bounds /\ 1..NRegionKeys \subseteq Bounds
  BY <1>3 DEF Bounds
<1> HIDE DEF first
<1> QED
  BY <1>1, <1>2, <1>3, <1>4, <1>5, Zenon

-----------------------------------------------------------------------------
(* Steps that leave StoreMeta and the halves alone. *)

\* The invariants of the regions and of their list depend on these alone.
LEMMA MetaKept ==
  ASSUME SplitsInv, UNCHANGED <<regionOf, ranges, halves>>
  PROVE  Known' = Known /\ PartitionOK' /\ RangesOK' /\ LastOK'
<1>1. Known' = Known /\ Pieces' = Pieces
  BY Zenon DEF Known, Pieces
<1>2. PartitionOK'
  BY <1>1, Zenon DEF SplitsInv, PartitionOK
<1>3. RangesOK'
  BY <1>1, Zenon DEF SplitsInv, RangesOK
<1>4. LastOK'
  BY Zenon DEF SplitsInv, LastOK
<1> QED
  BY <1>1, <1>2, <1>3, <1>4, Zenon

LEMMA OnTickKeeps ==
  ASSUME SplitsInv, NEW id \in Ids, OnTick(id)
  PROVE  SplitsInv'
<1>1. /\ UNCHANGED <<regionOf, ranges, halves>>
      /\ UNCHANGED <<peerRegion, asks, allocated>>
      /\ peerRegion[id] # NoRegion
  BY Zenon DEF OnTick, metaVars
<1>2. PICK key \in SplitCheck(peerRegion[id]) :
        mailbox' = [mailbox EXCEPT ![id] = Append(@, [ver |-> peerRegion[id].ver, key |-> key])]
  BY Zenon DEF OnTick
<1>3. Known' = Known /\ PartitionOK' /\ RangesOK' /\ LastOK'
  BY <1>1, MetaKept, Zenon
<1>4. mailbox' \in [Ids -> Seq(MessageT)] /\ \A i \in Ids \ {id} : mailbox'[i] = mailbox[i]
  <2>1. key \in Bounds
    BY SplitCheckKeys, Zenon
  <2>2. peerRegion[id] \in RegionT
    BY <1>1, Zenon DEF SplitsInv, SplitsTypeOK
  <2>3. [ver |-> peerRegion[id].ver, key |-> key] \in MessageT
    BY <2>1, <2>2 DEF RegionT, MessageT
  <2>4. mailbox \in [Ids -> Seq(MessageT)]
    BY Zenon DEF SplitsInv, SplitsTypeOK
  <2> QED
    BY <1>2, <2>3, <2>4
<1>5. id \in Known
  BY <1>1, Zenon DEF SplitsInv, AddressedOK
<1>6. SplitsTypeOK'
  BY <1>1, <1>3, <1>4, Zenon DEF SplitsInv, SplitsTypeOK
<1>7. AddressedOK'
  BY <1>1, <1>3, <1>4, <1>5, Zenon DEF SplitsInv, AddressedOK
<1>8. FreshOK'
  BY <1>1, <1>3, Zenon DEF SplitsInv, FreshOK, Allocated, Admin
<1> QED
  BY <1>3, <1>6, <1>7, <1>8, Zenon DEF SplitsInv

LEMMA OnPrepareSplitRegionKeeps ==
  ASSUME SplitsInv, NEW id \in Ids, OnPrepareSplitRegion(id)
  PROVE  SplitsInv'
<1> DEFINE msg == Head(mailbox[id])
           task == [at |-> "ask", id |-> id, key |-> msg.key, new |-> NoRegion]
<1>1. /\ UNCHANGED <<regionOf, ranges, halves>>
      /\ UNCHANGED <<peerRegion, allocated>>
      /\ mailbox[id] # <<>> /\ mailbox' = [mailbox EXCEPT ![id] = Tail(@)]
      /\ asks' = asks \/ (msg.key # 0 /\ asks' = asks \cup {task})
  BY Zenon DEF OnPrepareSplitRegion, metaVars
<1>2. Known' = Known /\ PartitionOK' /\ RangesOK' /\ LastOK'
  BY <1>1, MetaKept, Zenon
<1>3. mailbox \in [Ids -> Seq(MessageT)]
  BY Zenon DEF SplitsInv, SplitsTypeOK
<1>4. mailbox' \in [Ids -> Seq(MessageT)] /\ \A i \in Ids \ {id} : mailbox'[i] = mailbox[i]
  BY <1>1, <1>3
<1>5. id \in Known
  BY <1>1, Zenon DEF SplitsInv, AddressedOK
<1>6. msg.key # 0 => task \in TaskT /\ task.id = id /\ task.at # "admin"
  <2>1. msg \in MessageT
    BY <1>1, <1>3
  <2>2. msg.key \in Bounds
    BY <2>1 DEF MessageT
  <2>3. msg.key # 0 => msg.key \in RegionKeys
    BY <2>2, SplitsAssumption DEF Bounds, RegionKeys
  <2> HIDE DEF msg
  <2> QED
    BY <2>3 DEF TaskT
<1> HIDE DEF task
<1>7. asks' \subseteq TaskT /\ (\A t \in asks' : t \in asks \/ t.id = id) /\ Admin' = Admin
  <2>1. asks \subseteq TaskT
    BY Zenon DEF SplitsInv, SplitsTypeOK
  <2> QED
    BY <1>1, <1>6, <2>1, Zenon DEF Admin
<1>8. SplitsTypeOK'
  BY <1>1, <1>2, <1>4, <1>7, Zenon DEF SplitsInv, SplitsTypeOK
<1>9. AddressedOK'
  BY <1>1, <1>2, <1>4, <1>5, <1>7, Zenon DEF SplitsInv, AddressedOK
<1>10. FreshOK'
  BY <1>1, <1>2, <1>7, Zenon DEF SplitsInv, FreshOK, Allocated
<1> QED
  BY <1>2, <1>8, <1>9, <1>10, Zenon DEF SplitsInv

LEMMA PeerSetRegionKeeps ==
  ASSUME SplitsInv, NEW id \in Ids, PeerSetRegion(id)
  PROVE  SplitsInv'
<1>1. /\ UNCHANGED <<regionOf, ranges, halves>>
      /\ UNCHANGED <<mailbox, asks, allocated>>
      /\ id \in Known
      /\ peerRegion' = [peerRegion EXCEPT ![id] = regionOf[id]]
  BY Zenon DEF PeerSetRegion, metaVars, Known
<1>2. Known' = Known /\ PartitionOK' /\ RangesOK' /\ LastOK'
  BY <1>1, MetaKept, Zenon
<1>3. /\ peerRegion' \in [Ids -> RegionT \cup {NoRegion}]
      /\ \A i \in Ids \ {id} : peerRegion'[i] = peerRegion[i]
  <2>1. peerRegion \in [Ids -> RegionT \cup {NoRegion}] /\ regionOf[id] \in RegionT \cup {NoRegion}
    BY Zenon DEF SplitsInv, SplitsTypeOK
  <2> QED
    BY <1>1, <2>1, Zenon
<1>4. SplitsTypeOK'
  BY <1>1, <1>2, <1>3, Zenon DEF SplitsInv, SplitsTypeOK
<1>5. AddressedOK'
  BY <1>1, <1>2, <1>3, Zenon DEF SplitsInv, AddressedOK
<1>6. FreshOK'
  BY <1>1, <1>2, Zenon DEF SplitsInv, FreshOK, Allocated, Admin
<1> QED
  BY <1>2, <1>4, <1>5, <1>6, Zenon DEF SplitsInv

\* A task may be lost.
LEMMA TaskLost ==
  ASSUME SplitsInv, NEW t \in asks, asks' = asks \ {t},
         UNCHANGED <<regionOf, ranges, halves>>, UNCHANGED <<peerRegion, mailbox>>, UNCHANGED allocated
  PROVE  SplitsInv'
<1>1. Known' = Known /\ PartitionOK' /\ RangesOK' /\ LastOK'
  BY MetaKept, Zenon
<1>2. asks' \subseteq asks /\ Admin' \subseteq Admin /\ Allocated' = Allocated
  BY Zenon DEF Admin, Allocated
<1>3. SplitsTypeOK'
  BY <1>1, <1>2, Zenon DEF SplitsInv, SplitsTypeOK
<1>4. AddressedOK'
  BY <1>1, <1>2, Zenon DEF SplitsInv, AddressedOK
<1>5. FreshOK'
  BY <1>1, <1>2, Zenon DEF SplitsInv, FreshOK
<1> QED
  BY <1>1, <1>3, <1>4, <1>5, Zenon DEF SplitsInv

\* PD's answer: the task gets an id that nobody has.
LEMMA OnAskSplitKeeps ==
  ASSUME SplitsInv, NEW t \in asks, OnAskSplit(t)
  PROVE  SplitsInv'
<1> DEFINE task == [t EXCEPT !.at = "admin", !.new = NewIds[allocated']]
<1>1. /\ UNCHANGED <<regionOf, ranges, halves>>
      /\ UNCHANGED <<peerRegion, mailbox>>
      /\ t.at = "ask"
  BY Zenon DEF OnAskSplit, metaVars
<1>2. Known' = Known /\ PartitionOK' /\ RangesOK' /\ LastOK'
  BY <1>1, MetaKept, Zenon
<1>3. asks \subseteq TaskT /\ allocated \in 0..Len(NewIds) /\ Len(NewIds) \in Nat
  BY IdsFacts, Zenon DEF SplitsInv, SplitsTypeOK
<1>4. CASE AskSplit /\ asks' = (asks \ {t}) \cup {task}
  <2>1. allocated' = allocated + 1 /\ allocated < Len(NewIds)
    BY <1>4, Zenon DEF AskSplit
  <2>2. /\ allocated' \in 0..Len(NewIds) /\ allocated' \in 1..Len(NewIds) /\ allocated' \in 1..allocated'
        /\ 1..allocated \subseteq 1..Len(NewIds) /\ allocated' \notin 1..allocated
        /\ 1..allocated \subseteq 1..allocated'
    BY <1>3, <2>1
  <2> DEFINE new == NewIds[allocated']
  <2>3. new \in Ids /\ new # FirstId /\ new \in Allocated' /\ new \notin Allocated
    BY <2>2, IdsFacts, Zenon DEF Allocated
  <2>4. task \in TaskT /\ task.id = t.id /\ task.at = "admin" /\ task.new = new
    BY <1>3, <2>3, Zenon DEF TaskT
  <2>5. Allocated \subseteq Allocated'
    BY <2>2, Zenon DEF Allocated
  <2> HIDE DEF task, new
  <2>6. \A u \in Admin' : u \in Admin \/ u = task
    BY <1>4, Zenon DEF Admin
  <2>7. \A u \in asks' : u \in asks \/ u.id = t.id
    BY <1>4, <2>4, Zenon
  <2>8. SplitsTypeOK'
    <3>1. asks' \subseteq TaskT
      BY <1>3, <1>4, <2>4, Zenon
    <3> QED
      BY <1>1, <1>2, <2>2, <3>1, Zenon DEF SplitsInv, SplitsTypeOK
  <2>9. AddressedOK'
    BY <1>1, <1>2, <2>7, Zenon DEF SplitsInv, AddressedOK
  <2>10. FreshOK'
    <3>1. Known' \subseteq {FirstId} \cup Allocated'
      BY <1>2, <2>5, Zenon DEF SplitsInv, FreshOK
    <3>2. /\ \A h \in halves' : h.id \in Allocated' \ Known'
          /\ \A h, i \in halves' : h.id = i.id => h = i
      BY <1>1, <1>2, <2>5, Zenon DEF SplitsInv, FreshOK
    <3>3. new \notin Known /\ \A h \in halves : h.id # new
      BY <2>3, Zenon DEF SplitsInv, FreshOK
    <3>4. \A u \in Admin' : u.new \in Allocated' \ Known' /\ \A h \in halves' : h.id # u.new
      BY <1>1, <1>2, <2>3, <2>4, <2>5, <2>6, <3>3, Zenon DEF SplitsInv, FreshOK
    <3>5. \A u \in Admin : u.new # new
      BY <2>3, Zenon DEF SplitsInv, FreshOK
    <3>6. \A u, v \in Admin' : u.new = v.new => u = v
      BY <2>4, <2>6, <3>5, Zenon DEF SplitsInv, FreshOK
    <3> QED
      BY <3>1, <3>2, <3>4, <3>6, Zenon DEF FreshOK
  <2> QED
    BY <1>2, <2>8, <2>9, <2>10, Zenon DEF SplitsInv
<1>5. CASE asks' = asks \ {t} /\ UNCHANGED allocated
  BY <1>1, <1>5, TaskLost, Zenon
<1> QED
  BY <1>4, <1>5, Zenon DEF OnAskSplit

-----------------------------------------------------------------------------
(* The two set_region calls of a split. *)

\* set_region of a region whose start key, if it is known, does not change: the
\* list stays right, and the last pair of a start key is that of g or is as before.
LEMMA SetRegionKeeps ==
  ASSUME SplitsInv, NEW g \in RegionT, SetRegion(g),
         g.id \in Known => regionOf[g.id].start = g.start,
         KeyInRegion(g.start, g) \/ \E h \in halves' : h.start = g.start,
         \A h \in halves : h \in halves' \/ h.start = g.start
  PROVE  /\ regionOf' \in [Ids -> RegionT \cup {NoRegion}]
         /\ Known' = Known \cup {g.id}
         /\ regionOf'[g.id] = g
         /\ \A id \in Ids : id # g.id => regionOf'[id] = regionOf[id]
         /\ \A id \in Known' : regionOf'[id].id = id
         /\ RangesOK' /\ LastOK'
<1>1. g.id \in Ids /\ g.start \in Nat /\ g # NoRegion
  BY IdsFacts, SplitsAssumption DEF RegionT, Bounds
<1>2. /\ regionOf' = [regionOf EXCEPT ![g.id] = g]
      /\ ranges' = SortedRanges(ranges, g)
  BY Zenon DEF SetRegion
<1>3. regionOf \in [Ids -> RegionT \cup {NoRegion}] /\ \A id \in Known : regionOf[id].id = id
  BY Zenon DEF SplitsInv, SplitsTypeOK
<1>4. /\ regionOf' \in [Ids -> RegionT \cup {NoRegion}] /\ regionOf'[g.id] = g
      /\ \A id \in Ids : id # g.id => regionOf'[id] = regionOf[id]
  BY <1>1, <1>2, <1>3, Zenon
<1>5. Known' = Known \cup {g.id}
  BY <1>1, <1>4, Zenon DEF Known
<1>6. \A id \in Known' : regionOf'[id].id = id
  BY <1>3, <1>4, <1>5, Zenon DEF Known
<1> DEFINE pair == [start |-> g.start, id |-> g.id]
<1>7. ListOK(ranges) /\ \A i \in DOMAIN ranges : ranges[i].id = g.id => ranges[i].start = g.start
  BY Zenon DEF SplitsInv, RangesOK
<1>8. pair.start = g.start /\ pair.id = g.id
  OBVIOUS
<1> HIDE DEF pair
<1>9. ListOK(ranges') /\ Entered(ranges, pair, ranges')
  BY <1>1, <1>2, <1>7, Inserted, Zenon DEF pair
<1>10. \A k \in DOMAIN ranges : ranges[k].id \in Known /\ regionOf[ranges[k].id].start = ranges[k].start
  BY Zenon DEF SplitsInv, RangesOK
<1>11. Known \subseteq Ids
  BY Zenon DEF Known
<1>12. RangesOK'
  <2>1. ASSUME NEW i \in DOMAIN ranges'
        PROVE  ranges'[i].id \in Known' /\ regionOf'[ranges'[i].id].start = ranges'[i].start
    <3>1. CASE ranges'[i] = pair
      BY <1>4, <1>5, <1>8, <3>1, Zenon
    <3>2. CASE ranges'[i] # pair
      <4>1. PICK k \in DOMAIN ranges : ranges'[i] = ranges[k]
        BY <1>9, <3>2, Zenon DEF Entered
      <4>2. ranges[k].id \in Known' /\ (ranges[k].id = g.id => ranges[k].start = g.start)
        BY <1>5, <1>7, <1>10, Zenon
      <4>3. regionOf'[ranges[k].id].start = ranges[k].start
        BY <1>4, <1>10, <1>11, <4>2, Zenon
      <4> QED
        BY <4>1, <4>2, <4>3, Zenon
    <3> QED
      BY <3>1, <3>2, Zenon
  <2>2. ASSUME NEW id \in Known' PROVE \E i \in DOMAIN ranges' : ranges'[i].id = id
    <3>1. CASE id = g.id
      BY <1>8, <1>9, <3>1, Zenon DEF Entered
    <3>2. CASE id # g.id
      <4>1. PICK k \in DOMAIN ranges : ranges[k].id = id
        BY <1>5, <3>2, Zenon DEF SplitsInv, RangesOK
      <4> QED
        BY <1>9, <4>1, Zenon DEF Entered
    <3> QED
      BY <3>1, <3>2, Zenon
  <2> QED
    BY <1>9, <2>1, <2>2, Zenon DEF RangesOK
<1>13. LastOK'
  <2> SUFFICES ASSUME NEW i \in DOMAIN ranges', IsLast(ranges', i)
               PROVE  \/ KeyInRegion(ranges'[i].start, regionOf'[ranges'[i].id])
                      \/ \E h \in halves' : h.start = ranges'[i].start
    BY Zenon DEF LastOK
  <2>1. CASE ranges'[i] = pair
    BY <1>4, <1>8, <2>1, Zenon
  <2>2. CASE ranges'[i] # pair
    <3>1. ranges'[i].start # g.start
      BY <1>8, <1>9, <2>2, Zenon DEF Entered
    <3>2. PICK k \in DOMAIN ranges : ranges'[i] = ranges[k] /\ IsLast(ranges, k)
      BY <1>8, <1>9, <2>2, Zenon DEF Entered
    <3>3. regionOf'[ranges[k].id] = regionOf[ranges[k].id]
      BY <1>4, <1>7, <1>10, <1>11, <3>1, <3>2, Zenon
    <3>4. \/ KeyInRegion(ranges[k].start, regionOf[ranges[k].id])
          \/ \E h \in halves : h.start = ranges[k].start
      BY <3>2, Zenon DEF SplitsInv, LastOK
    <3> QED
      BY <3>1, <3>2, <3>3, <3>4, Zenon
  <2> QED
    BY <2>1, <2>2, Zenon
<1> QED
  BY <1>4, <1>5, <1>6, <1>12, <1>13, Zenon

\* The first set_region: the region keeps the left part, the right part becomes a half.
LEMMA ExecuteSplitKeeps ==
  ASSUME SplitsInv, NEW t \in asks, ExecuteSplit(t)
  PROVE  SplitsInv'
<1> DEFINE g == regionOf[t.id]
           l == UpdateRegionRange(g, t.key)
           h == CreateNewRegion(g, t)
<1>1. UNCHANGED <<peerRegion, mailbox>> /\ UNCHANGED allocated /\ asks' = asks \ {t} /\ t \in Admin
  BY Zenon DEF ExecuteSplit, Admin
<1>2. CASE ~IsKeyInRange(t.key, g)
  <2>1. UNCHANGED <<regionOf, ranges, halves>>
    BY <1>2, Zenon DEF ExecuteSplit, metaVars
  <2> QED
    BY <1>1, <2>1, TaskLost, Zenon
<1>3. CASE IsKeyInRange(t.key, g)
  <2>1. SetRegion(l) /\ halves' = halves \cup {h}
    BY <1>3, Zenon DEF ExecuteSplit
  <2>2. t.id \in Known /\ t.id \in Ids /\ g \in RegionT /\ g.id = t.id
    BY Zenon DEF SplitsInv, AddressedOK, SplitsTypeOK, Known
  <2>3. t \in TaskT /\ t.new \in Allocated \ Known /\ \A i \in halves : i.id # t.new
    BY <1>1, Zenon DEF SplitsInv, SplitsTypeOK, FreshOK
  <2>4. t.new \in Ids
    <3>1. 1..allocated \subseteq 1..Len(NewIds)
      <4>1. allocated \in 0..Len(NewIds) /\ Len(NewIds) \in Nat
        BY IdsFacts, Zenon DEF SplitsInv, SplitsTypeOK
      <4> QED
        BY <4>1
    <3> QED
      BY <2>3, <3>1, IdsFacts, Zenon DEF Allocated
  <2> HIDE DEF g
  <2>5. /\ l \in RegionT /\ l.id = g.id /\ l.start = g.start
        /\ h \in RegionT /\ h.id = t.new /\ KeyInRegion(h.start, h)
        /\ KeyInRegion(l.start, l) \/ h.start = l.start
        /\ IsCut(g, l, h)
    BY <1>3, <2>2, <2>3, <2>4, Cut, Zenon
  <2> HIDE DEF l, h
  <2>6. /\ regionOf' \in [Ids -> RegionT \cup {NoRegion}]
        /\ Known' = Known \cup {l.id}
        /\ regionOf'[l.id] = l
        /\ \A id \in Ids : id # l.id => regionOf'[id] = regionOf[id]
        /\ \A id \in Known' : regionOf'[id].id = id
        /\ RangesOK' /\ LastOK'
    <3>1. l.id \in Known => regionOf[l.id].start = l.start
      BY <2>2, <2>5, Zenon DEF g
    <3>2. KeyInRegion(l.start, l) \/ \E i \in halves' : i.start = l.start
      BY <2>1, <2>5, Zenon
    <3>3. \A i \in halves : i \in halves' \/ i.start = l.start
      BY <2>1, Zenon
    <3> QED
      BY <2>1, <2>5, <3>1, <3>2, <3>3, SetRegionKeeps, Zenon
  <2>7. Known' = Known
    <3>1. l.id \in Known
      BY <2>2, <2>5, Zenon
    <3> QED
      BY <2>6, <3>1, Zenon
  <2>8. SplitsTypeOK'
    <3>1. asks' \subseteq TaskT /\ halves' \subseteq RegionT
      BY <1>1, <2>1, <2>5, Zenon DEF SplitsInv, SplitsTypeOK
    <3> QED
      BY <1>1, <2>6, <3>1, Zenon DEF SplitsInv, SplitsTypeOK
  <2>9. AddressedOK'
    BY <1>1, <2>7, Zenon DEF SplitsInv, AddressedOK
  <2>10. FreshOK'
    <3>1. Allocated' = Allocated /\ Admin' = Admin \ {t}
      BY <1>1, Zenon DEF Allocated, Admin
    <3>2. /\ Known' \subseteq {FirstId} \cup Allocated'
          /\ \A i \in halves' : i.id \in Allocated' \ Known'
          /\ \A i, j \in halves' : i.id = j.id => i = j
      BY <2>1, <2>3, <2>5, <2>7, <3>1, Zenon DEF SplitsInv, FreshOK
    <3>3. \A u \in Admin' : u \in Admin /\ u.new # t.new
      BY <1>1, <3>1, Zenon DEF SplitsInv, FreshOK
    <3>4. \A u \in Admin' : u.new \in Allocated' \ Known' /\ \A i \in halves' : i.id # u.new
      BY <2>1, <2>5, <2>7, <3>1, <3>3, Zenon DEF SplitsInv, FreshOK
    <3>5. \A u, v \in Admin' : u.new = v.new => u = v
      BY <3>3, Zenon DEF SplitsInv, FreshOK
    <3> QED
      BY <3>2, <3>4, <3>5, Zenon DEF FreshOK
  <2>11. l \in Pieces' /\ h \in Pieces' /\ g \in Pieces
    BY <2>1, <2>2, <2>5, <2>6, <2>7, PiecesAre, Zenon DEF g
  <2>12. \A x \in Pieces : x # g => x \in Pieces'
    <3> SUFFICES ASSUME NEW x \in Pieces, x # g PROVE x \in Pieces'
      BY Zenon
    <3>1. CASE x \in halves
      BY <2>1, <3>1, PiecesAre, Zenon
    <3>2. CASE x \notin halves
      <4>1. PICK id \in Known : x = regionOf[id]
        BY <3>2, PiecesAre, Zenon
      <4>2. id # l.id /\ id \in Ids
        BY <2>2, <2>5, <4>1, Zenon DEF g, Known
      <4>3. x = regionOf'[id]
        BY <2>6, <4>1, <4>2, Zenon
      <4> QED
        BY <2>7, <4>3, PiecesAre, Zenon
    <3> QED
      BY <3>1, <3>2, Zenon
  <2>13. ASSUME NEW x \in Pieces' PROVE x = l \/ x = h \/ (x \in Pieces /\ x # g)
    <3>1. CASE x \in halves'
      <4>1. \A i \in halves : i.id # g.id
        BY <2>2, Zenon DEF SplitsInv, FreshOK
      <4> QED
        BY <2>1, <3>1, <4>1, Zenon DEF Pieces
    <3>2. CASE x \notin halves'
      <4>1. PICK id \in Known : x = regionOf'[id]
        BY <2>7, <2>13, <3>2, Zenon DEF Pieces
      <4>2. CASE id = l.id
        BY <2>6, <4>1, <4>2, Zenon
      <4>3. CASE id # l.id
        <5>1. x = regionOf[id] /\ regionOf[id].id = id
          BY <2>6, <4>1, <4>3, Zenon DEF Known, SplitsInv, SplitsTypeOK
        <5> QED
          BY <2>5, <4>1, <4>3, <5>1, Zenon DEF Pieces
      <4> QED
        BY <4>2, <4>3, Zenon
    <3> QED
      BY <3>1, <3>2, Zenon
  <2>14. PartitionOK'
    <3>1. ASSUME NEW k \in Bounds PROVE \E x \in Pieces' : KeyInRegion(k, x)
      <4>1. PICK x \in Pieces : KeyInRegion(k, x)
        BY Zenon DEF SplitsInv, PartitionOK
      <4> QED
        BY <2>5, <2>11, <2>12, <4>1, Zenon DEF IsCut
    <3>2. ASSUME NEW k \in Bounds, NEW x \in Pieces', NEW y \in Pieces', KeyInRegion(k, x), KeyInRegion(k, y)
          PROVE  x = y
      <4>1. \A z \in Pieces : KeyInRegion(k, z) /\ KeyInRegion(k, g) => z = g
        BY <2>11, Zenon DEF SplitsInv, PartitionOK
      <4>2. \A z, w \in Pieces : KeyInRegion(k, z) /\ KeyInRegion(k, w) => z = w
        BY Zenon DEF SplitsInv, PartitionOK
      <4>3. /\ KeyInRegion(k, l) => KeyInRegion(k, g) /\ ~KeyInRegion(k, h)
            /\ KeyInRegion(k, h) => KeyInRegion(k, g)
        BY <2>5, Zenon DEF IsCut
      <4> QED
        BY <2>13, <3>2, <4>1, <4>2, <4>3, Zenon
    <3>3. \A i \in halves' : KeyInRegion(i.start, i)
      BY <2>1, <2>5, Zenon DEF SplitsInv, PartitionOK
    <3> QED
      BY <3>1, <3>2, <3>3, Zenon DEF PartitionOK
  <2> QED
    BY <2>6, <2>8, <2>9, <2>10, <2>14, Zenon DEF SplitsInv
<1> QED
  BY <1>2, <1>3, Zenon

\* The second set_region: the half becomes a region; the pieces are the same.
LEMMA ExecuteSplitEndKeeps ==
  ASSUME SplitsInv, NEW h \in halves, ExecuteSplitEnd(h)
  PROVE  SplitsInv'
<1>1. /\ UNCHANGED <<peerRegion, mailbox>> /\ UNCHANGED <<asks, allocated>>
      /\ SetRegion(h) /\ halves' = halves \ {h}
  BY Zenon DEF ExecuteSplitEnd
<1>2. h \in RegionT /\ h.id \in Allocated /\ h.id \notin Known /\ KeyInRegion(h.start, h)
  BY Zenon DEF SplitsInv, SplitsTypeOK, FreshOK, PartitionOK
<1>3. /\ regionOf' \in [Ids -> RegionT \cup {NoRegion}]
      /\ Known' = Known \cup {h.id}
      /\ regionOf'[h.id] = h
      /\ \A id \in Ids : id # h.id => regionOf'[id] = regionOf[id]
      /\ \A id \in Known' : regionOf'[id].id = id
      /\ RangesOK' /\ LastOK'
  <2>1. \A i \in halves : i \in halves' \/ i.start = h.start
    BY <1>1, Zenon
  <2> QED
    BY <1>1, <1>2, <2>1, SetRegionKeeps, Zenon
<1>4. SplitsTypeOK'
  BY <1>1, <1>3, Zenon DEF SplitsInv, SplitsTypeOK
<1>5. AddressedOK'
  BY <1>1, <1>3, Zenon DEF SplitsInv, AddressedOK
<1>6. FreshOK'
  <2>1. Allocated' = Allocated /\ Admin' = Admin
    BY <1>1, Zenon DEF Allocated, Admin
  <2>2. \A i \in halves' : i \in halves /\ i.id # h.id
    BY <1>1, Zenon DEF SplitsInv, FreshOK
  <2>3. \A u \in Admin : u.new # h.id
    BY Zenon DEF SplitsInv, FreshOK
  <2> QED
    BY <1>2, <1>3, <2>1, <2>2, <2>3, Zenon DEF SplitsInv, FreshOK
<1>7. \A id \in Known : id \in Ids /\ regionOf'[id] = regionOf[id]
  BY <1>2, <1>3, Zenon DEF Known
<1>8. Pieces' = Pieces
  <2>1. ASSUME NEW x \in Pieces' PROVE x \in Pieces
    <3>1. CASE x \in halves'
      BY <1>1, <3>1, PiecesAre, Zenon
    <3>2. CASE x \notin halves'
      <4>1. PICK id \in Known' : x = regionOf'[id]
        BY <2>1, <3>2, PiecesAre, Zenon
      <4>2. x = h \/ (id \in Known /\ x = regionOf[id])
        BY <1>3, <1>7, <4>1, Zenon
      <4> QED
        BY <4>2, PiecesAre, Zenon
    <3> QED
      BY <3>1, <3>2, Zenon
  <2>2. ASSUME NEW x \in Pieces PROVE x \in Pieces'
    <3>1. CASE x \in halves
      <4>1. x \in halves' \/ (h.id \in Known' /\ x = regionOf'[h.id])
        BY <1>1, <1>3, <3>1, Zenon
      <4> QED
        BY <4>1, PiecesAre, Zenon
    <3>2. CASE x \notin halves
      <4>1. PICK id \in Known : x = regionOf[id]
        BY <2>2, <3>2, PiecesAre, Zenon
      <4>2. id \in Known' /\ x = regionOf'[id]
        BY <1>3, <1>7, <4>1, Zenon
      <4> QED
        BY <4>2, PiecesAre, Zenon
    <3> QED
      BY <3>1, <3>2, Zenon
  <2> QED
    BY <2>1, <2>2, Zenon
<1>9. PartitionOK'
  BY <1>1, <1>8, Zenon DEF SplitsInv, PartitionOK
<1> QED
  BY <1>3, <1>4, <1>5, <1>6, <1>9, Zenon DEF SplitsInv

-----------------------------------------------------------------------------

LEMMA SplitsInitInv == SplitsInit => SplitsInv
<1> SUFFICES ASSUME SplitsInit PROVE SplitsInv
  OBVIOUS
<1>1. /\ regionOf = [id \in Ids |-> IF id = FirstId THEN Whole ELSE NoRegion]
      /\ ranges = <<[start |-> 0, id |-> FirstId]>>
      /\ peerRegion = regionOf /\ mailbox = [id \in Ids |-> <<>>]
      /\ asks = {} /\ halves = {} /\ allocated = 0
  BY Zenon DEF SplitsInit
<1>2. /\ Whole \in RegionT /\ Whole.id = FirstId /\ Whole.start = 0
      /\ \A k \in Bounds : KeyInRegion(k, Whole)
      /\ 0 \in Bounds
  <2>1. Whole \in RegionT /\ Whole.id = FirstId /\ Whole.start = 0 /\ Whole.end = 0 /\ 0 \in Bounds
    BY IdsFacts DEF Whole, RegionT, Bounds
  <2>2. \A k \in Bounds : 0 <= k
    BY IdsFacts DEF Bounds
  <2> QED
    BY <2>1, <2>2, KeysOfRegion, Zenon
<1>3. FirstId \in Ids /\ Whole # NoRegion
  BY <1>2, IdsFacts, Zenon
<1>4. Known = {FirstId} /\ regionOf[FirstId] = Whole
  BY <1>1, <1>3, Zenon DEF Known
<1>5. Pieces = {Whole}
  BY <1>1, <1>4, Zenon DEF Pieces
<1>6. SplitsTypeOK
  <2>1. regionOf \in [Ids -> RegionT \cup {NoRegion}]
    BY <1>1, <1>2
  <2>2. mailbox \in [Ids -> Seq(MessageT)] /\ allocated \in 0..Len(NewIds)
    BY <1>1, IdsFacts
  <2> QED
    BY <1>1, <1>2, <1>4, <2>1, <2>2, Zenon DEF SplitsTypeOK
<1>7. AddressedOK
  BY <1>1, Zenon DEF AddressedOK, Known
<1>8. FreshOK
  BY <1>1, <1>4, Zenon DEF FreshOK, Admin
<1>9. PartitionOK
  BY <1>1, <1>2, <1>5, Zenon DEF PartitionOK
<1>10. ranges \in Seq(PairT) /\ DOMAIN ranges = {1} /\ ranges[1].start = 0 /\ ranges[1].id = FirstId
  BY <1>1, <1>3 DEF PairT
<1>11. ListOK(ranges)
  <2>1. ~(1 < 1)
    OBVIOUS
  <2> QED
    BY <1>10, <2>1, Zenon DEF ListOK, IsSorted, Distinct
<1>12. RangesOK
  BY <1>2, <1>4, <1>10, <1>11, Zenon DEF RangesOK
<1>13. LastOK
  BY <1>2, <1>4, <1>10, Zenon DEF LastOK
<1> QED
  BY <1>6, <1>7, <1>8, <1>9, <1>12, <1>13, Zenon DEF SplitsInv

LEMMA SplitsInvariant == SplitsSpec => []SplitsInv
<1>1. SplitsInv /\ [SplitsNext]_splitVars => SplitsInv'
  <2> SUFFICES ASSUME SplitsInv, [SplitsNext]_splitVars PROVE SplitsInv'
    OBVIOUS
  <2>1. CASE UNCHANGED splitVars
    <3>1. UNCHANGED <<regionOf, ranges, halves>> /\ UNCHANGED <<peerRegion, mailbox, asks, allocated>>
      BY <2>1, Zenon DEF splitVars, metaVars
    <3>2. Known' = Known /\ PartitionOK' /\ RangesOK' /\ LastOK'
      BY <3>1, MetaKept, Zenon
    <3>3. SplitsTypeOK' /\ AddressedOK'
      BY <3>1, <3>2, Zenon DEF SplitsInv, SplitsTypeOK, AddressedOK
    <3>4. FreshOK'
      BY <3>1, <3>2, Zenon DEF SplitsInv, FreshOK, Allocated, Admin
    <3> QED
      BY <3>2, <3>3, <3>4, Zenon DEF SplitsInv
  <2>2. CASE SplitsNext
    BY <2>2, OnTickKeeps, OnPrepareSplitRegionKeeps, PeerSetRegionKeeps, OnAskSplitKeeps,
       ExecuteSplitKeeps, ExecuteSplitEndKeeps, Zenon DEF SplitsNext
  <2> QED
    BY <2>1, <2>2, Zenon
<1> QED
  BY SplitsInitInv, <1>1, PTL DEF SplitsSpec

\* find_region_by_key decides by the last pair that does not start above the key.
\* Its region holds its own start key, as the owner of the key does: they are one.
LEMMA InvRoutes == SplitsInv => EveryKeyRouted
<1> SUFFICES ASSUME SplitsInv, halves = {}, NEW k \in RegionKeys
             PROVE  LET owners == {id \in Ids : regionOf[id] # NoRegion /\ KeyInRegion(k, regionOf[id])}
                    IN  Cardinality(owners) = 1 /\ FindRegionByKey(k) \in owners
  BY Zenon DEF EveryKeyRouted
<1> DEFINE owners == {id \in Ids : regionOf[id] # NoRegion /\ KeyInRegion(k, regionOf[id])}
           below == {i \in DOMAIN ranges : k >= ranges[i].start}
           last == CHOOSE i \in below : \A j \in below : j <= i
<1>1. k \in Bounds /\ Bounds \subseteq Nat
  BY SplitsAssumption DEF Bounds, RegionKeys
<1>2. PICK o \in Known : KeyInRegion(k, regionOf[o])
  <2>1. PICK x \in Pieces : KeyInRegion(k, x)
    BY <1>1, Zenon DEF SplitsInv, PartitionOK
  <2>2. x \notin halves
    BY Zenon
  <2> QED
    BY <2>1, <2>2, PiecesAre, Zenon
<1>3. \A x \in Known : /\ x \in Ids /\ regionOf[x] # NoRegion /\ regionOf[x] \in RegionT /\ regionOf[x].id = x
                       /\ regionOf[x] \in Pieces
  BY Zenon DEF SplitsInv, SplitsTypeOK, Known, Pieces
<1>4. \A b \in Bounds, x, y \in Known :
        KeyInRegion(b, regionOf[x]) /\ KeyInRegion(b, regionOf[y]) => x = y
  <2>1. \A b \in Bounds, x, y \in Pieces : KeyInRegion(b, x) /\ KeyInRegion(b, y) => x = y
    BY Zenon DEF SplitsInv, PartitionOK
  <2> QED
    BY <1>3, <2>1, Zenon
<1>5. owners = {o}
  <2>1. \A x \in Ids : regionOf[x] # NoRegion => x \in Known
    BY Zenon DEF Known
  <2>2. o \in owners /\ \A x \in owners : x = o
    BY <1>1, <1>2, <1>3, <1>4, <2>1, Zenon
  <2> QED
    BY <2>2, Zenon
<1>6. Cardinality(owners) = 1
  BY <1>5, FS_Singleton, Zenon
<1>7. /\ ListOK(ranges)
      /\ Len(ranges) \in Nat /\ DOMAIN ranges = 1..Len(ranges)
      /\ \A i \in DOMAIN ranges : ranges[i].start \in Nat
  BY ListTyped, Zenon DEF SplitsInv, RangesOK
<1>8. PICK p \in DOMAIN ranges : ranges[p].id = o
  BY Zenon DEF SplitsInv, RangesOK
<1> DEFINE g == regionOf[o]
<1>9. g \in RegionT /\ g.start = ranges[p].start /\ g.start \in Bounds /\ g.end \in Bounds
  <2>1. g \in RegionT /\ g.start = ranges[p].start
    BY <1>3, <1>8, Zenon DEF SplitsInv, RangesOK
  <2> HIDE DEF g
  <2> QED
    BY <2>1 DEF RegionT
<1>10. g.start <= k /\ (g.end = 0 \/ k < g.end)
  BY <1>1, <1>2, <1>9, KeysOfRegion, Zenon
<1> HIDE DEF g
<1>11. p \in below
  BY <1>1, <1>7, <1>9, <1>10
<1>12. last \in below /\ \A j \in below : j <= last
  <2>1. below \in SUBSET (1..Len(ranges)) /\ below # {}
    BY <1>7, <1>11, Zenon
  <2> HIDE DEF below
  <2>2. \E i \in below : \A j \in below : j <= i
    BY <1>7, <2>1, LastPosition, Zenon
  <2> QED
    BY <2>2, Zenon
<1> HIDE DEF last
<1>13. IsLast(ranges, last)
  <2> SUFFICES ASSUME NEW j \in DOMAIN ranges, j > last, ranges[j].start = ranges[last].start PROVE FALSE
    BY Zenon DEF IsLast
  <2>1. j \in below
    BY <1>12, Zenon
  <2>2. j <= last /\ last \in 1..Len(ranges) /\ j \in 1..Len(ranges)
    BY <1>7, <1>12, <2>1, Zenon
  <2> QED
    BY <1>7, <2>2
<1> DEFINE s == ranges[last].start
           d == ranges[last].id
<1>14. KeyInRegion(s, regionOf[d]) /\ d \in Known /\ regionOf[d].start = s
  BY <1>12, <1>13, Zenon DEF SplitsInv, LastOK, RangesOK
<1>15. s \in Bounds
  <2>1. regionOf[d] \in RegionT
    BY <1>3, <1>14, Zenon
  <2> QED
    BY <1>14, <2>1 DEF RegionT
<1>16. g.start <= s /\ s <= k
  <2>1. p <= last /\ last \in 1..Len(ranges) /\ p \in 1..Len(ranges)
    BY <1>7, <1>11, <1>12, Zenon
  <2>2. p < last \/ p = last
    BY <1>7, <2>1
  <2>3. p < last => ranges[p].start <= s
    BY <1>7, <2>1, Zenon DEF ListOK, IsSorted
  <2>4. k >= s
    BY <1>12, Zenon
  <2> HIDE DEF s
  <2>5. s \in Nat /\ g.start \in Nat /\ (p = last => g.start = s)
    BY <1>1, <1>9, <1>15, Zenon DEF s
  <2> QED
    BY <1>1, <1>9, <2>2, <2>3, <2>4, <2>5
<1>17. KeyInRegion(s, g)
  <2> HIDE DEF s
  <2>1. s \in Nat /\ g.end \in Nat /\ k \in Nat /\ g.start \in Nat
    BY <1>1, <1>9, <1>15, Zenon
  <2>2. g.start <= s /\ (g.end = 0 \/ s < g.end)
    BY <1>10, <1>16, <2>1
  <2> QED
    BY <1>9, <1>15, <2>2, KeysOfRegion, Zenon
<1>18. d = o
  BY <1>4, <1>14, <1>15, <1>17, Zenon DEF g
<1>19. FindRegionByKey(k) = o
  <2>1. below # {}
    BY <1>11, Zenon
  <2> QED
    BY <1>2, <1>3, <1>18, <2>1, Zenon DEF FindRegionByKey, last
<1> QED
  BY <1>5, <1>6, <1>19, Zenon

\* Between splits every key belongs to exactly one region, which
\* find_region_by_key returns, for any number of splits asked for at once and any
\* number of keys.
THEOREM KeysAreRouted == SplitsSpec => []EveryKeyRouted
BY SplitsInvariant, InvRoutes, PTL
==============================================================================
