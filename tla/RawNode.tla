-------------------------------- MODULE RawNode --------------------------------
(***************************************************************************)
(* One peer between Raft and its disk: the Ready cycle of RawNode          *)
(* (raft/rawnode.rs) over the log (raft/log.rs), the records it is kept in *)
(* (raftstore/meta/values.rs) and how PeerStorage and Peer::new read them  *)
(* back after a restart (raftstore/peer_storage.rs, peer.rs).  What Raft   *)
(* does to the log between two Readys is any append after the committed    *)
(* index and any commit up to the last one.  The loop that persists a      *)
(* Ready, sends its messages and applies its entries is the application's. *)
(* The soft state, the vote and snapshots of a Ready are left out.         *)
(***************************************************************************)
EXTENDS RaftLog, FiniteSets

CONSTANTS MaxIndex, MaxTerm,   \* bounds on the log
          MaxCrashes,          \* bound: crashes and panics
          None

\* The records on disk; no raft state is None.
HardStates == [term : Nat, commit : Nat]
RaftStates == [hard : HardStates, last : Nat]

ASSUME RawNodeAssumption ==
  MaxIndex \in Nat /\ MaxTerm \in Nat /\ None \notin HardStates /\ None \notin RaftStates

VARIABLES
  log,         \* raft_log
  term,        \* current term of Raft
  prevHard,    \* prev_hard_state: term and commit
  pending,     \* Raft has messages (append responses) that ready() will take
  rd,          \* the Ready being handled, or None
  at,          \* how far: "idle" (there is none), "log", "state", "send", "apply", "advance"
  wrote,       \* entries of rd that write_raft_log has put
  disk,        \* raft log by index, raft state and apply state
  told,        \* ghost: entries whose append response has been sent
  clean,       \* ghost: no entry was overwritten once ready() had handed it out
  crashes

peerVars == <<log, term, prevHard, pending, rd, at, wrote, disk, told, clean, crashes>>

Hard == [term |-> term, commit |-> log.committed]

\* PeerStorage: read_raft_log stops at the first index that is missing.
ReadRaftLog(d, lo, hi) ==
  LET stop == CHOOSE i \in lo..hi : /\ i = hi \/ d.log[i] = 0
                                    /\ \A j \in lo..(i - 1) : d.log[j] # 0
  IN  [i \in 1..(stop - lo) |-> Entry(d.log[lo + i - 1], lo + i - 1, None)]

\* Without a raft state the last index is the applied one.
DiskLast(d) == IF d.state = None THEN d.applied ELSE d.state.last
DiskHard(d) == IF d.state = None THEN [term |-> 0, commit |-> 0] ELSE d.state.hard

\* RaftLog::new over PeerStorage, with the applied index Peer::new passes on.
LoadLog(d) ==
  [entries |-> IF DiskLast(d) >= 1 THEN ReadRaftLog(d, 1, DiskLast(d) + 1) ELSE << >>,
   committed |-> DiskHard(d).commit, applied |-> d.applied, stabled |-> DiskLast(d)]

PeerInit ==
  /\ disk = [log |-> [i \in 1..MaxIndex |-> 0], state |-> None, applied |-> 0]
  /\ log = LoadLog(disk) /\ term = 0
  /\ prevHard = Hard
  /\ pending = FALSE /\ rd = None /\ at = "idle" /\ wrote = 0
  /\ told = {} /\ clean = TRUE /\ crashes = 0

-----------------------------------------------------------------------------
(* Raft between two Readys. *)
RaftOnly == UNCHANGED <<prevHard, rd, at, wrote, disk, told, crashes>>

\* The last index that ready() has handed out.
Handed == IF at = "idle" \/ rd.entries = << >> THEN log.stabled ELSE rd.entries[Len(rd.entries)].index

\* An append from index i on; the node acknowledges it with its last index.
RaftAppend(i, t) ==
  LET es == <<Entry(t, i, None)>> IN
  /\ ~AppendPanics(log, es) /\ i <= last_index(log) + 1 /\ i <= MaxIndex
  /\ t >= term /\ t > 0
  /\ log' = append(log, es)
  /\ Len(append(log, es).entries) <= MaxIndex
  /\ term' = t /\ pending' = TRUE
  /\ clean' = (clean /\ i > Handed /\ (log.entries = << >> \/ i > first_index(log)))
  /\ RaftOnly

RaftCommit(i) ==
  /\ i > log.committed /\ i <= last_index(log)
  /\ log' = [log EXCEPT !.committed = i]
  /\ UNCHANGED <<term, pending, clean>> /\ RaftOnly

-----------------------------------------------------------------------------
\* next_entries: the slice ends with the entry at committed_offset, inclusive.
NextEnd(l) == LET c == Offset(l, l.committed) IN IF c < Len(l.entries) THEN c ELSE Len(l.entries)
NextPanics(l) == NextEnd(l) + 1 > Len(l.entries) \/ Offset(l, l.applied) > NextEnd(l) + 1
next_entries(l) == SubSeq(l.entries, Offset(l, l.applied) + 1, NextEnd(l) + 1)

\* ready(): the hard state if it changed, unstable and committed entries, messages.
NewReady ==
  [hard |-> IF Hard # prevHard /\ Hard # [term |-> 0, commit |-> 0] THEN Hard ELSE None,
   entries |-> unstable_entries(log),
   committed |-> IF log.applied < log.committed THEN next_entries(log) ELSE << >>,
   messages |-> pending, seen |-> {log.entries[i] : i \in DOMAIN log.entries}]
ReadyPanics == UnstablePanics(log) \/ (log.applied < log.committed /\ NextPanics(log))
NonEmpty(r) == r.hard # None \/ r.entries # << >> \/ r.committed # << >> \/ r.messages

\* Mutant: unpersisted entries are looked for above the commit index.
has_readyMutant ==
  \/ Hard # prevHard /\ Hard # [term |-> 0, commit |-> 0]
  \/ last_index(log) > log.committed
  \/ log.applied < log.committed
  \/ pending
has_ready ==
  \/ Hard # prevHard /\ Hard # [term |-> 0, commit |-> 0]
  \/ last_index(log) > log.stabled
  \/ log.applied < log.committed
  \/ pending

Ready ==
  /\ at = "idle" /\ has_ready /\ ~ReadyPanics
  /\ rd' = NewReady /\ at' = "log" /\ wrote' = 0
  /\ pending' = FALSE
  /\ UNCHANGED <<log, term, prevHard, disk, told, clean, crashes>>

-----------------------------------------------------------------------------
(* The application: persist, send, apply, advance. *)
AppOnly == UNCHANGED <<log, term, prevHard, pending, rd, clean, crashes>>

\* write_raft_log: one put per entry, so that a crash may leave some of them.
WriteRaftLog ==
  /\ at = "log"
  /\ IF wrote = Len(rd.entries) THEN at' = "state" /\ UNCHANGED <<disk, wrote>>
     ELSE LET e == rd.entries[wrote + 1] IN
          /\ disk' = [disk EXCEPT !.log[e.index] = e.term]
          /\ wrote' = wrote + 1 /\ UNCHANGED at
  /\ UNCHANGED told /\ AppOnly

\* write_raft_state: the hard state and the last index written.
WriteRaftState ==
  /\ at = "state" /\ at' = "send"
  /\ disk' = [disk EXCEPT !.state =
       [hard |-> IF rd.hard = None THEN DiskHard(disk) ELSE rd.hard,
        last |-> IF rd.entries = << >> THEN DiskLast(disk) ELSE rd.entries[Len(rd.entries)].index]]
  /\ UNCHANGED <<wrote, told>> /\ AppOnly

SendMessages ==
  /\ at = "send" /\ at' = "apply"
  /\ told' = IF rd.messages THEN rd.seen ELSE told
  /\ UNCHANGED <<wrote, disk>> /\ AppOnly

\* write_apply_state with the entries applied.
WriteApplyState ==
  /\ at = "apply" /\ at' = "advance"
  /\ disk' = IF rd.committed = << >> THEN disk
             ELSE [disk EXCEPT !.applied = rd.committed[Len(rd.committed)].index]
  /\ UNCHANGED <<wrote, told>> /\ AppOnly

\* Mutant: everything in memory counts as persisted.
AdvancedMutant(l, r) ==
  [l EXCEPT !.stabled = IF r.entries = << >> THEN @ ELSE last_index(l),
            !.applied = IF r.committed = << >> THEN @ ELSE r.committed[Len(r.committed)].index]
\* Mutant: the applied index follows the commit index of the Ready.
AppliedMutant(l, r) ==
  [l EXCEPT !.stabled = IF r.entries = << >> THEN @ ELSE r.entries[Len(r.entries)].index,
            !.applied = IF r.committed = << >> THEN @ ELSE l.committed]
Advanced(l, r) ==
  [l EXCEPT !.stabled = IF r.entries = << >> THEN @ ELSE r.entries[Len(r.entries)].index,
            !.applied = IF r.committed = << >> THEN @ ELSE r.committed[Len(r.committed)].index]
Advance ==
  /\ at = "advance"
  /\ log' = Advanced(log, rd)
  /\ prevHard' = IF rd.hard = None THEN prevHard ELSE rd.hard
  /\ rd' = None /\ at' = "idle" /\ wrote' = 0
  /\ UNCHANGED <<term, pending, disk, told, clean, crashes>>

\* The process ends, or ready() panics; Peer::new reads everything back.
PeerRestart ==
  /\ crashes < MaxCrashes
  /\ crashes' = crashes + 1
  /\ log' = LoadLog(disk) /\ term' = DiskHard(disk).term
  /\ prevHard' = DiskHard(disk)
  /\ pending' = FALSE /\ rd' = None /\ at' = "idle" /\ wrote' = 0
  /\ UNCHANGED <<disk, told, clean>>

PeerNext ==
  \/ \E i \in 1..MaxIndex : RaftCommit(i) \/ \E t \in 1..MaxTerm : RaftAppend(i, t)
  \/ Ready \/ WriteRaftLog \/ WriteRaftState \/ SendMessages \/ WriteApplyState \/ Advance
  \/ PeerRestart

PeerSpec == PeerInit /\ [][PeerNext]_peerVars

-----------------------------------------------------------------------------
\* An entry whose append response has left the node is in the log it has in
\* memory and in the one it would read back after a crash, whenever Raft steps
\* fall between ready and advance, as long as no persisted entry was overwritten.
AcknowledgedIsDurable ==
  clean => \A e \in told :
    /\ \E i \in DOMAIN log.entries : log.entries[i] = e
    /\ \E i \in DOMAIN LoadLog(disk).entries : LoadLog(disk).entries[i] = e

\* has_ready answers true exactly when ready would return something: the
\* application never sleeps on an update and never spins on an empty Ready.
HasReadyIsExact ==
  clean /\ at = "idle" /\ ~ReadyPanics => (has_ready <=> NonEmpty(NewReady))

\* The entries a Ready has to apply continue exactly where the applied index
\* on disk ends: none is skipped or applied twice, over crashes and restarts.
AppliesInOrder ==
  clean /\ at \in {"log", "state", "send", "apply"} =>
    \A i \in DOMAIN rd.committed : rd.committed[i].index = disk.applied + i
================================================================================
