----------------------------- MODULE RaftProofs -----------------------------
(***************************************************************************)
(* Three properties of Raft for any set of nodes and any bounds, over a    *)
(* network that loses, duplicates and reorders messages and with nodes     *)
(* that panic and restart: ElectedAuthors, LeaderAppendOnly and            *)
(* CommittedNotOverwritten.                                                *)
(*                                                                         *)
(* Entries come from elected authors because a leader was elected, because *)
(* the votes a candidate counted are answers on the network, and because   *)
(* an append carries nothing but entries of its sender's log.  Positions   *)
(* and indexes of a log can differ after a duplicated append; what does    *)
(* hold is that a log starts at index 1 and that the log of a leader is    *)
(* not longer than its last index.  What a restart reads back is in order  *)
(* again: every stored entry is under its own index, and the first one is  *)
(* stored before any other.                                                *)
(***************************************************************************)
EXTENDS Raft, FiniteSetTheorems, SequenceTheorems, TLAPS

EntryT == [term : Nat, index : Nat \ {0}, data : Node]
Entries == Seq(EntryT)
LogT == [entries : Entries, committed : Nat, applied : Nat, stabled : {0}]
ProgressT(n) == [Node \ {n} -> [match : Nat, next : Int]]
NodeT(n) ==
  [id : {n}, term : Nat, vote : Node \cup {NONE},
   state : {"Follower", "Candidate", "Leader", "Panicked"}, lead : Node \cup {NONE},
   granted : SUBSET Node, rejected : SUBSET Node, prs : ProgressT(n), log : LogT]
MsgT ==
  [type : {"Append", "AppendResponse", "Heartbeat", "HeartbeatResponse", "RequestVote",
           "RequestVoteResponse"},
   from : Node, to : Node, term : Nat, log_term : Nat, index : Nat, entries : Entries,
   commit : Nat, reject : BOOLEAN]

\* The votes for c in a term among the messages M; VotersOf is the case M = msgs.
VotersIn(M, c, term) ==
  {c} \cup {m.from : m \in {m \in M : /\ m.type = "RequestVoteResponse" /\ ~m.reject
                                      /\ m.to = c /\ m.term = term}}
Elected(M, c, term) == 2 * Cardinality(VotersIn(M, c, term)) > Cardinality(Node)
AllElected(M, es) == \A i \in DOMAIN es : Elected(M, es[i].data, es[i].term)

FromOne(es) == es # << >> => es[1].index = 1

NodeOK(M, n, s) ==
  /\ s \in NodeT(n)
  /\ FromOne(s.log.entries)
  /\ AllElected(M, s.log.entries)
  /\ s.state = "Candidate" => s.granted \subseteq VotersIn(M, n, s.term)
  /\ s.state = "Leader" => /\ Elected(M, n, s.term)
                           /\ s.log.entries # << >> /\ Len(s.log.entries) <= last_index(s.log)

MsgOK(M, m) ==
  /\ m \in MsgT /\ m.from # m.to
  /\ m.index = 0 => FromOne(m.entries)
  /\ AllElected(M, m.entries)

\* Stored entries are under their own index, the first of them among them.
StoredOK(M, d) ==
  /\ d.last \in Nat /\ DOMAIN d.log \subseteq Nat \ {0}
  /\ d.last # 0 => 1 \in DOMAIN d.log
  /\ \A i \in DOMAIN d.log : /\ d.log[i] \in EntryT /\ d.log[i].index = i
                             /\ Elected(M, d.log[i].data, d.log[i].term)

RaftInv ==
  /\ node = [n \in Node |-> node[n]]
  /\ stored = [n \in Node |-> stored[n]]
  /\ \A n \in Node : NodeOK(msgs, n, node[n]) /\ StoredOK(msgs, stored[n])
  /\ \A m \in msgs : MsgOK(msgs, m)

\* What a step may do to a log.
KeepsCommitted(l, k) ==
  \A i \in DOMAIN l.entries :
    i <= l.committed => i \in DOMAIN k.entries /\ k.entries[i] = l.entries[i]
Extends(l, k) ==
  \A i \in DOMAIN l.entries : i \in DOMAIN k.entries /\ k.entries[i] = l.entries[i]

\* What a handler of node n in state s promises about its outcome.
HandlerOK(M, n, s, o) ==
  /\ o.s.state # "Panicked" =>
       /\ NodeOK(M, n, o.s)
       /\ KeepsCommitted(s.log, o.s.log)
       /\ s.state = "Leader" /\ o.s.state = "Leader" => Extends(s.log, o.s.log)
  /\ \A m \in o.out : MsgOK(M, m)

-----------------------------------------------------------------------------
(* Quorums. *)

\* A nonempty set of naturals has a smallest element.
LEMMA Smallest ==
  ASSUME NEW S \in SUBSET Nat, S # {}
  PROVE  \E n \in S : \A m \in S : n <= m
<1> DEFINE T == {1..n : n \in S}
<1>1. T \subseteq FiniteSubsetsOf(Nat) /\ T # {}
  <2>1. ASSUME NEW n \in S
        PROVE  1..n \in FiniteSubsetsOf(Nat)
    <3>1. n \in Int /\ 1 \in Int /\ 1..n \in SUBSET Nat
      OBVIOUS
    <3> QED
      BY <3>1, FS_Interval, Zenon DEF FiniteSubsetsOf
  <2> QED
    BY <2>1, Zenon
<1> HIDE DEF T
<1>2. PICK x \in T : \A y \in T : ~ (<<y, x>> \in StrictSubsetOrdering(Nat))
  BY <1>1, FS_StrictSubsetOrderingWellFounded, WFMin, Zenon
<1>3. PICK n \in S : x = 1..n
  BY <1>2, Zenon DEF T
<1>4. ASSUME NEW m \in S, m < n
      PROVE  FALSE
  <2>1. 1..m \in T
    BY Zenon DEF T
  <2>2. n \notin 1..m /\ n \in 1..n /\ 1..m \subseteq 1..n
    BY <1>4
  <2>3. 1..m \in SUBSET Nat /\ 1..n \in SUBSET Nat
    OBVIOUS
  <2>4. <<1..m, x>> \in StrictSubsetOrdering(Nat)
    BY <1>3, <2>2, <2>3, Zenon DEF StrictSubsetOrdering
  <2> QED
    BY <1>2, <2>1, <2>4, Zenon
<1> QED
  BY <1>4

\* maybe_commit picks one of the match indexes: the sorted list of the peers has a
\* quorum-th element as soon as there are that many peers.
LEMMA CommitIndexIsMatch ==
  ASSUME NEW s, NEW P, IsFiniteSet(P), P # {}, s.prs \in [P -> [match : Nat, next : Int]],
         quorum(s) \in Nat \ {0}, Cardinality(Peers(s)) >= quorum(s)
  PROVE  CommitIndex(s) \in Nat
<1> DEFINE M(p) == s.prs[p].match
           AtLeast(i) == {p \in P : M(p) >= i}
           Above(i) == {p \in P : M(p) > i}
           q == quorum(s)
<1>1. Peers(s) = P /\ q \in Nat \ {0} /\ Cardinality(P) >= q /\ \A p \in P : M(p) \in Nat
  BY Zenon DEF Peers
<1> HIDE DEF M, q
<1>2. \A i : /\ AtLeast(i) \in SUBSET P /\ Above(i) \in SUBSET P
             /\ IsFiniteSet(AtLeast(i)) /\ IsFiniteSet(Above(i))
             /\ Cardinality(AtLeast(i)) \in Nat /\ Cardinality(Above(i)) \in Nat
  BY FS_Subset, FS_CardinalityType, Zenon
<1>3. \A T \in SUBSET P : T # {} => \E r \in T : \A p \in T : M(r) <= M(p)
  <2> TAKE T \in SUBSET P
  <2> HAVE T # {}
  <2>1. {M(p) : p \in T} \in SUBSET Nat /\ {M(p) : p \in T} # {}
    BY <1>1
  <2>2. PICK n \in {M(p) : p \in T} : \A m \in {M(p) : p \in T} : n <= m
    BY <2>1, Smallest, Zenon
  <2> QED
    BY <2>2
<1>a. \A r \in P : /\ r \in AtLeast(M(r)) /\ r \notin Above(M(r)) /\ Above(M(r)) \subseteq AtLeast(M(r))
                   /\ (\A p \in P : M(r) <= M(p)) => AtLeast(M(r)) = P
  BY <1>1
<1>b. \A r \in P : \A t \in Above(M(r)) :
        (\A p \in Above(M(r)) : M(t) <= M(p)) => t \in P /\ AtLeast(M(t)) = Above(M(r))
  BY <1>1
<1> HIDE DEF AtLeast, Above
<1> DEFINE C == {Cardinality(AtLeast(M(r))) : r \in {x \in P : Cardinality(AtLeast(M(x))) >= q}}
<1>c. C \in SUBSET Nat
  BY <1>2, Zenon
<1>4. C # {}
  <2>1. PICK r \in P : \A p \in P : M(r) <= M(p)
    BY <1>3, Zenon
  <2>2. AtLeast(M(r)) = P
    BY <1>a, <2>1, Zenon
  <2>3. Cardinality(AtLeast(M(r))) >= q
    BY <1>1, <2>2, Zenon
  <2> QED
    BY <2>3
<1>d. \A r \in P : Cardinality(AtLeast(M(r))) >= q => Cardinality(AtLeast(M(r))) \in C
  BY Zenon
<1>e. \A c \in C : \E r \in P : c = Cardinality(AtLeast(M(r))) /\ Cardinality(AtLeast(M(r))) >= q
  BY Zenon
<1> HIDE DEF C
<1>5. PICK c \in C : \A d \in C : c <= d
  BY <1>c, <1>4, Smallest, Zenon
<1>6. PICK r \in P : c = Cardinality(AtLeast(M(r))) /\ Cardinality(AtLeast(M(r))) >= q
  BY <1>5, <1>e, Zenon
<1>7. ASSUME Cardinality(Above(M(r))) >= q
      PROVE  FALSE
  <2>1. Above(M(r)) # {}
    <3>1. Cardinality(Above(M(r))) # 0
      BY <1>1, <1>2, <1>7
    <3> QED
      BY <3>1, FS_EmptySet, Zenon
  <2>2. PICK t \in Above(M(r)) : \A p \in Above(M(r)) : M(t) <= M(p)
    BY <1>2, <1>3, <2>1, Zenon
  <2>3. t \in P /\ AtLeast(M(t)) = Above(M(r))
    BY <1>b, <2>2, Zenon
  <2>4. Cardinality(Above(M(r))) \in C
    BY <1>7, <1>d, <2>3, Zenon
  <2>5. Above(M(r)) \in SUBSET AtLeast(M(r)) /\ AtLeast(M(r)) # Above(M(r))
    BY <1>a, Zenon
  <2>6. Cardinality(Above(M(r))) <= Cardinality(AtLeast(M(r)))
        /\ Cardinality(Above(M(r))) # Cardinality(AtLeast(M(r)))
    BY <1>2, <2>5, FS_Subset, Zenon
  <2>7. c <= Cardinality(Above(M(r)))
    BY <1>5, <2>4, Zenon
  <2> QED
    BY <1>2, <1>6, <2>6, <2>7
<1>8. \E i \in {s.prs[p].match : p \in Peers(s)} :
        /\ Cardinality({p \in Peers(s) : s.prs[p].match >= i}) >= quorum(s)
        /\ Cardinality({p \in Peers(s) : s.prs[p].match > i}) < quorum(s)
  <2>1. Cardinality(Above(M(r))) < q
    BY <1>1, <1>2, <1>7
  <2> QED
    BY <1>1, <1>6, <2>1, Zenon DEF M, AtLeast, Above, q
<1>9. CommitIndex(s) \in {s.prs[p].match : p \in Peers(s)}
  BY <1>8, Zenon DEF CommitIndex
<1> QED
  BY <1>1, <1>9, Zenon DEF M

\* A quorum of the peers and the node itself is a majority of the nodes.
LEMMA QuorumIsMajority ==
  ASSUME NEW n \in Node, NEW s, s \in NodeT(n)
  PROVE  /\ Peers(s) = Node \ {n} /\ IsFiniteSet(Peers(s))
         /\ quorum(s) \in Nat \ {0} /\ 2 * quorum(s) > Cardinality(Node)
<1>1. Peers(s) = Node \ {n}
  BY Zenon DEF Peers, NodeT, ProgressT
<1>2. IsFiniteSet(Peers(s)) /\ Cardinality(Peers(s)) = Cardinality(Node) - 1
  BY <1>1, NodeAssumption, FS_RemoveElement, Zenon
<1>3. Cardinality(Node) \in Nat
  BY NodeAssumption, FS_CardinalityType, Zenon
<1> QED
  BY <1>1, <1>2, <1>3 DEF quorum

\* The voters of a node are finitely many nodes.
LEMMA VotersFinite ==
  ASSUME NEW M, M \subseteq MsgT, NEW c \in Node, NEW t
  PROVE  /\ VotersIn(M, c, t) \in SUBSET Node /\ IsFiniteSet(VotersIn(M, c, t))
         /\ Cardinality(VotersIn(M, c, t)) \in Nat /\ Cardinality(Node) \in Nat
<1>1. VotersIn(M, c, t) \in SUBSET Node
  BY Zenon DEF VotersIn, MsgT
<1> QED
  BY <1>1, NodeAssumption, FS_Subset, FS_CardinalityType, Zenon

\* Whoever counts a quorum of votes that are on the network is elected.
LEMMA CountedIsElected ==
  ASSUME NEW M, M \subseteq MsgT, NEW n \in Node, NEW s, s \in NodeT(n),
         NEW G, G \subseteq VotersIn(M, n, s.term), Cardinality(G) >= quorum(s)
  PROVE  Elected(M, n, s.term)
<1>1. G \in SUBSET VotersIn(M, n, s.term)
  BY Zenon
<1>2. IsFiniteSet(G) /\ Cardinality(G) <= Cardinality(VotersIn(M, n, s.term))
  BY <1>1, VotersFinite, FS_Subset, Zenon
<1>3. Cardinality(G) \in Nat
  BY <1>2, FS_CardinalityType, Zenon
<1> QED
  BY <1>2, <1>3, VotersFinite, QuorumIsMajority DEF Elected

\* Votes are never taken back.
LEMMA ElectedStays ==
  ASSUME NEW M, NEW K, M \subseteq K, K \subseteq MsgT, NEW c \in Node, NEW t, Elected(M, c, t)
  PROVE  Elected(K, c, t)
<1>1. VotersIn(M, c, t) \in SUBSET VotersIn(K, c, t)
  BY Zenon DEF VotersIn
<1>2. Cardinality(VotersIn(M, c, t)) <= Cardinality(VotersIn(K, c, t))
  BY <1>1, VotersFinite, FS_Subset, Zenon
<1>3. M \subseteq MsgT
  BY Zenon
<1> QED
  BY <1>2, <1>3, VotersFinite DEF Elected

-----------------------------------------------------------------------------
(* The log. *)

\* A slice takes its elements from the sequence, in order.
LEMMA SubSeqFacts ==
  ASSUME NEW S, NEW s \in Seq(S), NEW a \in Nat \ {0}, NEW b \in Nat, b <= Len(s)
  PROVE  LET r == SubSeq(s, a, b)
         IN  /\ r \in Seq(S) /\ DOMAIN r = 1..Len(r)
             /\ \A i \in DOMAIN r : a - 1 + i \in DOMAIN s /\ r[i] = s[a - 1 + i]
<1>1. CASE a <= b
  <2>1. /\ SubSeq(s, a, b) \in Seq(S) /\ Len(SubSeq(s, a, b)) = b - a + 1
        /\ \A i \in 1..(b - a + 1) : SubSeq(s, a, b)[i] = s[a + i - 1]
    BY <1>1, SubSeqProperties
  <2>2. \A i \in 1..(b - a + 1) : a + i - 1 = a - 1 + i /\ a - 1 + i \in 1..Len(s)
    BY <1>1
  <2> QED
    BY <2>1, <2>2
<1>2. CASE ~(a <= b)
  <2>1. SubSeq(s, a, b) = << >>
    BY <1>2
  <2> QED
    BY <2>1
<1> QED
  BY <1>1, <1>2, Zenon

\* A log that starts at index 1: its first and last index.
LEMMA LogFacts ==
  ASSUME NEW l \in LogT, FromOne(l.entries)
  PROVE  /\ first_index(l) = 1
         /\ last_index(l) \in Nat
         /\ l.entries = << >> <=> last_index(l) = 0
         /\ l.entries \in Seq(EntryT) /\ Len(l.entries) \in Nat
         /\ l.committed \in Nat /\ l.stabled = 0
<1>1. l.entries \in Seq(EntryT) /\ l.committed \in Nat /\ l.stabled = 0
  BY Zenon DEF LogT, Entries
<1>2. CASE l.entries = << >>
  BY <1>1, <1>2 DEF first_index, last_index
<1>3. CASE l.entries # << >>
  <2>1. Len(l.entries) \in 1..Len(l.entries) /\ Len(l.entries) \in Nat
    BY <1>1, <1>3
  <2>2. l.entries[Len(l.entries)] \in EntryT
    BY <1>1, <2>1
  <2> QED
    BY <1>1, <1>3, <2>1, <2>2, Zenon DEF first_index, last_index, FromOne, EntryT
<1> QED
  BY <1>2, <1>3, Zenon

\* The term at an index is a number where there is one.
LEMMA TermFacts ==
  ASSUME NEW l \in LogT, FromOne(l.entries), NEW i \in Nat
  PROVE  term_sync(l, i) \subseteq Nat /\ TermOrZero(l, i) \in Nat
<1>1. term_sync(l, i) \subseteq Nat
  <2>1. ASSUME i # 0, i - 1 < Len(l.entries)
        PROVE  l.entries[i - 1 + 1].term \in Nat
    <3>1. i - 1 + 1 \in 1..Len(l.entries)
      BY <2>1, LogFacts
    <3>2. l.entries[i - 1 + 1] \in EntryT
      BY <3>1, LogFacts
    <3> QED
      BY <3>2, Zenon DEF EntryT
  <2> QED
    BY <2>1, LogFacts, Zenon DEF term_sync
<1> QED
  BY <1>1, Zenon DEF TermOrZero

\* append keeps a log one, starts it at 1, never cuts at or below the commit index
\* and takes entries from nowhere else.
LEMMA AppendFacts ==
  ASSUME NEW l \in LogT, FromOne(l.entries), NEW es \in Entries, ~AppendPanics(l, es),
         l.entries = << >> => FromOne(es),
         NEW M, AllElected(M, l.entries), AllElected(M, es)
  PROVE  /\ append(l, es) \in LogT
         /\ FromOne(append(l, es).entries)
         /\ AllElected(M, append(l, es).entries)
         /\ KeepsCommitted(l, append(l, es))
         /\ append(l, es).committed = l.committed
<1>1. CASE es = << >>
  BY <1>1, Zenon DEF append, KeepsCommitted
<1>2. CASE es # << >>
  <2> DEFINE x == es[1].index
             cut == x > 1 /\ x - 1 < Len(l.entries)
             kept == IF cut THEN SubSeq(l.entries, 1, x - 1) ELSE l.entries
  <2>1. es \in Seq(EntryT) /\ Len(es) \in Nat \ {0} /\ 1 \in 1..Len(es)
    BY <1>2 DEF Entries
  <2>2. x \in Nat \ {0} /\ x > l.committed
    <3>1. es[1] \in EntryT
      BY <2>1
    <3>2. x \in Nat \ {0}
      BY <3>1, Zenon DEF EntryT
    <3> QED
      BY <1>2, <3>2, LogFacts DEF AppendPanics
  <2>3. append(l, es) = [l EXCEPT !.entries = kept \o es]
    BY <1>2, LogFacts, Zenon DEF append
  <2>4. /\ kept \in Seq(EntryT) /\ Len(kept) <= Len(l.entries)
        /\ \A i \in 1..Len(kept) : kept[i] = l.entries[i]
        /\ \A i \in 1..Len(l.entries) : i <= l.committed => i \in 1..Len(kept)
        /\ kept = << >> => l.entries = << >>
    <3>1. CASE cut
      <4>1. kept = SubSeq(l.entries, 1, x - 1) /\ x - 1 \in 1..Len(l.entries)
        BY <2>2, <3>1, LogFacts
      <4>2. /\ kept \in Seq(EntryT) /\ Len(kept) = x - 1
            /\ \A i \in 1..(x - 1) : kept[i] = l.entries[i]
        <5> HIDE DEF kept, x
        <5> QED
          BY <4>1, LogFacts
      <4> HIDE DEF kept, x
      <4> QED
        BY <2>2, <4>1, <4>2, LogFacts
    <3>2. CASE ~cut
      BY <3>2, LogFacts
    <3> QED
      BY <3>1, <3>2, Zenon
  <2> DEFINE r == kept \o es
  <2> HIDE DEF kept
  <2>5. /\ r \in Seq(EntryT) /\ Len(r) = Len(kept) + Len(es)
        /\ \A i \in 1..Len(kept) : r[i] = kept[i]
        /\ \A i \in 1..Len(r) : i > Len(kept) => i - Len(kept) \in 1..Len(es) /\ r[i] = es[i - Len(kept)]
        /\ Len(kept) \in Nat /\ DOMAIN r = 1..Len(r)
        /\ DOMAIN es = 1..Len(es) /\ DOMAIN l.entries = 1..Len(l.entries)
    BY <2>1, <2>4, LogFacts
  <2>6. append(l, es).entries = r /\ append(l, es) \in LogT /\ append(l, es).committed = l.committed
    BY <2>3, <2>5, Zenon DEF LogT, Entries
  <2> HIDE DEF r
  <2>7. FromOne(r)
    <3>1. CASE kept = << >>
      BY <2>1, <2>4, <2>5, <3>1 DEF FromOne
    <3>2. CASE kept # << >>
      <4>1. 1 \in 1..Len(kept)
        BY <2>4, <3>2
      <4>2. r[1] = l.entries[1] /\ l.entries # << >>
        BY <2>4, <2>5, <4>1, LogFacts
      <4> QED
        BY <4>2, Zenon DEF FromOne
    <3> QED
      BY <3>1, <3>2, Zenon
  <2>8. AllElected(M, r)
    <3> SUFFICES ASSUME NEW i \in 1..Len(r)
                 PROVE  \/ \E j \in DOMAIN l.entries : r[i] = l.entries[j]
                        \/ \E j \in DOMAIN es : r[i] = es[j]
      BY <2>5, Zenon DEF AllElected
    <3>1. CASE i <= Len(kept)
      <4>1. i \in 1..Len(kept) /\ i \in DOMAIN l.entries
        BY <2>4, <2>5, <3>1, LogFacts
      <4>2. r[i] = l.entries[i]
        BY <2>4, <2>5, <4>1, Zenon
      <4> QED
        BY <4>1, <4>2, Zenon
    <3>2. CASE i > Len(kept)
      BY <2>5, <3>2, Zenon
    <3> QED
      BY <2>5, <3>1, <3>2
  <2>9. KeepsCommitted(l, append(l, es))
    <3> SUFFICES ASSUME NEW i \in 1..Len(l.entries), i <= l.committed
                 PROVE  i \in 1..Len(r) /\ r[i] = l.entries[i]
      BY <2>5, <2>6, Zenon DEF KeepsCommitted
    <3> QED
      BY <2>1, <2>4, <2>5
  <2> QED
    BY <2>6, <2>7, <2>8, <2>9, Zenon
<1> QED
  BY <1>1, <1>2, Zenon

\* A new entry at the end of the log: what follows the cut is exactly one entry,
\* and in the log of a leader nothing is cut.
LEMMA AppendOne ==
  ASSUME NEW l \in LogT, FromOne(l.entries), NEW t \in Nat, NEW n \in Node
  PROVE  LET a == append(l, <<Entry(t, last_index(l) + 1, n)>>)
         IN  /\ a.entries # << >> /\ Len(a.entries) <= last_index(a)
             /\ Len(l.entries) <= last_index(l) => Extends(l, a)
<1> DEFINE e == Entry(t, last_index(l) + 1, n)
           x == last_index(l) + 1
           cut == x > 1 /\ x - 1 < Len(l.entries)
           kept == IF cut THEN SubSeq(l.entries, 1, x - 1) ELSE l.entries
           a == append(l, <<e>>)
<1>1. x \in Nat \ {0} /\ e \in EntryT /\ e.index = x
  BY LogFacts DEF EntryT, Entry
<1> HIDE DEF e
<1>2. <<e>> # << >> /\ <<e>>[1] = e /\ <<e>> \in Seq(EntryT) /\ Len(<<e>>) = 1
  BY <1>1
<1>3. a = [l EXCEPT !.entries = kept \o <<e>>]
  BY <1>1, <1>2, LogFacts, Zenon DEF append
<1>4. kept \in Seq(EntryT) /\ Len(kept) <= x - 1
  <2>1. CASE cut
    <3>1. kept = SubSeq(l.entries, 1, x - 1) /\ x - 1 \in 1..Len(l.entries)
      BY <1>1, <2>1, LogFacts
    <3> HIDE DEF kept, x
    <3> QED
      BY <1>1, <3>1, LogFacts
  <2>2. CASE ~cut
    <3>1. last_index(l) = 0 => Len(l.entries) = 0
      BY LogFacts
    <3> QED
      BY <1>1, <2>2, <3>1, LogFacts
  <2> QED
    BY <2>1, <2>2, Zenon
<1>5. Len(l.entries) <= last_index(l) => kept = l.entries
  BY <1>1, LogFacts
<1> HIDE DEF kept, x
<1> DEFINE r == kept \o <<e>>
<1>6. r \in Seq(EntryT) /\ Len(r) = Len(kept) + 1 /\ r[Len(r)] = e /\ r # << >>
  BY <1>1, <1>2, <1>4
<1>7. \A i \in 1..Len(kept) : i \in DOMAIN r /\ r[i] = kept[i]
  BY <1>1, <1>2, <1>4
<1>8. a.entries = r
  BY <1>3, Zenon DEF LogT
<1> HIDE DEF r, a
<1>9. last_index(a) = x
  BY <1>1, <1>6, <1>8, Zenon DEF last_index
<1>10. a.entries # << >> /\ Len(a.entries) <= last_index(a)
  BY <1>1, <1>4, <1>6, <1>8, <1>9
<1>11. Len(l.entries) <= last_index(l) => Extends(l, a)
  BY <1>5, <1>7, <1>8, LogFacts DEF Extends
<1> QED
  BY <1>10, <1>11, Zenon DEF a, e
-----------------------------------------------------------------------------
(* The messages a handler sends. *)

\* A message without entries says nothing about authors.
LEMMA PlainMsgOK ==
  ASSUME NEW M, NEW m \in MsgT, m.from # m.to, m.entries = << >>
  PROVE  MsgOK(M, m)
BY DEF MsgOK, FromOne, AllElected

\* Message makes a message without entries from its sender to another node.
LEMMA MessageType ==
  ASSUME NEW n \in Node, NEW s \in NodeT(n), NEW to \in Node \ {n}, NEW i \in Nat,
         NEW type \in {"Append", "AppendResponse", "Heartbeat", "HeartbeatResponse", "RequestVote",
                       "RequestVoteResponse"}
  PROVE  LET m == Message(type, s, to, i)
         IN  m \in MsgT /\ m.from = n /\ m.to = to /\ m.entries = << >> /\ m.index = i
<1>1. << >> \in Entries
  BY DEF Entries
<1> QED
  BY <1>1, Zenon DEF Message, MsgT, NodeT

\* Handlers that leave the entries alone.
LEMMA SameEntries ==
  ASSUME NEW M, NEW n \in Node, NEW s, NodeOK(M, n, s), NEW t \in NodeT(n),
         t.log.entries = s.log.entries,
         t.state = "Candidate" => t.granted \subseteq VotersIn(M, n, t.term),
         t.state = "Leader" => s.state = "Leader" /\ t.term = s.term
  PROVE  NodeOK(M, n, t) /\ KeepsCommitted(s.log, t.log) /\ Extends(s.log, t.log)
<1>1. s.log.stabled = 0 /\ t.log.stabled = 0
  BY Zenon DEF NodeOK, NodeT, LogT
<1>2. last_index(t.log) = last_index(s.log)
  BY <1>1, Zenon DEF last_index
<1> QED
  BY <1>2, Zenon DEF NodeOK, KeepsCommitted, Extends

-----------------------------------------------------------------------------
(* Sending appends. *)

\* send_append sends nothing but entries of the sender's log.
LEMMA SendAppendOK ==
  ASSUME NEW M, NEW n \in Node, NEW s, NodeOK(M, n, s), NEW to \in Node \ {n},
         ~SendPanics(s, to), NEW m \in send_append(s, to)
  PROVE  MsgOK(M, m)
<1> DEFINE next == s.prs[to].next
           last == last_index(s.log)
           end == IF last - 1 + 1 < Len(s.log.entries) THEN last - 1 + 1 ELSE Len(s.log.entries)
           es == IF next <= last THEN SubSeq(s.log.entries, next - 1 + 1, end) ELSE << >>
           plain == Message("Append", s, to, next - 1)
<1>1. s \in NodeT(n) /\ s.log \in LogT /\ FromOne(s.log.entries) /\ AllElected(M, s.log.entries)
  BY Zenon DEF NodeOK, NodeT
<1>2. next \in Int /\ s.log.committed \in Nat
  BY <1>1, Zenon DEF NodeT, ProgressT, LogT
<1>3. /\ first_index(s.log) = 1 /\ last \in Nat /\ s.log.entries \in Seq(EntryT)
      /\ Len(s.log.entries) \in Nat
  BY <1>1, LogFacts, Zenon
<1>4. /\ next <= last + 1
      /\ m = [plain EXCEPT !.log_term = TermOrZero(s.log, next - 1), !.entries = es,
                           !.commit = s.log.committed]
  BY <1>2, <1>3 DEF send_append
<1>5. next >= 1 /\ next - 1 \in Nat /\ (next <= last => next - 1 <= Len(s.log.entries))
  BY <1>2, <1>3, <1>4, SMTT(20) DEF SendPanics
<1>6. TermOrZero(s.log, next - 1) \in Nat
  BY <1>1, <1>5, TermFacts, Zenon
<1>7. plain \in MsgT /\ plain.from = n /\ plain.to = to /\ plain.index = next - 1
  BY <1>1, <1>5, MessageType
<1>8. /\ es \in Seq(EntryT) /\ DOMAIN es = 1..Len(es)
      /\ \A i \in DOMAIN es : next - 1 + i \in DOMAIN s.log.entries
                              /\ es[i] = s.log.entries[next - 1 + i]
  <2>1. CASE next <= last
    <3>1. next - 1 + 1 = next /\ next \in Nat \ {0} /\ end \in Nat /\ end <= Len(s.log.entries)
      BY <1>2, <1>3, <1>5
    <3>2. es = SubSeq(s.log.entries, next, end)
      BY <2>1, <3>1, Zenon
    <3> DEFINE r == SubSeq(s.log.entries, next, end)
    <3> HIDE DEF es, next, end
    <3>3. /\ r \in Seq(EntryT) /\ DOMAIN r = 1..Len(r)
          /\ \A i \in DOMAIN r : /\ next - 1 + i \in DOMAIN s.log.entries
                                /\ r[i] = s.log.entries[next - 1 + i]
      BY <1>3, <3>1, SubSeqFacts
    <3> HIDE DEF r
    <3>4. es = r
      BY <3>2, Zenon DEF r
    <3> QED
      BY <3>3, <3>4, Zenon
  <2>2. CASE ~(next <= last)
    BY <2>2
  <2> QED
    BY <2>1, <2>2, Zenon
<1> HIDE DEF es, next, plain
<1>9. /\ m \in MsgT /\ m.from = n /\ m.to = to /\ m.index = next - 1 /\ m.entries = es
  BY <1>2, <1>4, <1>6, <1>7, <1>8, Zenon DEF MsgT, Entries
<1>10. next - 1 = 0 => FromOne(es)
  <2> SUFFICES ASSUME next = 1, es # << >>
               PROVE  es[1].index = 1
    BY <1>2 DEF FromOne
  <2>1. 1 \in DOMAIN es
    BY <1>8
  <2>2. es[1] = s.log.entries[1] /\ s.log.entries # << >>
    BY <1>3, <1>8, <2>1
  <2> QED
    BY <1>1, <2>2, Zenon DEF FromOne
<1>11. AllElected(M, es)
  BY <1>1, <1>8, Zenon DEF AllElected
<1> QED
  BY <1>9, <1>10, <1>11, Zenon DEF MsgOK

\* bcast_append keeps the node and sends such appends to all peers.
LEMMA BcastAppendOK ==
  ASSUME NEW M, NEW n \in Node, NEW s, NodeOK(M, n, s)
  PROVE  LET o == bcast_append(s)
         IN  (o.s.state # "Panicked" => o.s = s) /\ \A m \in o.out : MsgOK(M, m)
<1>1. s \in NodeT(n)
  BY Zenon DEF NodeOK
<1>2. Peers(s) = Node \ {n}
  BY <1>1, QuorumIsMajority, Zenon
<1>3. CASE \E to \in Peers(s) : SendPanics(s, to)
  BY <1>1, <1>3, Zenon DEF bcast_append, Panic, Out, NodeT
<1>4. CASE ~\E to \in Peers(s) : SendPanics(s, to)
  <2>1. bcast_append(s) = Out(s, UNION {send_append(s, to) : to \in Peers(s)})
    BY <1>4, Zenon DEF bcast_append
  <2>2. \A m \in UNION {send_append(s, to) : to \in Peers(s)} : MsgOK(M, m)
    BY <1>2, <1>4, SendAppendOK
  <2> QED
    BY <2>1, <2>2 DEF Out
<1> QED
  BY <1>3, <1>4, Zenon

\* Sending an append to one peer changes nothing unless it panics.
LEMMA SendToOK ==
  ASSUME NEW M, NEW n \in Node, NEW s, NodeOK(M, n, s), NEW to \in Node \ {n}
  PROVE  LET o == SendTo(s, to)
         IN  (o.s.state # "Panicked" => o.s = s) /\ \A m \in o.out : MsgOK(M, m)
<1>1. s \in NodeT(n)
  BY Zenon DEF NodeOK
<1>2. CASE SendPanics(s, to)
  BY <1>1, <1>2, Zenon DEF SendTo, Panic, Out, NodeT
<1>3. CASE ~SendPanics(s, to)
  BY <1>3, SendAppendOK, Zenon DEF SendTo, Out
<1> QED
  BY <1>2, <1>3, Zenon

-----------------------------------------------------------------------------
(* Handlers. *)

\* A handler that leaves the entries alone and makes no new leader keeps its
\* promise.
LEMMA HandlerSame ==
  ASSUME NEW M, NEW n \in Node, NEW s, NodeOK(M, n, s), NEW t \in NodeT(n),
         t.log.entries = s.log.entries,
         t.state = "Candidate" => t.granted \subseteq VotersIn(M, n, t.term),
         t.state = "Leader" => s.state = "Leader" /\ t.term = s.term,
         NEW out, \A x \in out : MsgOK(M, x)
  PROVE  HandlerOK(M, n, s, Out(t, out))
BY SameEntries, Zenon DEF HandlerOK, Out

\* A panic promises nothing.
LEMMA PanicOK ==
  ASSUME NEW M, NEW n \in Node, NEW s, NEW t \in NodeT(n)
  PROVE  HandlerOK(M, n, s, Panic(t))
BY Zenon DEF HandlerOK, Panic, Out, NodeT

\* handle_request_vote keeps its promise.
LEMMA RequestVoteOK ==
  ASSUME NEW M, NEW n \in Node, NEW s, NodeOK(M, n, s), NEW m, MsgOK(M, m), m.to = n
  PROVE  HandlerOK(M, n, s, handle_request_vote(s, m))
<1> DEFINE answer == Message("RequestVoteResponse", s, m.from, 0)
           v == [s EXCEPT !.vote = m.from]
<1>1. s \in NodeT(n) /\ m.from \in Node \ {n} /\ 0 \in Nat
  BY Zenon DEF NodeOK, MsgOK, MsgT
<1>2. answer \in MsgT /\ answer.from = n /\ answer.to = m.from /\ answer.entries = << >>
  BY <1>1, MessageType
<1> HIDE DEF answer
<1>3. MsgOK(M, answer)
  BY <1>1, <1>2, PlainMsgOK, Zenon
<1>4. MsgOK(M, [answer EXCEPT !.reject = TRUE])
  <2> DEFINE r == [answer EXCEPT !.reject = TRUE]
  <2>1. r \in MsgT /\ r.from = n /\ r.to = m.from /\ r.entries = << >>
    BY <1>2, Zenon DEF MsgT
  <2> HIDE DEF r
  <2>2. MsgOK(M, r)
    BY <1>1, <2>1, PlainMsgOK, Zenon
  <2> QED
    BY <2>2, Zenon DEF r
<1>5. /\ v \in NodeT(n) /\ v.log = s.log /\ v.state = s.state /\ v.granted = s.granted
      /\ v.term = s.term
  BY <1>1, Zenon DEF NodeT
<1> HIDE DEF v
<1>6. HandlerOK(M, n, s, Out(v, {answer}))
  BY <1>3, <1>5, HandlerSame, Zenon DEF NodeOK
<1>7. HandlerOK(M, n, s, Out(s, {[answer EXCEPT !.reject = TRUE]}))
  BY <1>1, <1>4, HandlerSame, Zenon DEF NodeOK
<1> QED
  BY <1>6, <1>7, Zenon DEF handle_request_vote, answer, v

\* A node that counted a quorum appends an entry of its own term.
LEMMA BecomeLeaderOK ==
  ASSUME NEW M, M \subseteq MsgT, NEW n \in Node, NEW s, NodeOK(M, n, s), s.state = "Candidate",
         Elected(M, n, s.term)
  PROVE  HandlerOK(M, n, s, become_leader(s))
<1> DEFINE last == last_index(s.log)
           noop == <<Entry(s.term, last + 1, s.id)>>
           pr == [p \in Peers(s) |-> [match |-> 0, next |-> last + 1]]
           l == append(s.log, noop)
           t == [s EXCEPT !.state = "Leader", !.lead = s.id, !.prs = pr, !.log = l]
<1>1. /\ s \in NodeT(n) /\ s.log \in LogT /\ FromOne(s.log.entries) /\ AllElected(M, s.log.entries)
      /\ s.term \in Nat /\ s.id = n
  BY Zenon DEF NodeOK, NodeT
<1>2. last \in Nat /\ Peers(s) = Node \ {n}
  BY <1>1, LogFacts, QuorumIsMajority, Zenon
<1>3. CASE AppendPanics(s.log, noop)
  BY <1>1, <1>3, PanicOK, Zenon DEF become_leader
<1>4. CASE ~AppendPanics(s.log, noop)
  <2>1. noop \in Entries /\ AllElected(M, noop) /\ (s.log.entries = << >> => FromOne(noop))
    <3>1. Entry(s.term, last + 1, s.id) \in EntryT
      BY <1>1, <1>2 DEF Entry, EntryT
    <3>2. s.log.entries = << >> => last + 1 = 1
      BY <1>1, LogFacts
    <3> QED
      BY <1>1, <3>1, <3>2 DEF Entries, AllElected, FromOne, Entry
  <2>2. /\ l \in LogT /\ FromOne(l.entries) /\ AllElected(M, l.entries) /\ KeepsCommitted(s.log, l)
        /\ l.entries # << >> /\ Len(l.entries) <= last_index(l)
    BY <1>1, <1>4, <2>1, AppendFacts, AppendOne, Zenon
  <2>3. pr \in ProgressT(n)
    BY <1>2 DEF ProgressT
  <2> HIDE DEF l, pr
  <2>4. t \in NodeT(n) /\ t.state = "Leader" /\ t.log = l /\ t.term = s.term
    BY <1>1, <2>2, <2>3, Zenon DEF NodeT
  <2> HIDE DEF t
  <2>5. NodeOK(M, n, t)
    BY <2>2, <2>4, Zenon DEF NodeOK
  <2>6. become_leader(s) = bcast_append(t)
    BY <1>4, Zenon DEF become_leader, t, l, pr
  <2> QED
    BY <2>2, <2>4, <2>5, <2>6, BcastAppendOK DEF HandlerOK
<1> QED
  BY <1>3, <1>4, Zenon

\* handle_request_vote_response makes a leader only of a node with a quorum.
LEMMA VoteResponseOK ==
  ASSUME NEW M, M \subseteq MsgT, NEW n \in Node, NEW s, NodeOK(M, n, s), s.state = "Candidate",
         NEW m \in M, MsgOK(M, m), m.to = n, m.type = "RequestVoteResponse"
  PROVE  HandlerOK(M, n, s, handle_request_vote_response(s, m))
<1> DEFINE c == [s EXCEPT !.granted = IF m.reject THEN @ \ {m.from} ELSE @ \cup {m.from},
                          !.rejected = IF m.reject THEN @ \cup {m.from} ELSE @ \ {m.from}]
           f == become_follower(c, c.term, NONE)
<1>1. s \in NodeT(n) /\ m.from \in Node /\ m.reject \in BOOLEAN
  BY Zenon DEF NodeOK, MsgOK, MsgT
<1>2. CASE m.term # s.term
  BY <1>1, <1>2, HandlerSame, Zenon DEF handle_request_vote_response, NodeOK
<1>3. CASE m.term = s.term
  <2>1. /\ c \in NodeT(n) /\ c.log = s.log /\ c.state = "Candidate" /\ c.term = s.term
        /\ c.granted \subseteq s.granted \cup (IF m.reject THEN {} ELSE {m.from})
    BY <1>1, Zenon DEF NodeT
  <2>2. ~m.reject => m.from \in VotersIn(M, n, s.term)
    BY <1>3, Zenon DEF VotersIn
  <2>3. c.granted \subseteq VotersIn(M, n, c.term)
    BY <2>1, <2>2, Zenon DEF NodeOK
  <2> HIDE DEF c
  <2>4. NodeOK(M, n, c) /\ HandlerOK(M, n, s, Out(c, {}))
    BY <2>1, <2>3, SameEntries, HandlerSame, Zenon
  <2>5. Cardinality(c.granted) >= quorum(s) => HandlerOK(M, n, s, become_leader(c))
    <3>1. quorum(s) = quorum(c)
      BY <1>1, <2>1, QuorumIsMajority, Zenon DEF quorum
    <3>2. Cardinality(c.granted) >= quorum(s) => Elected(M, n, c.term)
      BY <2>1, <2>3, <3>1, CountedIsElected, Zenon
    <3>3. Cardinality(c.granted) >= quorum(s) => HandlerOK(M, n, c, become_leader(c))
      BY <2>1, <2>4, <3>2, BecomeLeaderOK, Zenon
    <3> QED
      BY <2>1, <3>3, Zenon DEF HandlerOK
  <2>6. f \in NodeT(n) /\ f.log = s.log /\ f.state = "Follower"
    BY <2>1, Zenon DEF become_follower, NodeT
  <2> HIDE DEF f
  <2>7. HandlerOK(M, n, s, Out(f, {}))
    BY <2>6, HandlerSame, Zenon
  <2> QED
    BY <1>3, <2>4, <2>5, <2>7, Zenon DEF handle_request_vote_response, c, f
<1> QED
  BY <1>2, <1>3, Zenon

\* Moving the commit index leaves the entries alone.
LEMMA CommitToFacts ==
  ASSUME NEW l \in LogT, FromOne(l.entries), NEW c \in Nat
  PROVE  CommitTo(l, c) \in LogT /\ CommitTo(l, c).entries = l.entries
<1>1. last_index(l) \in Nat
  BY LogFacts, Zenon
<1> QED
  BY <1>1, Zenon DEF CommitTo, LogT

\* A follower takes the entries, behind a position where its log agrees, or panics.
LEMMA AppendEntriesOK ==
  ASSUME NEW M, M \subseteq MsgT, NEW n \in Node, NEW s, NodeOK(M, n, s), s.state = "Follower",
         NEW m, MsgOK(M, m), m.to = n
  PROVE  HandlerOK(M, n, s, handle_append_entries(s, m))
<1> DEFINE f == [s EXCEPT !.lead = m.from]
           last == last_index(s.log)
           a == append(s.log, m.entries)
           l == CommitTo(a, m.commit)
           answer(i) == Message("AppendResponse", s, m.from, i)
           rejection(i) == [answer(i) EXCEPT !.reject = TRUE]
           t == [f EXCEPT !.log = l]
<1>1. /\ s \in NodeT(n) /\ s.log \in LogT /\ FromOne(s.log.entries) /\ AllElected(M, s.log.entries)
      /\ m.from \in Node \ {n} /\ m.index \in Nat /\ m.commit \in Nat /\ m.entries \in Entries
  BY Zenon DEF NodeOK, NodeT, MsgOK, MsgT
<1>2. last \in Nat
  BY <1>1, LogFacts, Zenon
<1>3. \A i \in Nat : MsgOK(M, answer(i)) /\ MsgOK(M, rejection(i))
  <2> TAKE i \in Nat
  <2>1. /\ answer(i) \in MsgT /\ answer(i).from = n /\ answer(i).to = m.from
        /\ answer(i).entries = << >>
    BY <1>1, MessageType
  <2> HIDE DEF answer
  <2>2. /\ rejection(i) \in MsgT /\ rejection(i).from = n /\ rejection(i).to = m.from
        /\ rejection(i).entries = << >>
    BY <2>1, Zenon DEF MsgT
  <2> QED
    BY <1>1, <2>1, <2>2, PlainMsgOK, Zenon
<1> HIDE DEF answer, rejection
<1>4. f \in NodeT(n) /\ f.log = s.log /\ f.state = "Follower" /\ f.term = s.term
  BY <1>1, Zenon DEF NodeT
<1>5. \A i \in Nat : HandlerOK(M, n, s, Out(s, {rejection(i)})) /\ HandlerOK(M, n, s, Out(f, {rejection(i)}))
  <2> HIDE DEF f
  <2> QED
    BY <1>1, <1>3, <1>4, HandlerSame, Zenon
<1>6. HandlerOK(M, n, s, Out(f, {}))
  <2> HIDE DEF f
  <2> QED
    BY <1>4, HandlerSame, Zenon
<1>7. ASSUME m.index <= last, ~AppendPanics(s.log, m.entries)
      PROVE  HandlerOK(M, n, s, Out(t, {answer(last_index(l))}))
  <2>1. s.log.entries = << >> => FromOne(m.entries)
    BY <1>1, <1>2, <1>7, LogFacts DEF MsgOK
  <2>2. a \in LogT /\ FromOne(a.entries) /\ AllElected(M, a.entries) /\ KeepsCommitted(s.log, a)
    BY <1>1, <1>7, <2>1, AppendFacts, Zenon DEF MsgOK
  <2> HIDE DEF a
  <2>3. l \in LogT /\ l.entries = a.entries
    BY <1>1, <2>2, CommitToFacts, Zenon
  <2> HIDE DEF l
  <2>4. last_index(l) \in Nat
    BY <2>2, <2>3, LogFacts, Zenon
  <2>5. t \in NodeT(n) /\ t.log = l /\ t.state = "Follower"
    BY <1>4, <2>3, Zenon DEF NodeT
  <2> HIDE DEF t, f
  <2>6. NodeOK(M, n, t) /\ KeepsCommitted(s.log, t.log)
    BY <2>2, <2>3, <2>5, Zenon DEF NodeOK, KeepsCommitted
  <2> QED
    BY <1>3, <2>4, <2>5, <2>6, Zenon DEF HandlerOK, Out
<1>8. HandlerOK(M, n, s, Panic(s))
  BY <1>1, PanicOK, Zenon
<1>9. m.index > 0 => m.index - 1 \in Nat
  BY <1>1
<1>10. handle_append_entries(s, m) =
         IF m.term < s.term THEN Out(s, {rejection(0)})
         ELSE IF m.index > last THEN Out(f, {rejection(last)})
         ELSE IF term_sync(s.log, m.index) = {} THEN Out(f, {})
         ELSE IF m.index > 0 /\ term_sync(s.log, m.index) # {m.log_term}
              THEN Out(f, {rejection(m.index - 1)})
         ELSE IF AppendPanics(s.log, m.entries) THEN Panic(s)
         ELSE Out(t, {answer(last_index(l))})
  BY Zenon DEF handle_append_entries, answer, rejection
<1> HIDE DEF f, t, l, last
<1>11. ~(m.index > last) => m.index <= last
  BY <1>1, <1>2
<1>12. 0 \in Nat
  BY Zenon
<1> QED
  BY <1>2, <1>5, <1>6, <1>7, <1>8, <1>9, <1>10, <1>11, <1>12, Zenon

\* handle_heartbeat keeps its promise.
LEMMA HeartbeatOK ==
  ASSUME NEW M, NEW n \in Node, NEW s, NodeOK(M, n, s), s.state = "Follower",
         NEW m, MsgOK(M, m), m.to = n
  PROVE  HandlerOK(M, n, s, handle_heartbeat(s, m))
<1> DEFINE l == CommitTo(s.log, m.commit)
           t == [s EXCEPT !.lead = m.from, !.log = l]
           answer == Message("HeartbeatResponse", s, m.from, 0)
<1>1. /\ s \in NodeT(n) /\ s.log \in LogT /\ FromOne(s.log.entries)
      /\ m.from \in Node \ {n} /\ m.commit \in Nat /\ 0 \in Nat
  BY Zenon DEF NodeOK, NodeT, MsgOK, MsgT
<1>2. l \in LogT /\ l.entries = s.log.entries
  BY <1>1, CommitToFacts, Zenon
<1> HIDE DEF l
<1>3. t \in NodeT(n) /\ t.log = l /\ t.state = "Follower"
  BY <1>1, <1>2, Zenon DEF NodeT
<1>4. answer \in MsgT /\ answer.from = n /\ answer.to = m.from /\ answer.entries = << >>
  BY <1>1, MessageType
<1> HIDE DEF answer, t
<1>5. MsgOK(M, answer)
  BY <1>1, <1>4, PlainMsgOK, Zenon
<1>6. HandlerOK(M, n, s, Out(t, {answer})) /\ HandlerOK(M, n, s, Out(s, {}))
  BY <1>1, <1>2, <1>3, <1>5, HandlerSame, Zenon
<1> QED
  BY <1>6, Zenon DEF handle_heartbeat, t, l, answer

\* A leader moves its commit index and its progress, never its entries.
LEMMA MaybeCommitFacts ==
  ASSUME NEW n \in Node, NEW s \in NodeT(n)
  PROVE  LET t == maybe_commit(s)
         IN  /\ t \in NodeT(n) /\ t.log.entries = s.log.entries /\ t.state = s.state
             /\ t.term = s.term /\ t.prs = s.prs /\ t.granted = s.granted
<1> DEFINE t == [s EXCEPT !.log.committed = CommitIndex(s)]
<1>1. CASE Cardinality(Peers(s)) >= quorum(s)
  <2>1. Peers(s) = Node \ {n} /\ IsFiniteSet(Peers(s)) /\ quorum(s) \in Nat \ {0}
    BY QuorumIsMajority, Zenon
  <2>2. Peers(s) # {}
    <3>1. Cardinality(Peers(s)) # 0
      BY <1>1, <2>1
    <3> QED
      BY <3>1, FS_EmptySet, Zenon
  <2>3. s.prs \in [Peers(s) -> [match : Nat, next : Int]]
    BY <2>1, Zenon DEF NodeT, ProgressT
  <2>4. CommitIndex(s) \in Nat
    BY <1>1, <2>1, <2>2, <2>3, CommitIndexIsMatch, Zenon
  <2>5. /\ t \in NodeT(n) /\ t.log.entries = s.log.entries /\ t.state = s.state
        /\ t.term = s.term /\ t.prs = s.prs /\ t.granted = s.granted
    BY <2>4, Zenon DEF NodeT, LogT
  <2> QED
    BY <2>5, Zenon DEF maybe_commit
<1>2. CASE ~(Cardinality(Peers(s)) >= quorum(s))
  BY <1>2, Zenon DEF maybe_commit
<1> QED
  BY <1>1, <1>2, Zenon

\* handle_append_response keeps its promise.
LEMMA AppendResponseOK ==
  ASSUME NEW M, NEW n \in Node, NEW s, NodeOK(M, n, s), s.state = "Leader",
         NEW m, MsgOK(M, m), m.to = n
  PROVE  HandlerOK(M, n, s, handle_append_response(s, m))
<1> DEFINE r == [s EXCEPT !.prs[m.from] = decrease_next(@, m.index)]
           u == [s EXCEPT !.prs[m.from] = update_match(@, m.index)]
           a == maybe_commit(u)
<1>1. s \in NodeT(n) /\ m.from \in Node \ {n} /\ m.index \in Nat
  BY Zenon DEF NodeOK, MsgOK, MsgT
<1>2. s.prs \in ProgressT(n) /\ s.prs[m.from] \in [match : Nat, next : Int]
  BY <1>1, Zenon DEF NodeT, ProgressT
<1>3. /\ decrease_next(s.prs[m.from], m.index) \in [match : Nat, next : Int]
      /\ update_match(s.prs[m.from], m.index) \in [match : Nat, next : Int]
  BY <1>1, <1>2 DEF decrease_next, update_match
<1>4. /\ r \in NodeT(n) /\ r.log = s.log /\ r.state = "Leader" /\ r.term = s.term
      /\ u \in NodeT(n) /\ u.log = s.log /\ u.state = "Leader" /\ u.term = s.term
  BY <1>1, <1>2, <1>3, Zenon DEF NodeT, ProgressT
<1> HIDE DEF r, u
<1>5. a \in NodeT(n) /\ a.log.entries = s.log.entries /\ a.state = "Leader" /\ a.term = s.term
  BY <1>4, MaybeCommitFacts
<1> HIDE DEF a
<1>6. /\ NodeOK(M, n, r) /\ KeepsCommitted(s.log, r.log) /\ Extends(s.log, r.log)
      /\ NodeOK(M, n, a) /\ KeepsCommitted(s.log, a.log) /\ Extends(s.log, a.log)
  BY <1>4, <1>5, SameEntries, Zenon
<1>7. HandlerOK(M, n, s, SendTo(r, m.from)) /\ HandlerOK(M, n, s, SendTo(a, m.from))
  BY <1>1, <1>6, SendToOK DEF HandlerOK
<1>8. HandlerOK(M, n, s, Out(a, {})) /\ HandlerOK(M, n, s, Out(s, {}))
  BY <1>1, <1>5, HandlerSame, Zenon
<1> QED
  BY <1>7, <1>8, Zenon DEF handle_append_response, r, u, a

\* handle_heartbeat_response keeps its promise.
LEMMA HeartbeatResponseOK ==
  ASSUME NEW M, NEW n \in Node, NEW s, NodeOK(M, n, s), s.state = "Leader",
         NEW m, MsgOK(M, m), m.to = n
  PROVE  HandlerOK(M, n, s, handle_heartbeat_response(s, m))
<1>1. s \in NodeT(n) /\ m.from \in Node \ {n}
  BY Zenon DEF NodeOK, MsgOK, MsgT
<1>2. KeepsCommitted(s.log, s.log) /\ Extends(s.log, s.log)
  BY Zenon DEF KeepsCommitted, Extends
<1>3. HandlerOK(M, n, s, SendTo(s, m.from))
  BY <1>1, <1>2, SendToOK DEF HandlerOK
<1>4. HandlerOK(M, n, s, Out(s, {}))
  BY <1>1, HandlerSame, Zenon
<1> QED
  BY <1>3, <1>4, Zenon DEF handle_heartbeat_response
-----------------------------------------------------------------------------
(* step. *)

\* become_follower keeps the log.
LEMMA BecomeFollowerFacts ==
  ASSUME NEW M, NEW n \in Node, NEW s, NodeOK(M, n, s), NEW term \in Nat, NEW lead \in Node \cup {NONE}
  PROVE  /\ NodeOK(M, n, become_follower(s, term, lead))
         /\ become_follower(s, term, lead).log = s.log
         /\ become_follower(s, term, lead).state = "Follower"
<1> DEFINE f == become_follower(s, term, lead)
<1>1. f \in NodeT(n) /\ f.log = s.log /\ f.state = "Follower"
  BY Zenon DEF NodeOK, NodeT, become_follower
<1> HIDE DEF f
<1>2. NodeOK(M, n, f)
  BY <1>1, SameEntries, Zenon
<1> QED
  BY <1>1, <1>2, Zenon DEF f

\* A follower does not become a leader by a message.
LEMMA FollowerStays ==
  ASSUME NEW n \in Node, NEW s \in NodeT(n), s.state = "Follower", NEW m
  PROVE  step_follower(s, m).s.state # "Leader"
BY Zenon DEF step_follower, handle_append_entries, handle_heartbeat, handle_request_vote, Out, Panic, NodeT

\* step, in every state of the node and for every message, keeps its
\* promise.
LEMMA StepOK ==
  ASSUME NEW M, M \subseteq MsgT, NEW n \in Node, NEW s, NodeOK(M, n, s), s.state # "Panicked",
         NEW m \in M, MsgOK(M, m), m.to = n
  PROVE  HandlerOK(M, n, s, step(s, m))
<1> DEFINE t == Catchup(s, m)
<1>1. s \in NodeT(n) /\ m.from \in Node /\ m.term \in Nat /\ s.term \in Nat
  BY Zenon DEF NodeOK, NodeT, MsgOK, MsgT
<1>2. /\ NodeOK(M, n, t) /\ t.log = s.log /\ t.state \in {"Follower", "Candidate", "Leader"}
      /\ t = s \/ t.state = "Follower"
  <2>1. CASE m.term <= s.term
    BY <1>1, <2>1, Zenon DEF Catchup, NodeT
  <2>2. CASE ~(m.term <= s.term)
    BY <1>1, <2>2, BecomeFollowerFacts DEF Catchup
  <2> QED
    BY <2>1, <2>2, Zenon
<1> HIDE DEF t
<1>3. t \in NodeT(n)
  BY <1>2, Zenon DEF NodeOK
<1>4. HandlerOK(M, n, t, Out(t, {}))
  BY <1>2, <1>3, HandlerSame, Zenon DEF NodeOK
<1>5. HandlerOK(M, n, t, handle_request_vote(t, m))
  BY <1>2, RequestVoteOK, Zenon
<1>6. CASE t.state = "Follower"
  <2>1. HandlerOK(M, n, t, step_follower(t, m))
    BY <1>2, <1>4, <1>5, <1>6, AppendEntriesOK, HeartbeatOK, Zenon DEF step_follower
  <2>2. step_follower(t, m).s.state # "Leader"
    BY <1>3, <1>6, FollowerStays, Zenon
  <2>3. step(s, m) = step_follower(t, m)
    BY <1>6, Zenon DEF step, t
  <2> QED
    BY <1>2, <2>1, <2>2, <2>3, Zenon DEF HandlerOK
<1>7. CASE t.state = "Candidate"
  <2> DEFINE f == become_follower(t, m.term, m.from)
  <2>1. NodeOK(M, n, f) /\ f.log = t.log /\ f.state = "Follower"
    <3> DEFINE term == m.term
               from == m.from
    <3>1. term \in Nat /\ from \in Node \cup {NONE}
      BY <1>1, Zenon
    <3> HIDE DEF term, from
    <3>2. /\ NodeOK(M, n, become_follower(t, term, from))
          /\ become_follower(t, term, from).log = t.log
          /\ become_follower(t, term, from).state = "Follower"
      BY <1>2, <3>1, BecomeFollowerFacts
    <3> QED
      BY <3>2, Zenon DEF term, from
  <2> HIDE DEF f
  <2>2. HandlerOK(M, n, f, handle_append_entries(f, m)) /\ HandlerOK(M, n, f, handle_heartbeat(f, m))
    BY <2>1, AppendEntriesOK, HeartbeatOK, Zenon
  <2>3. HandlerOK(M, n, t, handle_append_entries(f, m)) /\ HandlerOK(M, n, t, handle_heartbeat(f, m))
    BY <1>7, <2>1, <2>2, Zenon DEF HandlerOK
  <2>4. m.type = "RequestVoteResponse" => HandlerOK(M, n, t, handle_request_vote_response(t, m))
    BY <1>2, <1>7, VoteResponseOK, Zenon
  <2>5. HandlerOK(M, n, t, step_candidate(t, m))
    BY <1>4, <1>5, <2>3, <2>4, Zenon DEF step_candidate, f
  <2>6. step(s, m) = step_candidate(t, m) /\ t = s
    BY <1>2, <1>7, Zenon DEF step, t
  <2> QED
    BY <2>5, <2>6, Zenon
<1>8. CASE t.state = "Leader"
  <2>1. HandlerOK(M, n, t, step_leader(t, m))
    BY <1>2, <1>4, <1>5, <1>8, AppendResponseOK, HeartbeatResponseOK, Zenon DEF step_leader
  <2>2. step(s, m) = step_leader(t, m) /\ t = s
    BY <1>2, <1>8, Zenon DEF step, t
  <2> QED
    BY <2>1, <2>2, Zenon
<1> QED
  BY <1>2, <1>6, <1>7, <1>8, Zenon

-----------------------------------------------------------------------------
(* Timers and proposals. *)

\* campaign keeps its promise.
LEMMA CampaignOK ==
  ASSUME NEW M, M \subseteq MsgT, NEW n \in Node, NEW s, NodeOK(M, n, s),
         s.state \in {"Follower", "Candidate"}
  PROVE  HandlerOK(M, n, s, campaign(s))
<1> DEFINE c == become_candidate(s)
           last == last_index(s.log)
           request(to, t) == [Message("RequestVote", c, to, last) EXCEPT !.log_term = t]
<1>1. s \in NodeT(n) /\ s.log \in LogT /\ FromOne(s.log.entries) /\ s.id = n
  BY Zenon DEF NodeOK, NodeT
<1>2. last \in Nat /\ term_sync(s.log, last) \subseteq Nat /\ Peers(s) = Node \ {n}
  BY <1>1, LogFacts, TermFacts, QuorumIsMajority, Zenon
<1>3. c \in NodeT(n) /\ c.log = s.log /\ c.state = "Candidate" /\ c.granted = {n} /\ c.prs = s.prs
  <2>1. s.term + 1 \in Nat /\ {n} \in SUBSET Node /\ {} \in SUBSET Node /\ s.prs \in ProgressT(n)
    BY <1>1 DEF NodeT
  <2> QED
    BY <1>1, <2>1, Zenon DEF become_candidate, NodeT
<1> HIDE DEF c
<1>4. c.granted \subseteq VotersIn(M, n, c.term)
  BY <1>3, Zenon DEF VotersIn
<1>5. NodeOK(M, n, c)
  BY <1>3, <1>4, SameEntries, Zenon
<1>6. CASE quorum(s) = 1
  <2>1. Cardinality(c.granted) >= quorum(c)
    <3>1. quorum(c) = 1
      BY <1>3, <1>6, Zenon DEF quorum, Peers
    <3>2. Cardinality(c.granted) = 1
      BY <1>3, FS_Singleton, Zenon
    <3> QED
      BY <3>1, <3>2
  <2>2. Elected(M, n, c.term)
    BY <1>3, <1>4, <2>1, CountedIsElected, Zenon
  <2>3. HandlerOK(M, n, c, become_leader(c))
    BY <1>3, <1>5, <2>2, BecomeLeaderOK, Zenon
  <2>4. HandlerOK(M, n, s, become_leader(c))
    BY <1>3, <2>3, Zenon DEF HandlerOK
  <2> QED
    BY <1>6, <2>4 DEF campaign, c
<1>7. CASE quorum(s) # 1
  <2>1. ASSUME NEW to \in Peers(s), NEW t \in term_sync(s.log, last)
        PROVE  MsgOK(M, request(to, t))
    <3> DEFINE p == Message("RequestVote", c, to, last)
               q == [p EXCEPT !.log_term = t]
    <3>1. p \in MsgT /\ p.from = n /\ p.to = to /\ p.entries = << >>
      BY <1>2, <1>3, MessageType
    <3> HIDE DEF p
    <3>2. q \in MsgT /\ q.from = n /\ q.to = to /\ q.entries = << >>
      BY <1>2, <3>1, Zenon DEF MsgT
    <3> HIDE DEF q
    <3>3. MsgOK(M, q)
      BY <1>2, <3>2, PlainMsgOK, Zenon
    <3> QED
      BY <3>3, Zenon DEF q, p
  <2> DEFINE out == {request(to, t) : to \in Peers(s), t \in term_sync(s.log, last)}
  <2>2. \A x \in out : MsgOK(M, x)
    BY <2>1
  <2>3. campaign(s) = Out(c, out)
    BY <1>7 DEF campaign, c
  <2> HIDE DEF out
  <2> QED
    BY <1>3, <1>4, <2>2, <2>3, HandlerSame, Zenon
<1> QED
  BY <1>6, <1>7, Zenon

\* bcast_heartbeat sends messages without entries.
LEMMA BcastHeartbeatOK ==
  ASSUME NEW M, NEW n \in Node, NEW s, NodeOK(M, n, s)
  PROVE  HandlerOK(M, n, s, bcast_heartbeat(s))
<1> DEFINE beat(to) == [Message("Heartbeat", s, to, 0) EXCEPT !.commit = s.log.committed]
           out == {beat(to) : to \in Peers(s)}
<1>1. s \in NodeT(n) /\ s.log.committed \in Nat /\ 0 \in Nat
  BY Zenon DEF NodeOK, NodeT, LogT
<1>2. Peers(s) = Node \ {n}
  BY <1>1, QuorumIsMajority, Zenon
<1>3. ASSUME NEW to \in Peers(s)
      PROVE  MsgOK(M, beat(to))
  <2> DEFINE p == Message("Heartbeat", s, to, 0)
             q == [p EXCEPT !.commit = s.log.committed]
  <2>1. p \in MsgT /\ p.from = n /\ p.to = to /\ p.entries = << >>
    BY <1>1, <1>2, MessageType
  <2> HIDE DEF p
  <2>2. q \in MsgT /\ q.from = n /\ q.to = to /\ q.entries = << >>
    BY <1>1, <2>1, Zenon DEF MsgT
  <2> HIDE DEF q
  <2>3. MsgOK(M, q)
    BY <1>2, <2>2, PlainMsgOK, Zenon
  <2> QED
    BY <2>3, Zenon DEF q, p
<1>4. \A x \in out : MsgOK(M, x)
  BY <1>3, Zenon
<1>5. bcast_heartbeat(s) = Out(s, out)
  BY Zenon DEF bcast_heartbeat
<1> HIDE DEF out
<1> QED
  BY <1>1, <1>4, <1>5, HandlerSame, Zenon DEF NodeOK

\* A proposal extends the log of the leader by one entry of its term.
LEMMA ProposeOK ==
  ASSUME NEW M, NEW n \in Node, NEW s, NodeOK(M, n, s), s.state = "Leader"
  PROVE  LET es == <<Entry(s.term, last_index(s.log) + 1, n)>>
         IN  HandlerOK(M, n, s, IF AppendPanics(s.log, es) THEN Panic(s)
                                ELSE bcast_append(maybe_commit([s EXCEPT !.log = append(@, es)])))
<1> DEFINE es == <<Entry(s.term, last_index(s.log) + 1, n)>>
           l == append(s.log, es)
           u == [s EXCEPT !.log = l]
           t == maybe_commit(u)
<1>1. /\ s \in NodeT(n) /\ s.log \in LogT /\ FromOne(s.log.entries) /\ AllElected(M, s.log.entries)
      /\ s.term \in Nat /\ Elected(M, n, s.term)
      /\ s.log.entries # << >> /\ Len(s.log.entries) <= last_index(s.log)
  BY Zenon DEF NodeOK, NodeT
<1>2. CASE AppendPanics(s.log, es)
  BY <1>1, <1>2, PanicOK, Zenon
<1>3. CASE ~AppendPanics(s.log, es)
  <2>1. es \in Entries /\ AllElected(M, es)
    <3>1. Entry(s.term, last_index(s.log) + 1, n) \in EntryT
      BY <1>1, LogFacts DEF Entry, EntryT
    <3> QED
      BY <1>1, <3>1 DEF Entries, AllElected, Entry
  <2>2. /\ l \in LogT /\ FromOne(l.entries) /\ AllElected(M, l.entries) /\ KeepsCommitted(s.log, l)
    BY <1>1, <1>3, <2>1, AppendFacts, Zenon
  <2>3. /\ l.entries # << >> /\ Len(l.entries) <= last_index(l) /\ Extends(s.log, l)
    BY <1>1, AppendOne, Zenon
  <2> HIDE DEF l
  <2>4. u \in NodeT(n) /\ u.log = l /\ u.state = "Leader" /\ u.term = s.term
    BY <1>1, <2>2, Zenon DEF NodeT
  <2> HIDE DEF u
  <2>5. NodeOK(M, n, u)
    BY <1>1, <2>2, <2>3, <2>4, Zenon DEF NodeOK
  <2>6. t \in NodeT(n) /\ t.log.entries = l.entries /\ t.state = "Leader" /\ t.term = s.term
    BY <2>4, MaybeCommitFacts, Zenon
  <2> HIDE DEF t
  <2>7. NodeOK(M, n, t) /\ KeepsCommitted(s.log, t.log) /\ Extends(s.log, t.log)
    <3>1. NodeOK(M, n, t)
      BY <2>4, <2>5, <2>6, SameEntries, Zenon
    <3> QED
      BY <2>2, <2>3, <2>6, <3>1, Zenon DEF KeepsCommitted, Extends
  <2>8. HandlerOK(M, n, s, bcast_append(t))
    BY <2>7, BcastAppendOK, Zenon DEF HandlerOK
  <2> QED
    BY <1>3, <2>8, Zenon DEF t, u, l
<1> QED
  BY <1>2, <1>3, Zenon

-----------------------------------------------------------------------------
(* The system. *)

\* More messages make nothing wrong.
LEMMA MoreMessages ==
  ASSUME NEW M, NEW K, M \subseteq K, K \subseteq MsgT
  PROVE  /\ \A n \in Node : \A s : NodeOK(M, n, s) => NodeOK(K, n, s)
         /\ \A m : MsgOK(M, m) => MsgOK(K, m)
         /\ \A d : StoredOK(M, d) => StoredOK(K, d)
<1>1. ASSUME NEW es \in Entries, AllElected(M, es)
      PROVE  AllElected(K, es)
  <2> SUFFICES ASSUME NEW i \in DOMAIN es
               PROVE  Elected(K, es[i].data, es[i].term)
    BY Zenon DEF AllElected
  <2>1. es[i] \in EntryT
    BY DEF Entries
  <2>2. es[i].data \in Node
    BY <2>1, Zenon DEF EntryT
  <2>3. Elected(M, es[i].data, es[i].term)
    BY <1>1, Zenon DEF AllElected
  <2> QED
    BY <2>2, <2>3, ElectedStays, Zenon
<1>2. ASSUME NEW n \in Node, NEW s, NodeOK(M, n, s)
      PROVE  NodeOK(K, n, s)
  <2>1. s.log.entries \in Entries
    BY <1>2, Zenon DEF NodeOK, NodeT, LogT
  <2>2. AllElected(K, s.log.entries)
    BY <1>1, <1>2, <2>1, Zenon DEF NodeOK
  <2>3. VotersIn(M, n, s.term) \subseteq VotersIn(K, n, s.term)
    BY Zenon DEF VotersIn
  <2>4. s.state = "Leader" => Elected(K, n, s.term)
    BY <1>2, ElectedStays, Zenon DEF NodeOK
  <2> QED
    BY <1>2, <2>2, <2>3, <2>4, Zenon DEF NodeOK
<1>3. ASSUME NEW m, MsgOK(M, m)
      PROVE  MsgOK(K, m)
  <2>1. m.entries \in Entries
    BY <1>3, Zenon DEF MsgOK, MsgT
  <2> QED
    BY <1>1, <1>3, <2>1, Zenon DEF MsgOK
<1>4. ASSUME NEW d, StoredOK(M, d)
      PROVE  StoredOK(K, d)
  <2> SUFFICES ASSUME NEW i \in DOMAIN d.log
               PROVE  Elected(K, d.log[i].data, d.log[i].term)
    BY <1>4, Zenon DEF StoredOK
  <2>1. d.log[i].data \in Node /\ Elected(M, d.log[i].data, d.log[i].term)
    BY <1>4, Zenon DEF StoredOK, EntryT
  <2> QED
    BY <2>1, ElectedStays, Zenon
<1> QED
  BY <1>2, <1>3, <1>4, Zenon

\* Among entries with the same index there is a last one.
LEMMA LastWithFacts ==
  ASSUME NEW es \in Entries, NEW i, \E p \in DOMAIN es : es[p].index = i
  PROVE  LastWith(es, i) \in DOMAIN es /\ es[LastWith(es, i)].index = i
<1> DEFINE P == {p \in DOMAIN es : es[p].index = i}
           S == {Len(es) - p : p \in P}
<1>1. Len(es) \in Nat /\ DOMAIN es = 1..Len(es)
  BY DEF Entries
<1>2. S \in SUBSET Nat /\ S # {}
  BY <1>1
<1>3. PICK k \in S : \A m \in S : k <= m
  <2> HIDE DEF S
  <2> QED
    BY <1>2, Smallest, Zenon
<1>4. PICK p \in P : k = Len(es) - p
  BY <1>3, Zenon
<1>5. \A q \in P : Len(es) - p <= Len(es) - q
  BY <1>3, <1>4, Zenon
<1>6. \A q \in P : q <= p
  BY <1>1, <1>5
<1>7. \E p2 \in DOMAIN es : es[p2].index = i /\ \A q \in DOMAIN es : es[q].index = i => q <= p2
  BY <1>6, Zenon
<1> HIDE DEF P, S
<1> QED
  BY <1>7, Zenon DEF LastWith

\* What a Ready hands out is a part of the log: all of it as long as nothing is
\* stored.
LEMMA UnstableFacts ==
  ASSUME NEW n \in Node, NEW l \in LogT, FromOne(l.entries), StoredOK(msgs, stored[n]),
         ~UnstablePanics(Stabled(n, l)),
         NEW es, es = unstable_entries(Stabled(n, l))
  PROVE  /\ es \in Entries
         /\ \A p \in DOMAIN es : \E j \in DOMAIN l.entries : es[p] = l.entries[j]
         /\ stored[n].last = 0 => es = l.entries
<1> DEFINE k == Stabled(n, l)
           L == stored[n].last
<1>1. k.entries = l.entries /\ k.stabled = L /\ L \in Nat
  BY Zenon DEF Stabled, LogT, StoredOK
<1> HIDE DEF k
<1>2. l.entries \in Seq(EntryT) /\ Len(l.entries) \in Nat /\ l.stabled = 0
  BY LogFacts, Zenon
<1>3. ASSUME l.entries # << >> PROVE Offset(k, k.stabled) = L
  <2>1. first_index(k) = 1
    BY <1>1, <1>3, Zenon DEF first_index, FromOne
  <2> HIDE DEF L
  <2> QED
    BY <1>1, <2>1 DEF Offset
<1>4. ASSUME l.entries = << >> PROVE Offset(k, k.stabled) = 0
  <2>1. first_index(k) = L + 1
    BY <1>1, <1>4, Zenon DEF first_index
  <2> HIDE DEF L
  <2> QED
    BY <1>1, <2>1 DEF Offset
<1> DEFINE a == Offset(k, k.stabled) + 1
<1>5. a \in Nat \ {0} /\ (L = 0 => a = 1)
  <2> HIDE DEF L
  <2> QED
    BY <1>1, <1>3, <1>4
<1>6. es = SubSeq(l.entries, a, Len(l.entries))
  BY <1>1, Zenon DEF unstable_entries, k
<1> HIDE DEF a
<1>7. /\ es \in Seq(EntryT) /\ DOMAIN es = 1..Len(es)
      /\ \A i \in DOMAIN es : a - 1 + i \in DOMAIN l.entries /\ es[i] = l.entries[a - 1 + i]
  BY <1>2, <1>5, <1>6, SubSeqFacts
<1>8. L = 0 => es = l.entries
  BY <1>2, <1>5, <1>6
<1> QED
  BY <1>7, <1>8, Zenon DEF Entries

\* Storing entries of a log that starts at index 1 keeps every entry under its
\* index.
LEMMA StoreOK ==
  ASSUME NEW M, NEW d, StoredOK(M, d), NEW es \in Entries, AllElected(M, es),
         d.last = 0 => FromOne(es)
  PROVE  StoredOK(M, Store(d, es))
<1>1. CASE es = << >>
  BY <1>1, Zenon DEF Store
<1>2. CASE es # << >>
  <2> DEFINE W == {es[p].index : p \in DOMAIN es}
             log == [i \in DOMAIN d.log \cup W |-> IF i \in W THEN es[LastWith(es, i)] ELSE d.log[i]]
             last == es[Len(es)].index
  <2>1. es \in Seq(EntryT) /\ Len(es) \in 1..Len(es) /\ 1 \in 1..Len(es) /\ DOMAIN es = 1..Len(es)
    BY <1>2 DEF Entries
  <2>2. \A p \in DOMAIN es : es[p] \in EntryT /\ es[p].index \in Nat \ {0}
    <3>1. \A p \in DOMAIN es : es[p] \in EntryT
      BY <2>1
    <3> QED
      BY <3>1, Zenon DEF EntryT
  <2>3. last \in Nat /\ W \subseteq Nat \ {0}
    BY <2>1, <2>2, Zenon
  <2>4. (d.last # 0 => 1 \in DOMAIN d.log) /\ (d.last = 0 => 1 \in W)
    BY <1>2, <2>1, Zenon DEF StoredOK, FromOne
  <2>5. ASSUME NEW i \in DOMAIN log
        PROVE  log[i] \in EntryT /\ log[i].index = i /\ Elected(M, log[i].data, log[i].term)
    <3>1. CASE i \in W
      <4>1. LastWith(es, i) \in DOMAIN es /\ es[LastWith(es, i)].index = i
        BY <3>1, LastWithFacts, Zenon
      <4>2. log[i] = es[LastWith(es, i)]
        BY <3>1, Zenon
      <4> HIDE DEF log, W
      <4> QED
        BY <2>2, <4>1, <4>2, Zenon DEF AllElected
    <3>2. CASE i \notin W
      <4>1. i \in DOMAIN d.log /\ log[i] = d.log[i]
        BY <3>2, Zenon
      <4> HIDE DEF log, W
      <4> QED
        BY <4>1, Zenon DEF StoredOK
    <3> QED
      BY <3>1, <3>2, Zenon
  <2>6. DOMAIN log = DOMAIN d.log \cup W
    BY Zenon
  <2>7. Store(d, es) = [log |-> log, last |-> last]
    BY <1>2, Zenon DEF Store
  <2> HIDE DEF log, W, last
  <2>8. Store(d, es).log = log /\ Store(d, es).last = last
    BY <2>7
  <2>9. DOMAIN log \subseteq Nat \ {0} /\ 1 \in DOMAIN log
    <3>1. DOMAIN d.log \subseteq Nat \ {0}
      BY Zenon DEF StoredOK
    <3> QED
      BY <2>3, <2>4, <2>6, <3>1, Zenon
  <2> QED
    BY <2>3, <2>5, <2>8, <2>9, Zenon DEF StoredOK
<1> QED
  BY <1>1, <1>2, Zenon

\* What the two action properties say of one step.
CommittedKept == \A n \in Node : KeepsCommitted(node[n].log, node'[n].log) \/ Restart(n)
LeadersExtend ==
  \A n \in Node : node[n].state = "Leader" /\ node'[n].state = "Leader"
                    => Extends(node[n].log, node'[n].log)

\* A step that touches no log overwrites nothing.
LEMMA SameNodes ==
  ASSUME \A n \in Node : node'[n].log = node[n].log
  PROVE  CommittedKept /\ LeadersExtend
BY Zenon DEF CommittedKept, LeadersExtend, KeepsCommitted, Extends

\* A step of node n to an outcome that keeps its promises.
LEMMA ApplyOK ==
  ASSUME RaftInv, NEW n \in Node, NEW o, HandlerOK(msgs, n, node[n], o), Apply(n, o)
  PROVE  RaftInv' /\ CommittedKept /\ LeadersExtend
<1> DEFINE stopped == [node[n] EXCEPT !.state = "Panicked"]
           l == Stabled(n, o.s.log)
           panics == o.s.state = "Panicked" \/ UnstablePanics(l)
           s == IF panics THEN stopped ELSE o.s
           d == IF panics THEN stored[n] ELSE Store(stored[n], unstable_entries(l))
<1>1. /\ node' = [node EXCEPT ![n] = s] /\ stored' = [stored EXCEPT ![n] = d]
      /\ msgs' = msgs \/ msgs' = msgs \cup o.out
  BY Zenon DEF Apply
<1>2. msgs \subseteq msgs' /\ msgs' \subseteq MsgT /\ \A m \in msgs' : MsgOK(msgs, m)
  BY <1>1, Zenon DEF RaftInv, HandlerOK, MsgOK
<1>a. NodeOK(msgs, n, node[n]) /\ node[n] \in NodeT(n) /\ StoredOK(msgs, stored[n])
  BY Zenon DEF RaftInv, NodeOK
<1>3. /\ NodeOK(msgs, n, s) /\ KeepsCommitted(node[n].log, s.log)
      /\ node[n].state = "Leader" /\ s.state = "Leader" => Extends(node[n].log, s.log)
  <2>1. CASE panics
    <3>1. stopped \in NodeT(n) /\ stopped.log = node[n].log /\ stopped.state = "Panicked"
      BY <1>a, Zenon DEF NodeT
    <3>2. s = stopped
      BY <2>1, Zenon
    <3> HIDE DEF stopped, s
    <3>3. NodeOK(msgs, n, stopped) /\ KeepsCommitted(node[n].log, stopped.log)
      BY <1>a, <3>1, SameEntries, Zenon
    <3> QED
      BY <3>1, <3>2, <3>3, Zenon
  <2>2. CASE ~panics
    BY <2>2, Zenon DEF HandlerOK
  <2> QED
    BY <2>1, <2>2, Zenon
<1>b. StoredOK(msgs, d)
  <2>1. CASE panics
    BY <1>a, <2>1, Zenon
  <2>2. CASE ~panics
    <3> DEFINE es == unstable_entries(l)
    <3>1. /\ o.s.log \in LogT /\ FromOne(o.s.log.entries) /\ AllElected(msgs, o.s.log.entries)
          /\ ~UnstablePanics(l) /\ d = Store(stored[n], es)
      BY <2>2, Zenon DEF HandlerOK, NodeOK, NodeT
    <3>2. /\ es \in Entries
          /\ \A p \in DOMAIN es : \E j \in DOMAIN o.s.log.entries : es[p] = o.s.log.entries[j]
          /\ stored[n].last = 0 => es = o.s.log.entries
      BY <1>a, <3>1, UnstableFacts, Zenon
    <3> HIDE DEF es, d
    <3>3. AllElected(msgs, es) /\ (stored[n].last = 0 => FromOne(es))
      BY <3>1, <3>2, Zenon DEF AllElected
    <3> QED
      BY <1>a, <3>1, <3>2, <3>3, StoreOK, Zenon
  <2> QED
    BY <2>1, <2>2, Zenon
<1> HIDE DEF s, d
<1>4. /\ node' = [k \in Node |-> node'[k]] /\ node'[n] = s
      /\ stored' = [k \in Node |-> stored'[k]] /\ stored'[n] = d
      /\ \A k \in Node : k # n => node'[k] = node[k] /\ stored'[k] = stored[k]
  BY <1>1, Zenon DEF RaftInv
<1>5. \A k \in Node : NodeOK(msgs, k, node'[k]) /\ StoredOK(msgs, stored'[k])
  BY <1>3, <1>b, <1>4, Zenon DEF RaftInv
<1>6. /\ \A k \in Node : NodeOK(msgs', k, node'[k]) /\ StoredOK(msgs', stored'[k])
      /\ \A m \in msgs' : MsgOK(msgs', m)
  BY <1>2, <1>5, MoreMessages, Zenon
<1>7. RaftInv'
  BY <1>4, <1>6, Zenon DEF RaftInv
<1>8. CommittedKept
  BY <1>3, <1>4, Zenon DEF CommittedKept, KeepsCommitted
<1>9. LeadersExtend
  BY <1>3, <1>4, Zenon DEF LeadersExtend, Extends
<1> QED
  BY <1>7, <1>8, <1>9, Zenon

\* The progress a leader or a restarted node starts with is typed.
LEMMA NewProgressType ==
  ASSUME NEW n \in Node, NEW l \in LogT, FromOne(l.entries)
  PROVE  NewProgress(Node \ {n}, l) \in ProgressT(n)
<1>1. last_index(l) \in Nat
  BY LogFacts, Zenon
<1> QED
  BY <1>1 DEF NewProgress, ProgressT

\* A node that restarts has a log that starts at index 1, of entries of elected
\* authors, and leads nobody.
LEMMA RestartOK ==
  ASSUME RaftInv, NEW n \in Node, Restart(n)
  PROVE  RaftInv' /\ CommittedKept /\ LeadersExtend
<1> DEFINE s == node[n]
           d == stored[n]
<1>1. NodeOK(msgs, n, s) /\ s \in NodeT(n) /\ s.log \in LogT /\ StoredOK(msgs, d)
  BY Zenon DEF RaftInv, NodeOK, NodeT
<1>2. PICK last \in 0..d.last :
        LET log == [s.log EXCEPT !.entries = [i \in 1..last |-> d.log[i]]]
        IN  /\ ReadRaftLogTo(d, last)
            /\ node' = [node EXCEPT ![n] =
                  [@ EXCEPT !.state = "Follower", !.lead = NONE, !.granted = {}, !.rejected = {},
                            !.prs = NewProgress(Peers(s), log), !.log = log]]
  BY Zenon DEF Restart
<1> DEFINE es == [i \in 1..last |-> d.log[i]]
           log == [s.log EXCEPT !.entries = es]
           t == [s EXCEPT !.state = "Follower", !.lead = NONE, !.granted = {}, !.rejected = {},
                          !.prs = NewProgress(Peers(s), log), !.log = log]
<1>3. last \in Nat /\ \A i \in 1..last : i \in DOMAIN d.log
  BY <1>1, <1>2 DEF ReadRaftLogTo, StoredOK
<1>4. /\ es \in Entries /\ DOMAIN es = 1..last /\ FromOne(es) /\ AllElected(msgs, es)
  <2>1. \A i \in 1..last : /\ es[i] \in EntryT /\ es[i].index = i
                          /\ Elected(msgs, es[i].data, es[i].term)
    BY <1>1, <1>3, Zenon DEF StoredOK
  <2>2. DOMAIN es = 1..last /\ \A i \in 1..last : es[i] \in EntryT
    BY <2>1, Zenon
  <2>3. es \in [1..last -> EntryT]
    BY <2>2, Zenon
  <2>4. es \in Seq(EntryT) /\ (es # << >> => 1 \in 1..last)
    <3> HIDE DEF es
    <3> QED
      BY <1>3, <2>3
  <2> HIDE DEF es
  <2> QED
    BY <2>1, <2>2, <2>4, Zenon DEF Entries, FromOne, AllElected
<1>5. node' = [node EXCEPT ![n] = t] /\ stored' = stored /\ msgs' = msgs
  BY <1>2, Zenon DEF Restart
<1> HIDE DEF es
<1>6. log \in LogT /\ log.entries = es
  BY <1>1, <1>4, Zenon DEF LogT
<1>7. Peers(s) = Node \ {n}
  BY <1>1, QuorumIsMajority, Zenon
<1>8. NewProgress(Peers(s), log) \in ProgressT(n)
  <2> HIDE DEF log
  <2> QED
    BY <1>4, <1>6, <1>7, NewProgressType, Zenon
<1> HIDE DEF log
<1>9. t \in NodeT(n) /\ t.log = log /\ t.state = "Follower"
  BY <1>1, <1>6, <1>8, Zenon DEF NodeT
<1> HIDE DEF t
<1>10. NodeOK(msgs, n, t)
  BY <1>4, <1>6, <1>9, Zenon DEF NodeOK
<1>11. /\ node' = [k \in Node |-> node'[k]] /\ node'[n] = t
       /\ \A k \in Node : k # n => node'[k] = node[k]
  BY <1>5, Zenon DEF RaftInv
<1>12. RaftInv'
  BY <1>5, <1>10, <1>11, Zenon DEF RaftInv
<1>13. CommittedKept
  BY <1>11, Zenon DEF CommittedKept, KeepsCommitted
<1>14. LeadersExtend
  BY <1>9, <1>11, Zenon DEF LeadersExtend, Extends
<1> QED
  BY <1>12, <1>13, <1>14, Zenon

\* Nodes with empty logs and no messages satisfy the invariant.
LEMMA InitOK == Init => RaftInv
<1> SUFFICES ASSUME Init
             PROVE  RaftInv
  BY Zenon
<1>1. EmptyLog \in LogT /\ EmptyLog.entries = << >>
  BY DEF EmptyLog, LogT, Entries
<1>2. FromOne(<< >>) /\ \A M : AllElected(M, << >>)
  BY DEF FromOne, AllElected
<1>3. ASSUME NEW n \in Node
      PROVE  NodeOK(msgs, n, NewNode(n))
  <2>1. NewProgress(Node \ {n}, EmptyLog) \in ProgressT(n)
    BY <1>1, <1>2, NewProgressType, Zenon
  <2>2. NewNode(n) \in NodeT(n) /\ NewNode(n).log = EmptyLog /\ NewNode(n).state = "Follower"
    BY <1>1, <2>1, Zenon DEF NewNode, NodeT
  <2> QED
    BY <1>1, <1>2, <2>2, Zenon DEF NodeOK
<1>4. StoredOK(msgs, NothingStored)
  <2>1. NothingStored.last = 0 /\ NothingStored.log = << >> /\ DOMAIN << >> = {}
    BY DEF NothingStored
  <2> QED
    BY <2>1 DEF StoredOK
<1> QED
  BY <1>3, <1>4, Zenon DEF Init, RaftInv

\* Every action keeps the invariant, committed entries and a leader's log.
LEMMA NextOK == RaftInv /\ [Next]_vars => RaftInv' /\ CommittedKept /\ LeadersExtend
<1> SUFFICES ASSUME RaftInv, [Next]_vars
             PROVE  RaftInv' /\ CommittedKept /\ LeadersExtend
  BY Zenon
<1>1. msgs \subseteq MsgT
  BY Zenon DEF RaftInv, MsgOK
<1>2. ASSUME NEW n \in Node, Hup(n)
      PROVE  RaftInv' /\ CommittedKept /\ LeadersExtend
  <2>1. HandlerOK(msgs, n, node[n], campaign(node[n]))
    BY <1>1, <1>2, CampaignOK, Zenon DEF Hup, RaftInv
  <2> QED
    BY <1>2, <2>1, ApplyOK, Zenon DEF Hup
<1>3. ASSUME NEW n \in Node, Beat(n)
      PROVE  RaftInv' /\ CommittedKept /\ LeadersExtend
  <2>1. HandlerOK(msgs, n, node[n], bcast_heartbeat(node[n]))
    BY BcastHeartbeatOK, Zenon DEF RaftInv
  <2> QED
    BY <1>3, <2>1, ApplyOK, Zenon DEF Beat
<1>4. ASSUME NEW n \in Node, Propose(n)
      PROVE  RaftInv' /\ CommittedKept /\ LeadersExtend
  <2> DEFINE s == node[n]
             es == <<Entry(s.term, last_index(s.log) + 1, n)>>
             o == IF AppendPanics(s.log, es) THEN Panic(s)
                  ELSE bcast_append(maybe_commit([s EXCEPT !.log = append(@, es)]))
  <2>1. NodeOK(msgs, n, s) /\ s.state = "Leader" /\ Apply(n, o)
    BY <1>4, Zenon DEF Propose, RaftInv
  <2>2. HandlerOK(msgs, n, s, o)
    BY <2>1, ProposeOK, Zenon
  <2> HIDE DEF o
  <2> QED
    BY <2>1, <2>2, ApplyOK, Zenon
<1>5. ASSUME NEW n \in Node, Restart(n)
      PROVE  RaftInv' /\ CommittedKept /\ LeadersExtend
  BY <1>5, RestartOK, Zenon
<1>6. ASSUME NEW m \in msgs, Receive(m)
      PROVE  RaftInv' /\ CommittedKept /\ LeadersExtend
  <2>1. m.to \in Node /\ MsgOK(msgs, m) /\ node[m.to].state # "Panicked" /\ NodeOK(msgs, m.to, node[m.to])
    BY <1>6, Zenon DEF Receive, Alive, RaftInv, MsgOK, MsgT
  <2>2. HandlerOK(msgs, m.to, node[m.to], step(node[m.to], m))
    BY <1>1, <2>1, StepOK, Zenon
  <2> QED
    BY <1>6, <2>1, <2>2, ApplyOK, Zenon DEF Receive
<1>7. CASE UNCHANGED vars
  BY <1>7, SameNodes, Zenon DEF vars, RaftInv
<1> QED
  BY <1>2, <1>3, <1>4, <1>5, <1>6, <1>7, Zenon DEF Next

\* The invariant holds in every state of every behaviour.
LEMMA SpecRaftInv == Spec => []RaftInv
BY InitOK, NextOK, PTL DEF Spec

\* However messages are lost, repeated and reordered, an entry is in a log only if
\* a majority voted for the node that made it, in the entry's term (raft.rs,
\* handle_request_vote_response, become_leader and handle_append_entries).
THEOREM AuthorsAreElected == Spec => []ElectedAuthors
<1>1. RaftInv => ElectedAuthors
  <2>1. \A c, t : VotersOf(c, t) = VotersIn(msgs, c, t)
    BY Zenon DEF VotersOf, VotersIn
  <2> QED
    BY <2>1, Zenon DEF RaftInv, NodeOK, AllElected, Elected, ElectedAuthors
<1> QED
  BY <1>1, SpecRaftInv, PTL

\* No step cuts the log of a node that leads before and after it (log.rs, append).
THEOREM LeadersOnlyAppend == Spec => LeaderAppendOnly
<1>1. RaftInv /\ [Next]_vars =>
        [\A n \in Node :
           node[n].state = "Leader" /\ node'[n].state = "Leader" =>
              \A i \in DOMAIN node[n].log.entries :
                  /\ i \in DOMAIN node'[n].log.entries
                  /\ node'[n].log.entries[i] = node[n].log.entries[i]]_vars
  BY NextOK, Zenon DEF LeadersExtend, Extends
<1> QED
  BY <1>1, SpecRaftInv, PTL DEF Spec, LeaderAppendOnly

\* While it runs no node rewrites what it has committed: append panics first
\* (log.rs, append).  Only a restart may read back another entry.
THEOREM CommittedStays == Spec => CommittedNotOverwritten
<1>1. RaftInv /\ [Next]_vars =>
        [\A n \in Node : \A i \in DOMAIN node[n].log.entries :
           i <= node[n].log.committed =>
              \/ /\ i \in DOMAIN node'[n].log.entries
                 /\ node'[n].log.entries[i] = node[n].log.entries[i]
              \/ Restart(n)]_vars
  BY NextOK, Zenon DEF CommittedKept, KeepsCommitted
<1> QED
  BY <1>1, SpecRaftInv, PTL DEF Spec, CommittedNotOverwritten
=============================================================================
