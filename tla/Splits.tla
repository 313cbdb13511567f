-------------------------------- MODULE Splits --------------------------------
(***************************************************************************)
(* How a region is split: the peer's tick and the split checker            *)
(* (peer_msg_handler.rs, split_checker.rs), the message through the router *)
(* (router.rs), ask_split at PD (scheduler_task.rs, pd/state.rs) and the   *)
(* admin command (admin.rs) that changes StoreMeta in two steps.  Two      *)
(* connections are outside the code: the task queue between the message    *)
(* handler and the scheduler task, and the call of AdminHandler::execute,  *)
(* which gets the region StoreMeta has at that time.                       *)
(***************************************************************************)
EXTENDS StoreMeta, FiniteSetsExt

CONSTANTS FirstId,        \* id of the region the store starts with
          NewIds,         \* the region ids PD will allocate, in order
          SplitCFs,            \* CFS, in scan order
          SplitContents,       \* possible databases: cf -> key -> bytes of the pair, 0 if absent
          SplitSize, MaxSize,
          SeekPosition,   \* the first key that is not below the lossy UTF-8 text of a key
          MaxTicks,       \* bound: ticks
          MaxQueue        \* bound: messages in a peer's channel

Ids == {FirstId} \cup Range(NewIds)

\* An id is allocated once.
ASSUME SplitsAssumption ==
  /\ NRegionKeys \in Nat
  /\ NewIds \in Seq(Range(NewIds)) /\ IsInjective(NewIds)
  /\ FirstId \notin Range(NewIds)
  /\ NoRegion \notin [id : Ids, start : Nat, end : Nat, ver : Nat, conf : Nat]

VARIABLES
  sizes,       \* the data of the store, as the checker sees it
  peerRegion,  \* the region copy of every registered Peer (PeerStorage), or NoRegion
  mailbox,     \* router: SplitRegion messages queued for a peer
  asks,        \* ask-split tasks: waiting for PD ("ask") or for execution ("admin")
  halves,      \* splits between their two set_region calls: the right halves
  allocated,   \* id_allocator: regions allocated so far
  ticks

splitVars == <<metaVars, sizes, peerRegion, mailbox, asks, halves, allocated, ticks>>

Whole == [id |-> FirstId, start |-> 0, end |-> 0, ver |-> 1, conf |-> 1]

SplitsInit ==
  /\ regionOf = [id \in Ids |-> IF id = FirstId THEN Whole ELSE NoRegion]
  /\ ranges = <<[start |-> 0, id |-> FirstId]>>
  /\ sizes \in SplitContents
  /\ peerRegion = regionOf
  /\ mailbox = [id \in Ids |-> <<>>]
  /\ asks = {} /\ halves = {} /\ allocated = 0 /\ ticks = 0

-----------------------------------------------------------------------------
(* SplitChecker *)
Bytes(cf, S) == MapThenSumSet(LAMBDA k : sizes[cf][k], S)

\* The iterator is set to the start key as text, where bytes that are not UTF-8
\* have been replaced: keys of the region may be skipped, keys before it counted.
SeekKey(start) == IF start = 0 THEN 0 ELSE SeekPosition[start]
InRange(cf, g) ==
  {k \in RegionKeys : sizes[cf][k] > 0 /\ k >= SeekKey(g.start) /\ ~ExceedEndKey(k, g.end)}
UpTo(cf, g, k) == Bytes(cf, {j \in InRange(cf, g) : j <= k})

\* scan_cf: the bytes seen until max_size is exceeded, and the first key at which
\* they exceed split_size (the empty key if they never do).
ScanCf(cf, g) ==
  LET beyond(limit) == {k \in InRange(cf, g) : UpTo(cf, g, k) > limit}
      first(limit) == CHOOSE k \in beyond(limit) : \A j \in beyond(limit) : k <= j
  IN  [size |-> IF beyond(MaxSize) = {} THEN Bytes(cf, InRange(cf, g))
                ELSE UpTo(cf, g, first(MaxSize)),
       key |-> IF beyond(SplitSize) = {} THEN 0 ELSE first(SplitSize)]

\* check: column families are added up until max_size is exceeded; the split key
\* is that of the family with which split_size was first exceeded.
Total(g, n) == MapThenSumSet(LAMBDA i : ScanCf(SplitCFs[i], g).size, 1..n)
SplitCheck(g) ==
  LET beyond == {n \in 1..Len(SplitCFs) : Total(g, n) > SplitSize}
      first == CHOOSE n \in beyond : \A m \in beyond : n <= m
  IN  IF Total(g, Len(SplitCFs)) < MaxSize \/ beyond = {} \/ Total(g, first - 1) > MaxSize THEN {}
      ELSE {ScanCf(SplitCFs[first], g).key}

-----------------------------------------------------------------------------
\* on_tick of a leader whose peer runs: a split key found is sent to the peer
\* itself.  approximate_size is never set, so no tick is skipped.
OnTick(id) ==
  /\ peerRegion[id] # NoRegion /\ ticks < MaxTicks /\ Len(mailbox[id]) < MaxQueue
  /\ ticks' = ticks + 1
  /\ \E key \in SplitCheck(peerRegion[id]) :
       mailbox' = [mailbox EXCEPT ![id] = Append(@, [ver |-> peerRegion[id].ver, key |-> key])]
  /\ UNCHANGED <<metaVars, sizes, peerRegion, asks, halves, allocated>>

\* on_prepare_split_region with validate_split_region: refused for an empty key,
\* by a peer that no longer leads, and for another version.
OnPrepareSplitRegion(id) ==
  /\ mailbox[id] # <<>>
  /\ mailbox' = [mailbox EXCEPT ![id] = Tail(@)]
  /\ \E leads \in BOOLEAN :
       LET msg == Head(mailbox[id])
           valid == msg.key # 0 /\ leads /\ peerRegion[id].ver = msg.ver
       IN  asks' = IF valid THEN asks \cup {[at |-> "ask", id |-> id, key |-> msg.key, new |-> NoRegion]}
                   ELSE asks
  /\ UNCHANGED <<metaVars, sizes, peerRegion, halves, allocated, ticks>>

\* PdState::ask_split allocates an id for the new region (and one for its peer).
AskSplit == allocated < Len(NewIds) /\ allocated' = allocated + 1

\* on_ask_split: PD answers with a fresh id, or the call fails and the task is lost.
OnAskSplit(t) ==
  /\ t.at = "ask"
  /\ \/ /\ AskSplit
        /\ asks' = (asks \ {t}) \cup {[t EXCEPT !.at = "admin", !.new = NewIds[allocated']]}
     \/ asks' = asks \ {t} /\ UNCHANGED allocated
  /\ UNCHANGED <<metaVars, sizes, peerRegion, mailbox, halves, ticks>>

IsKeyInRangeMutant(k, g) == ~(g.start # 0 /\ k < g.start)
IsKeyInRange(k, g) == ~(g.start # 0 /\ k < g.start) /\ ~(g.end # 0 /\ k >= g.end)
CreateNewRegion(g, t) ==
  [id |-> t.new, start |-> t.key, end |-> g.end, ver |-> g.ver + 1, conf |-> g.conf + 1]
UpdateRegionRange(g, key) == [g EXCEPT !.end = key, !.ver = @ + 1]

\* execute_split up to its first set_region, or refused ...
ExecuteSplit(t) ==
  LET g == regionOf[t.id] IN
  /\ t.at = "admin"
  /\ asks' = asks \ {t}
  /\ IF IsKeyInRange(t.key, g)
     THEN /\ SetRegion(UpdateRegionRange(g, t.key))
          /\ halves' = halves \cup {CreateNewRegion(g, t)}
     ELSE UNCHANGED <<metaVars, halves>>
  /\ UNCHANGED <<sizes, peerRegion, mailbox, allocated, ticks>>

\* ... and its second one.
ExecuteSplitEnd(h) ==
  /\ SetRegion(h)
  /\ halves' = halves \ {h}
  /\ UNCHANGED <<sizes, peerRegion, mailbox, asks, allocated, ticks>>

\* External: the store starts a peer for a region it has, or hands the peer the
\* changed region (Peer::set_region).
PeerSetRegion(id) ==
  /\ regionOf[id] # NoRegion /\ peerRegion[id] # regionOf[id]
  /\ peerRegion' = [peerRegion EXCEPT ![id] = regionOf[id]]
  /\ UNCHANGED <<metaVars, sizes, mailbox, asks, halves, allocated, ticks>>

SplitsNext ==
  \/ \E id \in Ids : OnTick(id) \/ OnPrepareSplitRegion(id) \/ PeerSetRegion(id)
  \/ \E t \in asks : OnAskSplit(t) \/ ExecuteSplit(t)
  \/ \E h \in halves : ExecuteSplitEnd(h)

SplitsSpec == SplitsInit /\ [][SplitsNext]_splitVars

-----------------------------------------------------------------------------
\* Unless a split is between its two set_region calls, every key belongs to
\* exactly one region, and that is the region find_region_by_key returns, however
\* many splits of the same region were asked for at once.
EveryKeyRouted ==
  halves = {} =>
    \A k \in RegionKeys :
      LET owners == {id \in Ids : regionOf[id] # NoRegion /\ KeyInRegion(k, regionOf[id])}
      IN  Cardinality(owners) = 1 /\ FindRegionByKey(k) \in owners
================================================================================
