------------------------------ MODULE PdProofs ------------------------------
(***************************************************************************)
(* The placement driver for any stores, regions, streams and bounds: a      *)
(* bound stream has a living handler, the indexes agree with the regions,   *)
(* and scaling down never removes a peer below the minimum.                 *)
(***************************************************************************)
EXTENDS Pd, TLAPS

Pcs == {"idle", "read", "unindex", "index", "stats", "dispatch", "send"}
MsgT == [region : RegionSet, view : Views]
ConnT == [store : StoreSet \cup {Nil}, open : BOOLEAN, msg : MsgT \cup {Nil}, bound : BOOLEAN,
          pc : Pcs, region : RegionSet \cup {Nil}, view : Views \cup {Nil},
          old : Views \cup {Nil}]

\* What a handler holds at each step; a stream nobody opened has no store.
ConnOK(c) ==
  /\ conn[c].pc = "idle" <=> conn[c].region = Nil
  /\ conn[c].pc # "idle" => conn[c].view # Nil
  /\ conn[c].pc = "unindex" => conn[c].old # Nil
  /\ conn[c].store = Nil => ~conn[c].open /\ conn[c].msg = Nil /\ ~conn[c].bound

ClusterTypeOK ==
  /\ regions \in [RegionSet -> Views \cup {Nil}]
  /\ storeRegions \in [StoreSet -> SUBSET RegionSet]
  /\ storeLeaders \in [StoreSet -> SUBSET RegionSet]
  /\ truth \in [RegionSet -> Views]
  /\ streams \in [StoreSet -> Conns \cup {Nil}]

ConnTypeOK == conn \in [Conns -> ConnT] /\ \A c \in Conns : ConnOK(c)

-----------------------------------------------------------------------------
(* Types. *)
LEMMA ViewParts ==
  ASSUME NEW v \in Views
  PROVE  /\ v # Nil /\ v.leader \in StoreSet /\ v.conf \in Nat
         /\ StoreIds(v) \subseteq StoreSet
  BY PdAssumption, Zenon DEF Views, StoreIds, PeerMaps

\* A view with other peers.
Changed(t, ps, P) == [peers |-> ps, leader |-> t.leader, pending |-> P, conf |-> t.conf + 1]

LEMMA ChangedView ==
  ASSUME NEW t \in Views, NEW ps \in PeerMaps, NEW P \in SUBSET StoreSet
  PROVE  Changed(t, ps, P) \in Views /\ Changed(t, ps, P).conf = t.conf + 1
  BY DEF Views, Changed

\* Changes of the Raft groups are changes of views.
LEMMA ChangedViews ==
  ASSUME ClusterTypeOK, NEW r \in RegionSet, MemberChange(r) \/ CaughtUp(r) \/ LeaderChange(r)
  PROVE  \E v \in Views :
           /\ truth' = [truth EXCEPT ![r] = v]
           /\ \/ v.conf = truth[r].conf + 1
              \/ v.conf = truth[r].conf /\ StoreIds(v) = StoreIds(truth[r])
           /\ UNCHANGED <<clusterVars, process, bootstrapped, conn, streams, schedVars, overlapped>>
<1> DEFINE t == truth[r]
<1>0. t \in Views /\ StoreIds(t) \subseteq StoreSet /\ t.peers \in [StoreIds(t) -> PeerIds]
        /\ t.pending \subseteq StoreSet
  BY DEF ClusterTypeOK, Views, StoreIds, PeerMaps
<1>1. CASE MemberChange(r)
  <2>1. PICK ps \in PeerMaps, P \in SUBSET StoreSet : Change(r, Changed(t, ps, P))
    <3>1. ASSUME NEW s \in StoreSet \ StoreIds(t), NEW id \in PeerIds
          PROVE  [x \in StoreIds(t) \cup {s} |-> IF x = s THEN id ELSE t.peers[x]] \in PeerMaps
      <4>1. [x \in StoreIds(t) \cup {s} |-> IF x = s THEN id ELSE t.peers[x]]
               \in [StoreIds(t) \cup {s} -> PeerIds]
        BY <1>0, Zenon
      <4> QED
        BY <1>0, <4>1, Zenon DEF PeerMaps
    <3>2. ASSUME NEW s \in StoreIds(t)
          PROVE  Restrict(t.peers, StoreIds(t) \ {s}) \in PeerMaps
      <4>1. Restrict(t.peers, StoreIds(t) \ {s}) \in [StoreIds(t) \ {s} -> PeerIds]
        BY <1>0, Zenon DEF Restrict
      <4> QED
        BY <1>0, <4>1, Zenon DEF PeerMaps
    <3> QED
      BY <1>0, <1>1, <3>1, <3>2, Zenon DEF MemberChange, Changed
  <2> QED
    BY <1>0, <2>1, ChangedView, Zenon DEF Change
<1>2. CASE CaughtUp(r)
  <2>1. PICK s \in t.pending : Change(r, [t EXCEPT !.pending = @ \ {s}])
    BY <1>2, Zenon DEF CaughtUp
  <2>2. [t EXCEPT !.pending = @ \ {s}] \in Views
    BY <1>0, Zenon DEF Views
  <2> QED
    BY <1>0, <2>1, <2>2, Zenon DEF Change, StoreIds, Views
<1>3. CASE LeaderChange(r)
  <2>1. PICK s \in StoreIds(t) : Change(r, [t EXCEPT !.leader = s])
    BY <1>3, Zenon DEF LeaderChange
  <2>2. [t EXCEPT !.leader = s] \in Views
    BY <1>0, Zenon DEF Views
  <2> QED
    BY <1>0, <2>1, <2>2, Zenon DEF Change, StoreIds, Views
<1> QED
  BY <1>1, <1>2, <1>3, Zenon

\* What each step of a handler leaves in the stream.
LEMMA HandlerConn ==
  ASSUME ClusterTypeOK, ConnTypeOK, NEW c \in Conns, HandlerStep(c)
  PROVE  \E f \in ConnT :
           /\ conn' = [conn EXCEPT ![c] = f]
           /\ f.pc = "idle" <=> f.region = Nil
           /\ f.pc # "idle" => f.view # Nil
           /\ f.pc = "unindex" => f.old # Nil
           /\ f.store = Nil => ~f.open /\ f.msg = Nil /\ ~f.bound
<1> DEFINE h == conn[c]
<1>0. h \in ConnT /\ ConnOK(c)
  BY Zenon DEF ConnTypeOK
<1>1. CASE ReceiveHeartbeat(c)
  <2> DEFINE f == [h EXCEPT !.msg = Nil, !.bound = TRUE, !.pc = "read",
                            !.region = h.msg.region, !.view = h.msg.view]
  <2>1. h.msg.region \in RegionSet /\ h.msg.view \in Views
    BY <1>0, <1>1, Zenon DEF ReceiveHeartbeat, ConnT, MsgT
  <2>2. f \in ConnT
    BY <1>0, <2>1, Zenon DEF ConnT, Pcs
  <2> QED
    BY <1>0, <1>1, <2>1, <2>2, PdAssumption, Zenon DEF ReceiveHeartbeat, Handler, ConnOK, ConnT
<1>2. CASE StreamEnds(c)
  <2>1. conn' = [conn EXCEPT ![c] = Closed]
    BY <1>2, Zenon DEF StreamEnds, Handler
  <2>2. /\ Closed \in ConnT /\ Closed.pc = "idle" /\ Closed.region = Nil
        /\ ~Closed.open /\ Closed.msg = Nil /\ ~Closed.bound
    BY Zenon DEF Closed, ConnT, Pcs
  <2> QED
    BY <2>1, <2>2, Zenon
<1>3. CASE PutRead(c)
  <2>1. h.region \in RegionSet /\ regions[h.region] \in Views \cup {Nil}
    BY <1>0, <1>3, Zenon DEF PutRead, ConnOK, ConnT, ClusterTypeOK
  <2> DEFINE f == [h EXCEPT !.old = regions[h.region],
                            !.pc = IF regions[h.region] = Nil THEN "index" ELSE "unindex"]
  <2>2. f \in ConnT
    BY <1>0, <2>1, Zenon DEF ConnT, Pcs
  <2> QED
    BY <1>0, <1>3, <2>1, <2>2, Zenon DEF PutRead, Handler, ConnOK, ConnT
<1>4. CASE PutUnindex(c)
  <2> DEFINE f == [h EXCEPT !.old = Nil, !.pc = "index"]
  <2>2. f \in ConnT
    BY <1>0, Zenon DEF ConnT, Pcs
  <2> QED
    BY <1>0, <1>4, <2>2, Zenon DEF PutUnindex, Handler, ConnOK, ConnT
<1>5. ASSUME NEW pc \in {"stats", "dispatch", "send"}, h.pc # "idle", Handler(c, [h EXCEPT !.pc = pc])
      PROVE  \E f \in ConnT :
           /\ conn' = [conn EXCEPT ![c] = f]
           /\ f.pc = "idle" <=> f.region = Nil
           /\ f.pc # "idle" => f.view # Nil
           /\ f.pc = "unindex" => f.old # Nil
           /\ f.store = Nil => ~f.open /\ f.msg = Nil /\ ~f.bound
  <2> DEFINE f == [h EXCEPT !.pc = pc]
  <2>2. f \in ConnT
    BY <1>0, Zenon DEF ConnT, Pcs
  <2> QED
    BY <1>0, <1>5, <2>2, Zenon DEF Handler, ConnOK, ConnT
<1>6. ASSUME Handler(c, Done(h))
      PROVE  \E f \in ConnT :
           /\ conn' = [conn EXCEPT ![c] = f]
           /\ f.pc = "idle" <=> f.region = Nil
           /\ f.pc # "idle" => f.view # Nil
           /\ f.pc = "unindex" => f.old # Nil
           /\ f.store = Nil => ~f.open /\ f.msg = Nil /\ ~f.bound
  <2>2. Done(h) \in ConnT
    BY <1>0, Zenon DEF ConnT, Pcs, Done
  <2> QED
    BY <1>0, <1>6, <2>2, Zenon DEF Handler, ConnOK, ConnT, Done
<1>7. CASE PutIndex(c) \/ PutStats(c)
  BY <1>5, <1>7, Zenon DEF PutIndex, PutStats
<1>8. CASE Dispatch(c) \/ Send(c)
  BY <1>5, <1>6, <1>8, Zenon DEF Dispatch, Send
<1> QED
  BY <1>1, <1>2, <1>3, <1>4, <1>7, <1>8, Zenon DEF HandlerStep

LEMMA ConnTypeStep ==
  ASSUME ClusterTypeOK, ConnTypeOK, [PdNext]_pdVars
  PROVE  ConnTypeOK'
<1> USE DEF ConnTypeOK
<1>1. ASSUME NEW c \in Conns, HandlerStep(c)
      PROVE  ConnTypeOK'
  BY <1>1, HandlerConn DEF ConnOK
<1>2. ASSUME NEW c \in Conns, NEW s \in Leading, Connect(c, s)
      PROVE  ConnTypeOK'
  <2> DEFINE f == [[Closed EXCEPT !.store = s] EXCEPT !.open = TRUE]
  <2>1. conn' = [conn EXCEPT ![c] = f]
    BY <1>2, Zenon DEF Connect
  <2>2. f \in ConnT /\ f.pc = "idle" /\ f.region = Nil /\ f.store # Nil
    BY PdAssumption, Zenon DEF Closed, ConnT, Pcs
  <2> HIDE DEF f
  <2> QED
    BY <2>1, <2>2, Zenon DEF ConnOK
<1>3. ASSUME NEW c \in Conns, NEW r \in RegionSet, RegionHeartbeat(c, r)
      PROVE  ConnTypeOK'
  <2> DEFINE m == [region |-> r, view |-> truth[r]]
             f == [conn[c] EXCEPT !.msg = m]
  <2>1. conn' = [conn EXCEPT ![c] = f]
    BY <1>3, Zenon DEF RegionHeartbeat
  <2>2. m \in MsgT
    BY Zenon DEF MsgT, ClusterTypeOK
  <2> HIDE DEF m
  <2>3. f \in ConnT /\ f.store # Nil
    BY <1>3, <2>2 DEF ConnT, RegionHeartbeat, ConnOK
  <2>4. f.pc = conn[c].pc /\ f.region = conn[c].region /\ f.view = conn[c].view /\ f.old = conn[c].old
    BY Zenon DEF ConnT
  <2> HIDE DEF f
  <2> QED
    BY <2>1, <2>3, <2>4, Zenon DEF ConnOK
<1>4. ASSUME NEW s \in StoreSet, ProcessEnds(s)
      PROVE  ConnTypeOK'
  <2>1. ASSUME NEW c \in Conns PROVE conn'[c] \in ConnT /\ ConnOK(c)'
    <3> DEFINE f == [conn[c] EXCEPT !.open = FALSE]
    <3>1. conn'[c] = f \/ conn'[c] = conn[c]
      BY <1>4, Zenon DEF ProcessEnds
    <3>2. /\ f \in ConnT /\ ~f.open /\ f.pc = conn[c].pc /\ f.region = conn[c].region
          /\ f.view = conn[c].view /\ f.old = conn[c].old
          /\ f.store = conn[c].store /\ f.msg = conn[c].msg /\ f.bound = conn[c].bound
      BY Zenon DEF ConnT
    <3> HIDE DEF f
    <3> QED
      BY <3>1, <3>2, Zenon DEF ConnOK
  <2>2. conn' = [c \in Conns |-> conn'[c]]
    BY <1>4, Zenon DEF ProcessEnds
  <2> QED
    BY <2>1, <2>2
<1>5. CASE UNCHANGED conn
  BY <1>5, Zenon DEF ConnOK
<1> QED
  BY <1>1, <1>2, <1>3, <1>4, <1>5, Zenon
     DEF PdNext, MemberChange, CaughtUp, LeaderChange, Change, OperatorAges, Bootstrap, RegisterStore,
         StoreHeartbeat, StoreSilent, Schedule, AddToController, PdOthers, pdVars

LEMMA ClusterTypeStep ==
  ASSUME ClusterTypeOK, ConnTypeOK, [PdNext]_pdVars
  PROVE  ClusterTypeOK'
<1> DEFINE kept == <<regions, storeRegions, storeLeaders, truth, streams>>
<1>1. ASSUME UNCHANGED kept PROVE ClusterTypeOK'
  BY <1>1, Zenon DEF ClusterTypeOK
<1>2. ASSUME NEW r \in RegionSet, MemberChange(r) \/ CaughtUp(r) \/ LeaderChange(r)
      PROVE  ClusterTypeOK'
  BY <1>2, ChangedViews, Zenon DEF ClusterTypeOK, clusterVars
<1>3. ASSUME NEW c \in Conns, ReceiveHeartbeat(c) PROVE ClusterTypeOK'
  <2>1. conn[c].store \in StoreSet
    BY <1>3, Zenon DEF ReceiveHeartbeat, ConnTypeOK, ConnOK, ConnT
  <2> QED
    BY <1>3, <2>1, Zenon DEF ReceiveHeartbeat, BindStream, ClusterTypeOK, clusterVars, processVars
<1>4. ASSUME NEW c \in Conns, StreamEnds(c) PROVE ClusterTypeOK'
  BY <1>4, Zenon DEF StreamEnds, UnbindStream, ClusterTypeOK, clusterVars, processVars
<1>5. ASSUME NEW c \in Conns, PutUnindex(c) PROVE ClusterTypeOK'
  BY <1>5, Zenon DEF PutUnindex, Unindex, ClusterTypeOK, processVars
<1>6. ASSUME NEW c \in Conns, PutIndex(c) PROVE ClusterTypeOK'
  <2> DEFINE r == conn[c].region
             v == conn[c].view
  <2>1. r \in RegionSet /\ v \in Views
    BY <1>6, Zenon DEF PutIndex, ConnTypeOK, ConnOK, ConnT
  <2>2. Index(r, v) /\ UNCHANGED <<truth, streams>>
    BY <1>6, Zenon DEF PutIndex, processVars
  <2> HIDE DEF r, v
  <2> QED
    BY <2>1, <2>2, Zenon DEF Index, ClusterTypeOK
<1>7. ASSUME NEW c \in Conns, PutRead(c) \/ PutStats(c) \/ Dispatch(c) \/ Send(c)
      PROVE  UNCHANGED kept
  BY <1>7, Zenon DEF PutRead, PutStats, Recount, Dispatch, Send, clusterVars, processVars
<1>8. ASSUME NEW s \in StoreSet, Bootstrap(s) \/ RegisterStore(s) \/ StoreHeartbeat(s)
                                 \/ StoreSilent(s) \/ ProcessEnds(s)
      PROVE  UNCHANGED kept
  BY <1>8, Zenon DEF Bootstrap, StateBootstrap, RegisterStore, PutStore, StoreHeartbeat,
       HandleStoreHeartbeat, StoreSilent, ProcessEnds, OthersUnchanged, clusterVars
<1>9. ASSUME NEW c \in Conns,
             (\E s \in Leading : Connect(c, s)) \/ (\E r \in RegionSet : RegionHeartbeat(c, r))
      PROVE  UNCHANGED kept
  BY <1>9, Zenon DEF Connect, RegionHeartbeat, OthersUnchanged, clusterVars
<1>10. ASSUME (\E r \in RegionSet : OperatorAges(r)) \/ Schedule \/ AddToController \/ UNCHANGED pdVars
       PROVE  UNCHANGED kept
  BY <1>10, Zenon DEF OperatorAges, Schedule, AddToController, PdOthers, clusterVars, processVars, pdVars
<1> QED
  BY <1>1, <1>2, <1>3, <1>4, <1>5, <1>6, <1>7, <1>8, <1>9, <1>10, Zenon DEF PdNext, HandlerStep

LEMMA ConnInitially ==
  PdInit => \A c \in Conns : conn[c].region = Nil /\ conn[c].msg = Nil /\ conn[c].pc = "idle"
<1> SUFFICES ASSUME PdInit
             PROVE  \A c \in Conns : conn[c].region = Nil /\ conn[c].msg = Nil /\ conn[c].pc = "idle"
  BY Zenon
<1>1. PICK opened \in [Conns -> FirstRunning \cup {Nil}] :
        conn = [c \in Conns |-> [Closed EXCEPT !.store = opened[c], !.open = opened[c] # Nil]]
  BY Zenon DEF PdInit
<1>2. ASSUME NEW s
      PROVE  LET f == [Closed EXCEPT !.store = s, !.open = s # Nil]
             IN  f.region = Nil /\ f.msg = Nil /\ f.pc = "idle"
  BY Zenon DEF Closed
<1> QED
  BY <1>1, <1>2, Zenon

LEMMA TypesInitially ==
  PdInit => ClusterTypeOK /\ ConnTypeOK
<1> SUFFICES ASSUME PdInit PROVE ClusterTypeOK /\ ConnTypeOK
  BY Zenon
<1>1. ClusterTypeOK
  BY PdAssumption, Zenon DEF PdInit, ClusterInit, ClusterTypeOK
<1>2. PICK opened \in [Conns -> FirstRunning \cup {Nil}] :
        conn = [c \in Conns |-> [Closed EXCEPT !.store = opened[c], !.open = opened[c] # Nil]]
  BY Zenon DEF PdInit
<1>3. ASSUME NEW s \in StoreSet \cup {Nil}
      PROVE  LET f == [Closed EXCEPT !.store = s, !.open = s # Nil]
             IN  /\ f \in ConnT /\ f.pc = "idle" /\ f.region = Nil /\ f.msg = Nil /\ ~f.bound
                 /\ f.store = s /\ (s = Nil => ~f.open)
  BY Zenon DEF Closed, ConnT, Pcs
<1>4. \A c \in Conns : opened[c] \in StoreSet \cup {Nil}
  BY PdAssumption, Zenon
<1>5. ConnTypeOK
  BY <1>2, <1>3, <1>4, Zenon DEF ConnTypeOK, ConnOK
<1> QED
  BY <1>1, <1>5, Zenon

-----------------------------------------------------------------------------
(* Bound streams. *)

\* A step that binds nothing and leaves the bound streams their store.
LEMMA StreamFrame ==
  ASSUME ClusterTypeOK, BoundStreamIsAlive, UNCHANGED streams,
         \A c \in Conns : conn[c].bound => conn'[c].bound /\ conn'[c].store = conn[c].store
  PROVE  BoundStreamIsAlive'
  BY DEF BoundStreamIsAlive, ClusterTypeOK

\* What a handler that works on a heartbeat leaves alone.
LEMMA HandlerKeeps ==
  ASSUME ConnTypeOK, NEW c \in Conns,
         PutRead(c) \/ PutUnindex(c) \/ PutIndex(c) \/ PutStats(c) \/ Dispatch(c) \/ Send(c)
  PROVE  \E f : /\ Handler(c, f)
                /\ f.bound = conn[c].bound /\ f.store = conn[c].store /\ f.msg = conn[c].msg
                /\ f.region = Nil \/ (f.region = conn[c].region /\ f.view = conn[c].view)
<1> DEFINE h == conn[c]
           kept(f) == /\ Handler(c, f) /\ f.bound = h.bound /\ f.store = h.store /\ f.msg = h.msg
                      /\ f.region = Nil \/ (f.region = h.region /\ f.view = h.view)
<1>0. h \in ConnT
  BY Zenon DEF ConnTypeOK
<1>1. \/ \E pc, old : Handler(c, [h EXCEPT !.old = old, !.pc = pc])
      \/ \E pc : Handler(c, [h EXCEPT !.pc = pc])
      \/ Handler(c, Done(h))
  BY Zenon DEF PutRead, PutUnindex, PutIndex, PutStats, Dispatch, Send
<1>2. ASSUME NEW pc, NEW old, Handler(c, [h EXCEPT !.old = old, !.pc = pc]) PROVE \E f : kept(f)
  <2> DEFINE f == [h EXCEPT !.old = old, !.pc = pc]
  <2>1. /\ f.bound = h.bound /\ f.store = h.store /\ f.msg = h.msg
        /\ f.region = h.region /\ f.view = h.view
    BY <1>0, Zenon DEF ConnT
  <2>2. kept(f)
    BY <1>2, <2>1, Zenon
  <2> QED
    BY <2>2, Zenon
<1>3. ASSUME NEW pc, Handler(c, [h EXCEPT !.pc = pc]) PROVE \E f : kept(f)
  <2> DEFINE f == [h EXCEPT !.pc = pc]
  <2>1. /\ f.bound = h.bound /\ f.store = h.store /\ f.msg = h.msg
        /\ f.region = h.region /\ f.view = h.view
    BY <1>0, Zenon DEF ConnT
  <2>2. kept(f)
    BY <1>3, <2>1, Zenon
  <2> QED
    BY <2>2, Zenon
<1>4. ASSUME Handler(c, Done(h)) PROVE \E f : kept(f)
  <2>1. Done(h).bound = h.bound /\ Done(h).store = h.store /\ Done(h).msg = h.msg /\ Done(h).region = Nil
    BY <1>0, Zenon DEF Done, ConnT
  <2>2. kept(Done(h))
    BY <1>4, <2>1, Zenon
  <2> QED
    BY <2>2, Zenon
<1> QED
  BY <1>1, <1>2, <1>3, <1>4, Zenon

LEMMA StreamStep ==
  ASSUME ClusterTypeOK, ConnTypeOK, BoundStreamIsAlive, [PdNext]_pdVars
  PROVE  BoundStreamIsAlive'
<1>0. conn \in [Conns -> ConnT]
  BY Zenon DEF ConnTypeOK
<1>1. ASSUME NEW c \in Conns, ReceiveHeartbeat(c) PROVE BoundStreamIsAlive'
  <2> DEFINE h == conn[c]
             f == [h EXCEPT !.msg = Nil, !.bound = TRUE, !.pc = "read",
                            !.region = h.msg.region, !.view = h.msg.view]
  <2>1. h.store \in StoreSet
    BY <1>1, Zenon DEF ReceiveHeartbeat, ConnTypeOK, ConnOK, ConnT
  <2>2. f.store = h.store /\ f.bound
    BY <1>0, Zenon DEF ConnT
  <2>3. conn' = [conn EXCEPT ![c] = f] /\ (IF h.bound THEN UNCHANGED streams ELSE BindStream(h.store, c))
    BY <1>1, Zenon DEF ReceiveHeartbeat, Handler
  <2> HIDE DEF f
  <2>4. CASE h.bound
    BY <1>0, <2>2, <2>3, <2>4, StreamFrame, Zenon
  <2>5. CASE ~h.bound
    BY <1>0, <2>1, <2>2, <2>3, <2>5 DEF BindStream, BoundStreamIsAlive, ClusterTypeOK
  <2> QED
    BY <2>4, <2>5, Zenon
<1>2. ASSUME NEW c \in Conns, StreamEnds(c) PROVE BoundStreamIsAlive'
  BY <1>0, <1>2 DEF StreamEnds, Handler, UnbindStream, BoundStreamIsAlive, ClusterTypeOK
<1>3. ASSUME NEW c \in Conns, NEW s \in Leading, Connect(c, s) PROVE BoundStreamIsAlive'
  <2>1. ~conn[c].bound
    BY <1>3 DEF Connect, Closed
  <2> QED
    BY <1>0, <1>3, <2>1, StreamFrame, Zenon DEF Connect, OthersUnchanged
<1>4. ASSUME NEW c \in Conns, NEW r \in RegionSet, RegionHeartbeat(c, r) PROVE BoundStreamIsAlive'
  BY <1>0, <1>4, StreamFrame, Zenon DEF RegionHeartbeat, OthersUnchanged, ConnT
<1>5. ASSUME NEW s \in StoreSet, ProcessEnds(s) PROVE BoundStreamIsAlive'
  BY <1>0, <1>5, StreamFrame, Zenon DEF ProcessEnds, OthersUnchanged, ConnT
<1>6. ASSUME NEW c \in Conns,
             PutRead(c) \/ PutUnindex(c) \/ PutIndex(c) \/ PutStats(c) \/ Dispatch(c) \/ Send(c)
      PROVE  BoundStreamIsAlive'
  <2>1. PICK f : Handler(c, f) /\ f.bound = conn[c].bound /\ f.store = conn[c].store
    BY <1>6, HandlerKeeps, Zenon
  <2>2. UNCHANGED streams
    BY <1>6, Zenon DEF PutRead, PutUnindex, PutIndex, PutStats, Dispatch, Send
  <2> QED
    BY <1>0, <2>1, <2>2, StreamFrame DEF Handler
<1>7. CASE UNCHANGED <<conn, streams>>
  BY <1>7, StreamFrame, Zenon
<1> QED
  BY <1>1, <1>2, <1>3, <1>4, <1>5, <1>6, <1>7, Zenon
     DEF PdNext, HandlerStep, MemberChange, CaughtUp, LeaderChange, Change, OperatorAges, Bootstrap,
         RegisterStore, StoreHeartbeat, StoreSilent, Schedule, AddToController, PdOthers,
         OthersUnchanged, pdVars

\* A store's bound stream is one of its own whose handler is still alive
\* (HeartbeatStreams::bind_stream and unbind_stream), whatever streams of the
\* same store ended before.
THEOREM StreamsAreAlive == PdSpec => []BoundStreamIsAlive
<1> DEFINE Inv == ClusterTypeOK /\ ConnTypeOK /\ BoundStreamIsAlive
<1>1. PdInit => Inv
  BY TypesInitially, Zenon DEF PdInit, BoundStreamIsAlive
<1>2. Inv /\ [PdNext]_pdVars => Inv'
  BY ClusterTypeStep, ConnTypeStep, StreamStep, Zenon
<1> QED
  BY <1>1, <1>2, PTL DEF PdSpec

-----------------------------------------------------------------------------
(* The indexes. *)

\* The indexes hold what the regions say, or nothing, of region r.
Agree(r) ==
  \A s \in StoreSet :
    /\ r \in storeRegions[s] <=> regions[r] # Nil /\ s \in StoreIds(regions[r])
    /\ r \in storeLeaders[s] <=> regions[r] # Nil /\ s = regions[r].leader
Cleared(r) == \A s \in StoreSet : r \notin storeRegions[s] /\ r \notin storeLeaders[s]

Alone(r) == \A c, d \in Conns : conn[c].region = r /\ conn[d].region = r => c = d
Indexing(r) == \E c \in Conns : conn[c].region = r /\ conn[c].pc = "index"

\* The inductive form of IndexAgrees: put_region of a region that only one
\* handler works on finds the region it read unchanged, empties the indexes in
\* its second section and fills them in its third.
IndexOK(r) ==
  r \notin overlapped =>
    /\ Alone(r)
    /\ \A c \in Conns : conn[c].region = r /\ conn[c].pc = "unindex" => conn[c].old = regions[r]
    /\ IF Indexing(r) THEN Cleared(r) ELSE Agree(r)

\* What put_region looks at in a stream: nothing of another region changes, and
\* of this one only between steps outside its second and third section.
Unindexed(h) == h.pc \notin {"unindex", "index"}
SameIndexing(r, h, f) ==
  \/ h.region = f.region /\ h.pc = f.pc /\ h.old = f.old
  \/ h.region = f.region /\ Unindexed(h) /\ Unindexed(f)
  \/ h.region = r /\ f.region = Nil /\ Unindexed(h)
  \/ h.region # r /\ f.region # r

LEMMA IndexFrame ==
  ASSUME NEW r \in RegionSet, IndexOK(r),
         overlapped' = overlapped \/ r \in overlapped',
         regions'[r] = regions[r],
         \A s \in StoreSet : /\ r \in storeRegions[s] <=> r \in storeRegions'[s]
                             /\ r \in storeLeaders[s] <=> r \in storeLeaders'[s],
         \A c \in Conns : SameIndexing(r, conn[c], conn'[c])
  PROVE  IndexOK(r)'
<1>0. r # Nil
  BY PdAssumption, Zenon
<1> SUFFICES ASSUME r \notin overlapped, r \notin overlapped'
             PROVE  /\ Alone(r)'
                    /\ \A c \in Conns : conn'[c].region = r /\ conn'[c].pc = "unindex"
                                          => conn'[c].old = regions[r]
                    /\ IF Indexing(r)' THEN Cleared(r)' ELSE Agree(r)'
  BY Zenon DEF IndexOK
<1>1. \A c \in Conns : conn'[c].region = r => conn[c].region = r
  BY <1>0, Zenon DEF SameIndexing
<1>2. Alone(r)'
  BY <1>1, Zenon DEF IndexOK, Alone
<1>3. \A c \in Conns : conn'[c].region = r /\ conn'[c].pc = "unindex" => conn'[c].old = regions[r]
  BY <1>0, Zenon DEF SameIndexing, Unindexed, IndexOK
<1>4. Indexing(r)' <=> Indexing(r)
  BY <1>0, Zenon DEF SameIndexing, Unindexed, Indexing
<1>5. Cleared(r) => Cleared(r)'
  BY Zenon DEF Cleared
<1>6. Agree(r) => Agree(r)'
  BY Zenon DEF Agree
<1> QED
  BY <1>2, <1>3, <1>4, <1>5, <1>6, Zenon DEF IndexOK

\* One step of put_region on region r; the other regions keep their indexes.
LEMMA UnindexStep ==
  ASSUME ClusterTypeOK, ConnTypeOK, NEW c \in Conns, PutUnindex(c), \A r \in RegionSet : IndexOK(r),
         NEW r \in RegionSet
  PROVE  IndexOK(r)'
<1> DEFINE h == conn[c]
           f == [h EXCEPT !.old = Nil, !.pc = "index"]
<1>1. h \in ConnT /\ h.region \in RegionSet /\ h.old \in Views /\ conn \in [Conns -> ConnT]
  BY Zenon DEF ConnTypeOK, ConnOK, ConnT, PutUnindex
<1>2. conn' = [conn EXCEPT ![c] = f] /\ f.region = h.region /\ f.pc = "index" /\ h.pc = "unindex"
  BY <1>1, Zenon DEF PutUnindex, Handler, ConnT
<1>3. Unindex(h.region, h.old) /\ UNCHANGED overlapped
  BY Zenon DEF PutUnindex
<1>4. StoreIds(h.old) \subseteq StoreSet /\ h.old.leader \in StoreSet /\ h.old # Nil
  BY <1>1, ViewParts, Zenon
<1> HIDE DEF f
<1>5. CASE r # h.region
  <2>1. \A s \in StoreSet : /\ r \in storeRegions[s] <=> r \in storeRegions'[s]
                            /\ r \in storeLeaders[s] <=> r \in storeLeaders'[s]
    BY <1>3, <1>5, Zenon DEF Unindex, ClusterTypeOK
  <2>2. \A d \in Conns : SameIndexing(r, conn[d], conn'[d])
    BY <1>1, <1>2, <1>5, Zenon DEF SameIndexing
  <2> QED
    BY <1>3, <2>1, <2>2, IndexFrame, Zenon DEF Unindex
<1>6. CASE r = h.region
  <2> SUFFICES ASSUME r \notin overlapped
               PROVE  /\ Alone(r)' /\ Indexing(r)' /\ Cleared(r)'
                      /\ \A d \in Conns : conn'[d].region = r => conn'[d].pc = "index"
    BY <1>3, Zenon DEF IndexOK
  <2>1. Alone(r) /\ h.old = regions[r]
    BY <1>2, <1>6, Zenon DEF IndexOK
  <2>2. \A d \in Conns : conn'[d].region = r => d = c
    BY <1>1, <1>2, <1>6, <2>1, Zenon DEF Alone
  <2>3. ~Indexing(r)
    BY <1>2, <1>6, <2>1, Zenon DEF Indexing, Alone
  <2>4. Agree(r)
    BY <2>3, Zenon DEF IndexOK
  <2>5. Cleared(r)'
    BY <1>3, <1>4, <1>6, <2>1, <2>4, Zenon DEF Unindex, Cleared, Agree, ClusterTypeOK
  <2> QED
    BY <1>1, <1>2, <1>6, <2>2, <2>5, Zenon DEF Alone, Indexing
<1> QED
  BY <1>5, <1>6, Zenon

LEMMA IndexStep ==
  ASSUME ClusterTypeOK, ConnTypeOK, NEW c \in Conns, PutIndex(c), \A r \in RegionSet : IndexOK(r),
         NEW r \in RegionSet
  PROVE  IndexOK(r)'
<1> DEFINE h == conn[c]
           f == [h EXCEPT !.pc = "stats"]
           v == h.view
<1>1. h \in ConnT /\ h.region \in RegionSet /\ v \in Views /\ conn \in [Conns -> ConnT]
  BY Zenon DEF ConnTypeOK, ConnOK, ConnT, PutIndex
<1>2. conn' = [conn EXCEPT ![c] = f] /\ f.region = h.region /\ f.pc = "stats" /\ h.pc = "index"
  BY <1>1, Zenon DEF PutIndex, Handler, ConnT
<1>3. Index(h.region, v) /\ UNCHANGED overlapped
  BY Zenon DEF PutIndex
<1>4. StoreIds(v) \subseteq StoreSet /\ v.leader \in StoreSet /\ v # Nil
  BY <1>1, ViewParts, Zenon
<1> HIDE DEF f, v
<1>5. CASE r # h.region
  <2>1. \A s \in StoreSet : /\ r \in storeRegions[s] <=> r \in storeRegions'[s]
                            /\ r \in storeLeaders[s] <=> r \in storeLeaders'[s]
    BY <1>3, <1>5, Zenon DEF Index, ClusterTypeOK
  <2>2. \A d \in Conns : SameIndexing(r, conn[d], conn'[d])
    BY <1>1, <1>2, <1>5, Zenon DEF SameIndexing
  <2>3. regions'[r] = regions[r]
    BY <1>3, <1>5, Zenon DEF Index, ClusterTypeOK
  <2> QED
    BY <1>3, <2>1, <2>2, <2>3, IndexFrame, Zenon
<1>6. CASE r = h.region
  <2> SUFFICES ASSUME r \notin overlapped
               PROVE  /\ Alone(r)' /\ Agree(r)'
                      /\ \A d \in Conns : conn'[d].region = r => conn'[d].pc = "stats"
    BY <1>3, Zenon DEF IndexOK, Indexing
  <2>1. Alone(r) /\ Cleared(r)
    BY <1>2, <1>6, Zenon DEF IndexOK, Indexing
  <2>2. \A d \in Conns : conn'[d].region = r => d = c
    BY <1>1, <1>2, <1>6, <2>1, Zenon DEF Alone
  <2>3. regions'[r] = v
    BY <1>3, <1>6, Zenon DEF Index, ClusterTypeOK
  <2>4. Agree(r)'
    BY <1>3, <1>4, <1>6, <2>1, <2>3, Zenon DEF Index, Cleared, Agree, ClusterTypeOK
  <2> QED
    BY <1>1, <1>2, <1>6, <2>2, <2>4, Zenon DEF Alone
<1> QED
  BY <1>5, <1>6, Zenon

\* The first section reads the region; a new heartbeat is the only one of its
\* region, or the region is remembered as overlapped.
LEMMA ReadStep ==
  ASSUME ConnTypeOK, NEW c \in Conns, PutRead(c), NEW r \in RegionSet, IndexOK(r)
  PROVE  IndexOK(r)'
<1> DEFINE h == conn[c]
           f == [h EXCEPT !.old = regions[h.region],
                          !.pc = IF regions[h.region] = Nil THEN "index" ELSE "unindex"]
<1>1. h \in ConnT /\ h.region \in RegionSet /\ conn \in [Conns -> ConnT]
  BY Zenon DEF ConnTypeOK, ConnOK, ConnT, PutRead
<1>2. /\ conn' = [conn EXCEPT ![c] = f] /\ h.pc = "read"
      /\ UNCHANGED <<regions, storeRegions, storeLeaders, overlapped>>
  BY Zenon DEF PutRead, Handler, clusterVars
<1>3. /\ f.region = h.region /\ f.old = regions[h.region]
      /\ f.pc = IF regions[h.region] = Nil THEN "index" ELSE "unindex"
  BY <1>1, Zenon DEF ConnT
<1> HIDE DEF f
<1>4. CASE r # h.region
  <2>1. \A d \in Conns : SameIndexing(r, conn[d], conn'[d])
    BY <1>1, <1>2, <1>3, <1>4, Zenon DEF SameIndexing
  <2> QED
    BY <1>2, <2>1, IndexFrame, Zenon
<1>5. CASE r = h.region
  <2> SUFFICES ASSUME r \notin overlapped
               PROVE  /\ Alone(r)'
                      /\ \A d \in Conns : conn'[d].region = r /\ conn'[d].pc = "unindex"
                                            => conn'[d].old = regions[r]
                      /\ IF Indexing(r)' THEN Cleared(r)' ELSE Agree(r)'
    BY <1>2, Zenon DEF IndexOK
  <2>1. Alone(r)
    BY Zenon DEF IndexOK
  <2>2. \A d \in Conns : conn'[d].region = r <=> d = c
    BY <1>1, <1>2, <1>3, <1>5, <2>1, Zenon DEF Alone
  <2>3. ~Indexing(r)
    BY <1>2, <1>5, <2>1, Zenon DEF Indexing, Alone
  <2>4. Agree(r)
    BY <2>3, Zenon DEF IndexOK
  <2>5. Agree(r)' /\ (regions[r] = Nil => Cleared(r)')
    BY <1>2, <2>4, Zenon DEF Agree, Cleared
  <2>6. Indexing(r)' => regions[r] = Nil
    BY <1>1, <1>2, <1>3, <1>5, <2>2, Zenon DEF Indexing
  <2> QED
    BY <1>1, <1>2, <1>3, <1>5, <2>2, <2>5, <2>6, Zenon DEF Alone
<1> QED
  BY <1>4, <1>5, Zenon

LEMMA ReceiveStep ==
  ASSUME ConnTypeOK, NEW c \in Conns, ReceiveHeartbeat(c), NEW r \in RegionSet, IndexOK(r)
  PROVE  IndexOK(r)'
<1> DEFINE h == conn[c]
           f == [h EXCEPT !.msg = Nil, !.bound = TRUE, !.pc = "read",
                          !.region = h.msg.region, !.view = h.msg.view]
           q == h.msg.region
<1>1. h \in ConnT /\ q \in RegionSet /\ h.region = Nil /\ h.pc = "idle" /\ conn \in [Conns -> ConnT]
  BY Zenon DEF ConnTypeOK, ConnOK, ConnT, ReceiveHeartbeat, MsgT
<1>2. /\ conn' = [conn EXCEPT ![c] = f]
      /\ UNCHANGED <<regions, storeRegions, storeLeaders>>
      /\ overlapped' = IF \E d \in Conns : conn[d].region = q THEN overlapped \cup {q} ELSE overlapped
  BY Zenon DEF ReceiveHeartbeat, Handler, clusterVars
<1>3. f.region = q /\ f.pc = "read"
  BY <1>1, Zenon DEF ConnT
<1> HIDE DEF f, q
<1>4. r # Nil
  BY PdAssumption, Zenon
<1>5. CASE r # q
  <2>1. \A d \in Conns : SameIndexing(r, conn[d], conn'[d])
    BY <1>1, <1>2, <1>3, <1>4, <1>5, Zenon DEF SameIndexing
  <2>2. r \in overlapped' <=> r \in overlapped
    BY <1>2, <1>5, Zenon
  <2>3. CASE r \in overlapped
    BY <2>2, <2>3, Zenon DEF IndexOK
  <2>4. CASE r \notin overlapped
    <3>1. \A d \in Conns : (conn'[d].region = r <=> conn[d].region = r)
                           /\ (conn[d].region = r => conn'[d] = conn[d])
      BY <1>1, <1>2, <1>3, <1>4, <1>5, Zenon
    <3>2. Indexing(r)' <=> Indexing(r)
      BY <3>1, Zenon DEF Indexing
    <3>3. (Cleared(r) => Cleared(r)') /\ (Agree(r) => Agree(r)')
      BY <1>2, Zenon DEF Cleared, Agree
    <3> QED
      BY <1>2, <2>4, <3>1, <3>2, <3>3, Zenon DEF IndexOK, Alone
  <2> QED
    BY <2>3, <2>4, Zenon
<1>6. CASE r = q
  <2> SUFFICES ASSUME r \notin overlapped'
               PROVE  /\ Alone(r)' /\ ~Indexing(r)' /\ Agree(r)'
                      /\ \A d \in Conns : conn'[d].region = r => conn'[d].pc # "unindex"
    BY Zenon DEF IndexOK
  <2>1. r \notin overlapped /\ \A d \in Conns : conn[d].region # r
    BY <1>2, <1>6, Zenon
  <2>2. Agree(r)
    BY <2>1, Zenon DEF IndexOK, Indexing
  <2>3. \A d \in Conns : conn'[d].region = r => d = c /\ conn'[d].pc = "read"
    BY <1>1, <1>2, <1>3, <2>1, Zenon
  <2> QED
    BY <1>2, <2>2, <2>3, Zenon DEF Agree, Alone, Indexing
<1> QED
  BY <1>5, <1>6, Zenon

LEMMA IndexesStep ==
  ASSUME ClusterTypeOK, ConnTypeOK, [PdNext]_pdVars, \A r \in RegionSet : IndexOK(r)
  PROVE  \A r \in RegionSet : IndexOK(r)'
<1> TAKE r \in RegionSet
<1> DEFINE kept == <<regions, storeRegions, storeLeaders, overlapped>>
<1>0. conn \in [Conns -> ConnT]
  BY Zenon DEF ConnTypeOK
<1>1. ASSUME NEW c \in Conns, ReceiveHeartbeat(c) \/ PutRead(c) \/ PutUnindex(c) \/ PutIndex(c)
      PROVE  IndexOK(r)'
  BY <1>1, ReceiveStep, ReadStep, UnindexStep, IndexStep, Zenon
<1>2. ASSUME UNCHANGED kept, \A c \in Conns : SameIndexing(r, conn[c], conn'[c])
      PROVE  IndexOK(r)'
  BY <1>2, IndexFrame, Zenon
<1>3. ASSUME NEW c \in Conns, StreamEnds(c) PROVE IndexOK(r)'
  <2>1. conn[c].region = Nil /\ Closed.region = Nil /\ conn' = [conn EXCEPT ![c] = Closed]
    BY <1>3, Zenon DEF StreamEnds, Handler, ConnTypeOK, ConnOK, Closed
  <2>2. \A d \in Conns : SameIndexing(r, conn[d], conn'[d])
    BY <1>0, <2>1, PdAssumption, Zenon DEF SameIndexing
  <2> QED
    BY <1>2, <1>3, <2>2, Zenon DEF StreamEnds, clusterVars
<1>4. ASSUME NEW c \in Conns, PutStats(c) \/ Dispatch(c) \/ Send(c) PROVE IndexOK(r)'
  <2> DEFINE h == conn[c]
  <2>1. UNCHANGED kept /\ h.pc \in {"stats", "dispatch", "send"} /\ h \in ConnT
    BY <1>0, <1>4, Zenon DEF PutStats, Dispatch, Send, clusterVars, Recount
  <2>2. PICK f : conn' = [conn EXCEPT ![c] = f] /\ Unindexed(f) /\ f.region \in {h.region, Nil}
    <3>1. Unindexed(Done(h)) /\ Done(h).region = Nil
      BY <2>1, Zenon DEF Done, ConnT, Unindexed
    <3>2. ASSUME NEW pc \in {"dispatch", "send"}
          PROVE  Unindexed([h EXCEPT !.pc = pc]) /\ [h EXCEPT !.pc = pc].region = h.region
      BY <2>1, Zenon DEF ConnT, Unindexed
    <3> QED
      BY <1>4, <3>1, <3>2, Zenon DEF PutStats, Dispatch, Send, Handler
  <2>3. Unindexed(h) /\ r # Nil
    BY <2>1, PdAssumption, Zenon DEF Unindexed
  <2>4. \A d \in Conns : SameIndexing(r, conn[d], conn'[d])
    BY <1>0, <2>2, <2>3, Zenon DEF SameIndexing
  <2> QED
    BY <1>2, <2>1, <2>4, Zenon
<1>5. ASSUME NEW c \in Conns, NEW s \in Leading, Connect(c, s) PROVE IndexOK(r)'
  <2>1. \A d \in Conns : SameIndexing(r, conn[d], conn'[d])
    BY <1>0, <1>5, Zenon DEF SameIndexing, Connect, ConnT
  <2> QED
    BY <1>2, <1>5, <2>1, Zenon DEF Connect, OthersUnchanged, clusterVars
<1>6. ASSUME NEW c \in Conns, NEW q \in RegionSet, RegionHeartbeat(c, q) PROVE IndexOK(r)'
  <2>1. \A d \in Conns : SameIndexing(r, conn[d], conn'[d])
    BY <1>0, <1>6 DEF SameIndexing, RegionHeartbeat, ConnT
  <2> QED
    BY <1>2, <1>6, <2>1, Zenon DEF RegionHeartbeat, OthersUnchanged, clusterVars
<1>7. ASSUME NEW s \in StoreSet, ProcessEnds(s) PROVE IndexOK(r)'
  <2>1. \A d \in Conns : SameIndexing(r, conn[d], conn'[d])
    BY <1>0, <1>7, Zenon DEF SameIndexing, ProcessEnds, ConnT
  <2> QED
    BY <1>2, <1>7, <2>1, Zenon DEF ProcessEnds, OthersUnchanged, clusterVars
<1>8. CASE UNCHANGED <<conn, kept>>
  BY <1>2, <1>8, Zenon DEF SameIndexing
<1> QED
  BY <1>1, <1>3, <1>4, <1>5, <1>6, <1>7, <1>8, Zenon
     DEF PdNext, HandlerStep, MemberChange, CaughtUp, LeaderChange, Change, OperatorAges, Bootstrap,
         StateBootstrap, RegisterStore, PutStore, StoreHeartbeat, HandleStoreHeartbeat, StoreSilent,
         Schedule, AddToController, PdOthers, OthersUnchanged, clusterVars, pdVars

LEMMA IndexInitially ==
  PdInit => \A r \in RegionSet : IndexOK(r)
<1> SUFFICES ASSUME PdInit, NEW r \in RegionSet PROVE IndexOK(r)
  BY Zenon
<1>1. \A c \in Conns : conn[c].region = Nil
  BY ConnInitially, Zenon
<1>2. Alone(r) /\ ~Indexing(r) /\ Agree(r) /\ r # Nil
  BY <1>1, PdAssumption, Zenon DEF PdInit, ClusterInit, Alone, Indexing, Agree
<1> QED
  BY <1>1, <1>2, Zenon DEF IndexOK

\* put_region keeps store_regions and store_leaders in agreement with the
\* regions: whenever no put_region of a region is under way, they hold exactly
\* what the region says, if no two heartbeats of it were ever handled at once.
THEOREM IndexesAgree == PdSpec => []IndexAgrees
<1> DEFINE Inv == ClusterTypeOK /\ ConnTypeOK /\ \A r \in RegionSet : IndexOK(r)
<1>1. PdInit => Inv
  BY TypesInitially, IndexInitially, Zenon
<1>2. Inv /\ [PdNext]_pdVars => Inv'
  BY ClusterTypeStep, ConnTypeStep, IndexesStep, Zenon
<1>3. Inv => IndexAgrees
  BY Zenon DEF IndexAgrees, IndexOK, Indexing, Agree, PutPcs
<1> QED
  BY <1>1, <1>2, <1>3, PTL DEF PdSpec

-----------------------------------------------------------------------------
(* Scaling down. *)

IsRemoval(op) == \E s \in StoreSet : op.steps = <<RemovePeer(s)>>

\* Schedulers propose operators for regions PD knows, with their epoch; a
\* removal is proposed for a region with more than the minimum.
LEMMA NewOperatorType ==
  ASSUME ClusterTypeOK, NEW r \in Known(RegionSet), NEW kind \in {"add", "remove", "leader", "move"},
         NEW steps \in Seq(StepT), NEW op, op = NewOperator(r, kind, steps)
  PROVE  /\ op \in OperatorT /\ op.region = r /\ op.kind = kind /\ op.steps = steps
         /\ r \in RegionSet /\ regions[r] \in Views /\ op.conf = regions[r].conf
<1>1. r \in RegionSet /\ regions[r] \in Views /\ regions[r].conf \in Nat
  BY ViewParts, Zenon DEF ClusterTypeOK, Known
<1> QED
  BY <1>1, Zenon DEF NewOperator, OperatorT

Proposed(op) ==
  /\ op \in OperatorT /\ regions[op.region] \in Views /\ op.conf = regions[op.region].conf
  /\ op.kind = "remove" => /\ IsRemoval(op)
                           /\ Cardinality(StoreIds(regions[op.region])) > MinPeers

LEMMA ProposalsFit ==
  ASSUME ClusterTypeOK, NEW sch \in SchedulerSet, NEW op \in Proposals(sch)
  PROVE  Proposed(op)
<1>0. /\ Usable \subseteq StoreSet
      /\ \A s \in StoreSet : Known(storeRegions[s]) \subseteq Known(RegionSet)
                             /\ Known(storeLeaders[s]) \subseteq Known(RegionSet)
      /\ \A r \in Known(RegionSet) : StoreIds(regions[r]) \subseteq StoreSet
  BY ViewParts, Zenon DEF Usable, Registered, Known, ClusterTypeOK
<1>1. /\ \A s \in StoreSet, id \in PeerIds : AddPeer(s, id) \in StepT
      /\ \A s \in StoreSet : RemovePeer(s) \in StepT /\ TransferLeader(s) \in StepT
  BY Zenon DEF AddPeer, RemovePeer, TransferLeader, StepT
<1>2. ASSUME op \in ScaleUp PROVE Proposed(op)
  <2>1. PICK r \in Known(RegionSet), t \in StoreSet, id \in PeerIds :
          op = NewOperator(r, "add", <<AddPeer(t, id)>>)
    <3> DEFINE free(r) == Usable \ StoreIds(regions[r])
               best(r) == {x \in free(r) : ~\E y \in free(r) : Heavier(x, y)}
    <3>1. PICK r \in Known(RegionSet) : op \in {AddOperator(r, t, id) : t \in best(r), id \in PeerIds}
      BY <1>2, SMT DEF ScaleUp
    <3>2. best(r) \subseteq StoreSet
      BY <1>0, Zenon
    <3>3. PICK t \in best(r), id \in PeerIds : op = AddOperator(r, t, id)
      BY <3>1
    <3> QED
      BY <3>2, <3>3, Zenon DEF AddOperator
  <2> DEFINE steps == <<AddPeer(t, id)>>
             kind == "add"
  <2>2. /\ steps \in Seq(StepT) /\ kind \in {"add", "remove", "leader", "move"}
        /\ op = NewOperator(r, kind, steps)
    BY <1>1, <2>1
  <2> HIDE DEF steps, kind
  <2>3. /\ op \in OperatorT /\ op.region = r /\ op.kind = kind /\ op.steps = steps
        /\ regions[r] \in Views /\ op.conf = regions[r].conf
    BY <2>2, NewOperatorType
  <2> QED
    BY <2>1, <2>3, Zenon DEF Proposed, steps, kind
<1>3. ASSUME op \in ScaleDown PROVE Proposed(op)
  <2>1. PICK r \in Known(RegionSet), s \in StoreSet :
          /\ op = NewOperator(r, "remove", <<RemovePeer(s)>>)
          /\ Cardinality(StoreIds(regions[r])) > MinPeers
    <3> DEFINE followers(r) == StoreIds(regions[r]) \ {regions[r].leader}
               first(r) == {x \in followers(r) : followers(r) \subseteq Registered =>
                                                ~\E y \in followers(r) : Heavier(y, x)}
    <3>1. PICK r \in Known(RegionSet) :
            Cardinality(StoreIds(regions[r])) > MinPeers /\ op \in {RemoveOperator(r, s) : s \in first(r)}
      BY <1>3, Zenon DEF ScaleDown
    <3>2. first(r) \subseteq StoreSet
      BY <1>0, Zenon
    <3>3. PICK s \in first(r) : op = RemoveOperator(r, s)
      BY <3>1, Zenon
    <3> QED
      BY <3>1, <3>2, <3>3, Zenon DEF RemoveOperator
  <2> DEFINE steps == <<RemovePeer(s)>>
             kind == "remove"
  <2>2. /\ steps \in Seq(StepT) /\ kind \in {"add", "remove", "leader", "move"}
        /\ op = NewOperator(r, kind, steps)
    BY <1>1, <2>1
  <2> HIDE DEF steps, kind
  <2>3. /\ op \in OperatorT /\ op.region = r /\ op.kind = kind /\ op.steps = steps
        /\ regions[r] \in Views /\ op.conf = regions[r].conf
    BY <2>2, NewOperatorType
  <2> QED
    BY <2>1, <2>3, Zenon DEF Proposed, steps, kind, IsRemoval
<1>4. ASSUME op \in BalanceRegionProposals PROVE Proposed(op)
  <2>1. PICK s \in StoreSet : op \in MovesFrom(s)
    BY <1>0, <1>4, Zenon DEF BalanceRegionProposals
  <2>2. Drawn(s) \subseteq Known(RegionSet)
    BY <1>0, Zenon DEF Drawn, PendingRegions, FollowerRegions, LeaderRegions
  <2>3. PICK r \in Known(RegionSet), t \in StoreSet, id \in PeerIds : op = MoveOperator(r, s, t, id)
    BY <1>0, <2>1, <2>2 DEF MovesFrom, MoveTargets
  <2>4. PICK steps \in Seq(StepT) : op = NewOperator(r, "move", steps)
    <3>1. /\ <<AddPeer(t, id), TransferLeader(t), RemovePeer(s)>> \in Seq(StepT)
          /\ <<AddPeer(t, id), RemovePeer(s)>> \in Seq(StepT)
      BY <1>1
    <3> QED
      BY <2>3, <3>1, Zenon DEF MoveOperator
  <2> QED
    BY <2>4, NewOperatorType DEF Proposed
<1>5. ASSUME op \in BalanceLeaderProposals PROVE Proposed(op)
  <2>1. PICK s \in StoreSet : op \in TransfersFrom(s)
    BY <1>0, <1>5, Zenon DEF BalanceLeaderProposals
  <2>2. PICK r \in Known(RegionSet), t \in StoreSet : op = NewOperator(r, "leader", <<TransferLeader(t)>>)
    <3> DEFINE best(r) == {x \in TransferTargets(r, s) :
                              ~\E y \in TransferTargets(r, s) : stores[y].lc < stores[x].lc}
    <3>1. PICK r \in LeaderRegions(s) : op \in {LeaderOperator(r, t) : t \in best(r)}
      BY <2>1, Zenon DEF TransfersFrom
    <3>2. best(r) \subseteq StoreSet /\ r \in Known(RegionSet)
      BY <1>0, Zenon DEF TransferTargets, LeaderRegions
    <3>3. PICK t \in best(r) : op = LeaderOperator(r, t)
      BY <3>1, Zenon
    <3> QED
      BY <3>2, <3>3, Zenon DEF LeaderOperator
  <2> DEFINE steps == <<TransferLeader(t)>>
             kind == "leader"
  <2>3. /\ steps \in Seq(StepT) /\ kind \in {"add", "remove", "leader", "move"}
        /\ op = NewOperator(r, kind, steps)
    BY <1>1, <2>2
  <2> HIDE DEF steps, kind
  <2>4. /\ op \in OperatorT /\ op.region = r /\ op.kind = kind /\ op.steps = steps
        /\ regions[r] \in Views /\ op.conf = regions[r].conf
    BY <2>3, NewOperatorType
  <2> QED
    BY <2>2, <2>4, Zenon DEF Proposed, steps, kind
<1>6. op \in ScaleUp \cup ScaleDown \cup BalanceRegionProposals \cup BalanceLeaderProposals
  BY PdAssumption, Zenon DEF Proposals, ScaleProposals
<1> QED
  BY <1>2, <1>3, <1>4, <1>5, <1>6, Zenon

\* The views of region r that are anywhere in the system.
Seen(r, v) ==
  \/ v = truth[r]
  \/ v = regions[r]
  \/ \E c \in Conns : conn[c].region = r /\ v = conn[c].view
  \/ \E c \in Conns : conn[c].msg # Nil /\ conn[c].msg.region = r /\ v = conn[c].msg.view

\* The epoch of a view tells the stores with a peer.
SeenOK(r) ==
  \A v \in Views : Seen(r, v) =>
    /\ v.conf <= truth[r].conf
    /\ \A w \in Views : Seen(r, w) /\ w.conf = v.conf => StoreIds(w) = StoreIds(v)

\* Views are passed on; only the Raft groups make new ones.
SeenShrinks(r) ==
  truth'[r] = truth[r] /\ \A v \in Views : Seen(r, v)' => Seen(r, v)

LEMMA SeenFrame ==
  ASSUME NEW r \in RegionSet, truth'[r] = truth[r],
         regions'[r] = regions[r] \/ Seen(r, regions'[r]),
         \A c \in Conns :
           /\ conn'[c].region = r => \/ conn[c].region = r /\ conn'[c].view = conn[c].view
                                     \/ Seen(r, conn'[c].view)
           /\ conn'[c].msg \in {Nil, conn[c].msg}
                \/ (conn'[c].msg.region = r => Seen(r, conn'[c].msg.view))
  PROVE  SeenShrinks(r)
  BY DEF Seen, SeenShrinks

LEMMA ViewsPassedOn ==
  ASSUME ClusterTypeOK, ConnTypeOK, [PdNext]_pdVars, NEW r \in RegionSet,
         ~\E q \in RegionSet : MemberChange(q) \/ CaughtUp(q) \/ LeaderChange(q)
  PROVE  SeenShrinks(r)
<1>0. conn \in [Conns -> ConnT] /\ r # Nil
  BY PdAssumption, Zenon DEF ConnTypeOK
<1>1. ASSUME NEW c \in Conns, ReceiveHeartbeat(c) PROVE SeenShrinks(r)
  <2> DEFINE h == conn[c]
             f == [h EXCEPT !.msg = Nil, !.bound = TRUE, !.pc = "read",
                            !.region = h.msg.region, !.view = h.msg.view]
  <2>1. f.region = h.msg.region /\ f.view = h.msg.view /\ f.msg = Nil
    BY <1>0, Zenon DEF ConnT
  <2>2. /\ conn' = [conn EXCEPT ![c] = f] /\ h.msg # Nil
        /\ UNCHANGED <<truth, regions>>
    BY <1>1, Zenon DEF ReceiveHeartbeat, Handler, clusterVars, processVars
  <2> HIDE DEF f
  <2>3. h.msg.region = r => Seen(r, h.msg.view)
    BY <2>2, Zenon DEF Seen
  <2>4. \A d \in Conns : d # c => conn'[d] = conn[d]
    BY <1>0, <2>2, Zenon
  <2>5. conn'[c] = f
    BY <1>0, <2>2, Zenon
  <2> QED
    BY <2>1, <2>2, <2>3, <2>4, <2>5, SeenFrame, Zenon
<1>2. ASSUME NEW c \in Conns, StreamEnds(c) PROVE SeenShrinks(r)
  <2>1. conn' = [conn EXCEPT ![c] = Closed] /\ Closed.region = Nil /\ Closed.msg = Nil
    BY <1>2, Zenon DEF StreamEnds, Handler, Closed
  <2> QED
    BY <1>0, <1>2, <2>1, SeenFrame, Zenon DEF StreamEnds, clusterVars, processVars
<1>3. ASSUME NEW c \in Conns, PutIndex(c) PROVE SeenShrinks(r)
  <2> DEFINE h == conn[c]
             f == [h EXCEPT !.pc = "stats"]
  <2>1. f.region = h.region /\ f.view = h.view /\ f.msg = h.msg
    BY <1>0, Zenon DEF ConnT
  <2>2. conn' = [conn EXCEPT ![c] = f] /\ Index(h.region, h.view) /\ UNCHANGED truth
    BY <1>3, Zenon DEF PutIndex, Handler, processVars
  <2> HIDE DEF f
  <2>3. regions'[r] = regions[r] \/ Seen(r, regions'[r])
    BY <2>2, Zenon DEF Index, ClusterTypeOK, Seen
  <2> QED
    BY <1>0, <2>1, <2>2, <2>3, SeenFrame, Zenon
<1>4. ASSUME NEW c \in Conns,
             PutRead(c) \/ PutUnindex(c) \/ PutStats(c) \/ Dispatch(c) \/ Send(c)
      PROVE  SeenShrinks(r)
  <2> DEFINE h == conn[c]
  <2>1. UNCHANGED <<truth, regions>>
    BY <1>4, Zenon DEF PutRead, PutUnindex, Unindex, PutStats, Recount, Dispatch, Send, clusterVars, processVars
  <2>2. PICK f : /\ Handler(c, f) /\ f.msg = h.msg
                 /\ f.region = Nil \/ (f.region = h.region /\ f.view = h.view)
    BY <1>4, HandlerKeeps, Zenon
  <2> QED
    BY <1>0, <2>1, <2>2, SeenFrame, Zenon DEF Handler
<1>5. ASSUME NEW c \in Conns, NEW s \in Leading, Connect(c, s) PROVE SeenShrinks(r)
  <2>1. \A d \in Conns : /\ conn'[d].region = conn[d].region /\ conn'[d].view = conn[d].view
                         /\ conn'[d].msg = conn[d].msg
    BY <1>0, <1>5, Zenon DEF Connect, ConnT
  <2> QED
    BY <1>5, <2>1, SeenFrame, Zenon DEF Connect, OthersUnchanged, clusterVars
<1>6. ASSUME NEW c \in Conns, NEW q \in RegionSet, RegionHeartbeat(c, q) PROVE SeenShrinks(r)
  <2> DEFINE m == [region |-> q, view |-> truth[q]]
  <2>1. conn' = [conn EXCEPT ![c].msg = m] /\ UNCHANGED <<truth, regions>>
    BY <1>6, Zenon DEF RegionHeartbeat, OthersUnchanged, clusterVars
  <2>2. m.region = r => Seen(r, m.view)
    BY Zenon DEF Seen
  <2> HIDE DEF m
  <2>3. \A d \in Conns : /\ conn'[d].region = conn[d].region /\ conn'[d].view = conn[d].view
                         /\ conn'[d].msg = IF d = c THEN m ELSE conn[d].msg
    BY <1>0, <2>1, Zenon DEF ConnT
  <2> QED
    BY <2>1, <2>2, <2>3, SeenFrame, Zenon
<1>7. ASSUME NEW s \in StoreSet, ProcessEnds(s) PROVE SeenShrinks(r)
  <2>1. \A d \in Conns : /\ conn'[d].region = conn[d].region /\ conn'[d].view = conn[d].view
                         /\ conn'[d].msg = conn[d].msg
    BY <1>0, <1>7, Zenon DEF ProcessEnds, ConnT
  <2> QED
    BY <1>7, <2>1, SeenFrame, Zenon DEF ProcessEnds, OthersUnchanged, clusterVars
<1>8. CASE UNCHANGED <<conn, truth, regions>>
  BY <1>8, SeenFrame, Zenon
<1> QED
  BY <1>1, <1>2, <1>3, <1>4, <1>5, <1>6, <1>7, <1>8, Zenon
     DEF PdNext, HandlerStep, OperatorAges, Bootstrap,
         StateBootstrap, RegisterStore, PutStore, StoreHeartbeat, HandleStoreHeartbeat, StoreSilent,
         Schedule, AddToController, PdOthers, OthersUnchanged, clusterVars, processVars, pdVars

LEMMA SeenAreViews ==
  ASSUME ClusterTypeOK, ConnTypeOK, NEW r \in RegionSet
  PROVE  /\ truth[r] \in Views /\ Seen(r, truth[r])
         /\ Seen(r, regions[r])
         /\ \A c \in Conns : conn[c].region = r => conn[c].view \in Views /\ Seen(r, conn[c].view)
<1>1. \A c \in Conns : conn[c].region = r => conn[c].view \in Views
  BY PdAssumption, Zenon DEF ConnTypeOK, ConnOK, ConnT
<1> QED
  BY <1>1, Zenon DEF ClusterTypeOK, Seen

\* A removal was decided when every view of its epoch had more than the minimum,
\* and keeps that: later views have later epochs.
Decided(op) ==
  op.kind = "remove" =>
    /\ IsRemoval(op)
    /\ op.conf <= truth[op.region].conf
    /\ \A v \in Views : Seen(op.region, v) /\ v.conf = op.conf => Cardinality(StoreIds(v)) > MinPeers

\* What the Raft groups change is seen with a new epoch or has the same stores.
LEMMA SeenStep ==
  ASSUME ClusterTypeOK, ConnTypeOK, [PdNext]_pdVars, NEW r \in RegionSet, SeenOK(r)
  PROVE  /\ SeenOK(r)'
         /\ truth[r].conf \in Nat /\ truth'[r].conf \in Nat /\ truth[r].conf <= truth'[r].conf
         /\ \A v \in Views : Seen(r, v)' =>
              \/ Seen(r, v)
              \/ v.conf > truth[r].conf
              \/ v.conf = truth[r].conf /\ StoreIds(v) = StoreIds(truth[r])
<1>0. /\ truth[r] \in Views /\ Seen(r, truth[r]) /\ truth[r].conf \in Nat
      /\ \A v \in Views : v.conf \in Nat
  BY SeenAreViews, ViewParts, Zenon
<1>1. CASE ~\E q \in RegionSet : MemberChange(q) \/ CaughtUp(q) \/ LeaderChange(q)
  <2>1. SeenShrinks(r)
    BY <1>1, ViewsPassedOn, Zenon
  <2> QED
    BY <1>0, <2>1, Zenon DEF SeenShrinks, SeenOK
<1>2. ASSUME NEW q \in RegionSet, MemberChange(q) \/ CaughtUp(q) \/ LeaderChange(q)
      PROVE  /\ SeenOK(r)'
             /\ truth'[r].conf \in Nat /\ truth[r].conf <= truth'[r].conf
             /\ \A v \in Views : Seen(r, v)' =>
                  \/ Seen(r, v)
                  \/ v.conf > truth[r].conf
                  \/ v.conf = truth[r].conf /\ StoreIds(v) = StoreIds(truth[r])
  <2>1. PICK new \in Views :
           /\ truth' = [truth EXCEPT ![q] = new]
           /\ \/ new.conf = truth[q].conf + 1
              \/ new.conf = truth[q].conf /\ StoreIds(new) = StoreIds(truth[q])
           /\ UNCHANGED <<clusterVars, conn>>
    BY <1>2, ChangedViews, Zenon
  <2>2. UNCHANGED <<regions, conn>>
    BY <2>1, Zenon DEF clusterVars
  <2>3. CASE q # r
    <3>1. truth'[r] = truth[r]
      BY <2>1, <2>3, Zenon DEF ClusterTypeOK
    <3>2. SeenShrinks(r)
      BY <2>2, <3>1, SeenFrame, Zenon
    <3> QED
      BY <1>0, <3>1, <3>2, Zenon DEF SeenShrinks, SeenOK
  <2>4. CASE q = r
    <3>1. truth'[r] = new
      BY <2>1, <2>4, Zenon DEF ClusterTypeOK
    <3>2. \A v \in Views : Seen(r, v)' => Seen(r, v) \/ v = new
      BY <2>2, <3>1, Zenon DEF Seen
    <3>3. \/ new.conf = truth[r].conf + 1
          \/ new.conf = truth[r].conf /\ StoreIds(new) = StoreIds(truth[r])
      BY <2>1, <2>4, Zenon
    <3>4. SeenOK(r)'
      BY <1>0, <3>1, <3>2, <3>3 DEF SeenOK
    <3> QED
      BY <1>0, <3>1, <3>2, <3>3, <3>4
  <2> QED
    BY <2>3, <2>4, Zenon
<1> QED
  BY <1>0, <1>1, <1>2, Zenon

LEMMA StaysDecided ==
  ASSUME ClusterTypeOK, ConnTypeOK, [PdNext]_pdVars, NEW op \in OperatorT, SeenOK(op.region), Decided(op)
  PROVE  Decided(op)'
<1> DEFINE r == op.region
<1>1. r \in RegionSet /\ op.conf \in Nat
  BY Zenon DEF OperatorT
<1>2. truth[r] \in Views /\ Seen(r, truth[r]) /\ \A v \in Views : v.conf \in Nat
  BY <1>1, SeenAreViews, ViewParts, Zenon
<1>3. /\ truth[r].conf \in Nat /\ truth'[r].conf \in Nat /\ truth[r].conf <= truth'[r].conf
      /\ \A v \in Views : Seen(r, v)' =>
           \/ Seen(r, v)
           \/ v.conf > truth[r].conf
           \/ v.conf = truth[r].conf /\ StoreIds(v) = StoreIds(truth[r])
  BY <1>1, SeenStep, Zenon
<1> SUFFICES ASSUME op.kind = "remove"
             PROVE  /\ IsRemoval(op) /\ op.conf <= truth'[r].conf
                    /\ \A v \in Views : Seen(r, v)' /\ v.conf = op.conf
                                          => Cardinality(StoreIds(v)) > MinPeers
  BY Zenon DEF Decided, IsRemoval
<1>4. /\ IsRemoval(op) /\ op.conf <= truth[r].conf
      /\ \A v \in Views : Seen(r, v) /\ v.conf = op.conf => Cardinality(StoreIds(v)) > MinPeers
  BY Zenon DEF Decided
<1>5. ASSUME NEW v \in Views, Seen(r, v)', v.conf = op.conf
      PROVE  Cardinality(StoreIds(v)) > MinPeers
  BY <1>1, <1>2, <1>3, <1>4, <1>5
<1> QED
  BY <1>1, <1>3, <1>4, <1>5

\* The operators in PD.
OperatorsOK ==
  /\ coord \in OperatorT \cup {Nil}
  /\ coord # Nil => Decided(coord)
  /\ operators \in [RegionSet -> OperatorT \cup {Nil}]
  /\ \A r \in RegionSet : operators[r] # Nil => operators[r].region = r /\ Decided(operators[r])

\* The same decision, with other progress.
Same(op, p) ==
  /\ p \in OperatorT /\ p.region = op.region /\ p.kind = op.kind
  /\ p.steps = op.steps /\ p.conf = op.conf

LEMMA SameDecision ==
  ASSUME NEW op \in OperatorT, NEW p, Same(op, p), Decided(op)
  PROVE  Decided(p)
  BY Zenon DEF Same, Decided, IsRemoval

LEMMA AdvancedIsSame ==
  ASSUME NEW op \in OperatorT, NEW v
  PROVE  Same(op, op) /\ Same(op, Advanced(op, v)) /\ Same(op, [op EXCEPT !.old = TRUE])
<1>1. Same(op, [op EXCEPT !.old = TRUE])
  BY Zenon DEF OperatorT, Same
<1>2. Same(op, [op EXCEPT !.cur = @ + 1])
  BY DEF OperatorT, Same
<1>3. Same(op, op)
  BY Zenon DEF OperatorT, Same
<1> QED
  BY <1>1, <1>2, <1>3, Zenon DEF Advanced

\* An operator changes only in the hands of a dispatching handler, of the
\* coordinator, when none is there, and by growing old.
OperatorMoves(r) ==
  \/ operators'[r] = operators[r]
  \/ operators'[r] = Nil
  \/ operators[r] # Nil /\ Same(operators[r], operators'[r])
  \/ operators[r] = Nil /\ coord # Nil /\ coord.region = r /\ operators'[r] = coord

LEMMA OperatorMove ==
  ASSUME OperatorsOK, [PdNext]_pdVars
  PROVE  /\ operators' \in [RegionSet -> OperatorT \cup {Nil}]
         /\ \A r \in RegionSet : OperatorMoves(r)
<1>0. operators \in [RegionSet -> OperatorT \cup {Nil}]
  BY Zenon DEF OperatorsOK
<1>1. CASE UNCHANGED operators
  BY <1>0, <1>1, Zenon DEF OperatorMoves
<1>2. ASSUME NEW q \in RegionSet, OperatorAges(q)
      PROVE  /\ operators' \in [RegionSet -> OperatorT \cup {Nil}]
             /\ \A r \in RegionSet : OperatorMoves(r)
  <2>1. operators[q] \in OperatorT /\ operators[q] # Nil
    BY <1>0, <1>2, Zenon DEF OperatorAges
  <2> DEFINE p == [operators[q] EXCEPT !.old = TRUE]
  <2>2. operators' = [operators EXCEPT ![q] = p] /\ Same(operators[q], p)
    BY <1>2, <2>1, AdvancedIsSame, Zenon DEF OperatorAges
  <2> HIDE DEF p
  <2> QED
    BY <1>0, <2>1, <2>2, Zenon DEF OperatorMoves, Same
<1>3. ASSUME AddToController
      PROVE  /\ operators' \in [RegionSet -> OperatorT \cup {Nil}]
             /\ \A r \in RegionSet : OperatorMoves(r)
  <2>1. coord \in OperatorT /\ coord.region \in RegionSet /\ coord # Nil
    BY <1>3, Zenon DEF OperatorsOK, AddToController, OperatorT
  <2> QED
    BY <1>0, <1>3, <2>1, Zenon DEF AddToController, OperatorMoves
<1>4. ASSUME NEW c \in Conns, Dispatch(c)
      PROVE  /\ operators' \in [RegionSet -> OperatorT \cup {Nil}]
             /\ \A r \in RegionSet : OperatorMoves(r)
  <2> DEFINE q == conn[c].region
             p == Advanced(operators[q], conn[c].view)
  <2>1. \/ UNCHANGED operators
        \/ operators' = [operators EXCEPT ![q] = Nil]
        \/ operators[q] # Nil /\ operators' = [operators EXCEPT ![q] = p]
    BY <1>4, Zenon DEF Dispatch
  <2>2. CASE q \notin RegionSet
    BY <1>0, <2>1, <2>2, Zenon DEF OperatorMoves
  <2>3. CASE q \in RegionSet
    <3>1. operators[q] # Nil => Same(operators[q], p)
      BY <1>0, <2>3, AdvancedIsSame, Zenon
    <3> HIDE DEF p, q
    <3> QED
      BY <1>0, <2>1, <2>3, <3>1, Zenon DEF OperatorMoves, Same
  <2> QED
    BY <2>2, <2>3, Zenon
<1> QED
  BY <1>1, <1>2, <1>3, <1>4, Zenon
     DEF PdNext, HandlerStep, ReceiveHeartbeat, StreamEnds, PutRead, PutUnindex, PutIndex, PutStats, Send,
         MemberChange, CaughtUp, LeaderChange, Change, Bootstrap, RegisterStore, StoreHeartbeat,
         StoreSilent, ProcessEnds, Connect, RegionHeartbeat, Schedule, OthersUnchanged, schedVars, pdVars

\* The coordinator takes proposals and gives them up.
LEMMA CoordMove ==
  ASSUME ClusterTypeOK, [PdNext]_pdVars
  PROVE  coord' = coord \/ coord' = Nil \/ Proposed(coord')
<1>1. CASE Schedule
  BY <1>1, ProposalsFit, Zenon DEF Schedule
<1> QED
  BY <1>1, Zenon
     DEF PdNext, HandlerStep, ReceiveHeartbeat, StreamEnds, PutRead, PutUnindex, PutIndex, PutStats, Send,
         Dispatch, MemberChange, CaughtUp, LeaderChange, Change, OperatorAges, Bootstrap, RegisterStore,
         StoreHeartbeat, StoreSilent, ProcessEnds, Connect, RegionHeartbeat, AddToController,
         OthersUnchanged, schedVars, pdVars

LEMMA OperatorsStep ==
  ASSUME ClusterTypeOK, ConnTypeOK, OperatorsOK, \A r \in RegionSet : SeenOK(r), [PdNext]_pdVars
  PROVE  OperatorsOK'
<1>1. ASSUME NEW op \in OperatorT, Decided(op) PROVE Decided(op)'
  <2>1. op.region \in RegionSet
    BY Zenon DEF OperatorT
  <2> QED
    BY <1>1, <2>1, StaysDecided, Zenon
<1>2. ASSUME NEW op, Proposed(op) PROVE op \in OperatorT /\ Decided(op)
  <2> DEFINE r == op.region
  <2>1. /\ op \in OperatorT /\ r \in RegionSet /\ regions[r] \in Views /\ op.conf = regions[r].conf
        /\ op.kind = "remove" => IsRemoval(op) /\ Cardinality(StoreIds(regions[r])) > MinPeers
    BY <1>2, Zenon DEF Proposed, OperatorT
  <2>2. /\ Seen(r, regions[r]) /\ regions[r].conf <= truth[r].conf
        /\ \A w \in Views : Seen(r, w) /\ w.conf = regions[r].conf => StoreIds(w) = StoreIds(regions[r])
    BY <2>1, SeenAreViews, Zenon DEF SeenOK
  <2> QED
    BY <2>1, <2>2, Zenon DEF Decided
<1>3. coord' \in OperatorT \cup {Nil} /\ (coord' # Nil => Decided(coord)')
  <2>1. CASE coord' = coord
    BY <1>1, <2>1, Zenon DEF OperatorsOK, Decided, IsRemoval
  <2>2. CASE Proposed(coord')
    <3>1. PICK op : op = coord'
      BY Zenon
    <3>2. op \in OperatorT /\ Decided(op)
      BY <1>2, <2>2, <3>1, Zenon
    <3>3. Decided(op)'
      BY <1>1, <3>2, Zenon
    <3> QED
      BY <3>1, <3>2, <3>3, Zenon DEF Decided, IsRemoval
  <2> QED
    BY <2>1, <2>2, CoordMove, Zenon
<1>4. ASSUME NEW r \in RegionSet, operators'[r] # Nil
      PROVE  operators'[r].region = r /\ Decided(operators[r])'
  <2>1. PICK op : op = operators'[r]
    BY Zenon
  <2>2. op \in OperatorT /\ op.region = r /\ Decided(op)
    <3>1. OperatorMoves(r)
      BY OperatorMove, Zenon
    <3>2. CASE op = operators[r]
      BY <1>4, <2>1, <3>2, Zenon DEF OperatorsOK
    <3>3. CASE operators[r] # Nil /\ Same(operators[r], op)
      <4>1. operators[r] \in OperatorT /\ operators[r].region = r /\ Decided(operators[r])
        BY <3>3, Zenon DEF OperatorsOK
      <4> QED
        BY <3>3, <4>1, SameDecision, Zenon DEF Same
    <3>4. CASE coord # Nil /\ coord.region = r /\ op = coord
      BY <3>4, Zenon DEF OperatorsOK
    <3> QED
      BY <1>4, <2>1, <3>1, <3>2, <3>3, <3>4, Zenon DEF OperatorMoves
  <2>3. Decided(op)'
    BY <1>1, <2>2, Zenon
  <2> QED
    BY <2>1, <2>2, <2>3, Zenon DEF Decided, IsRemoval
<1> QED
  BY <1>3, <1>4, OperatorMove, Zenon DEF OperatorsOK

\* A handler about to send a removal has a view that is not newer than the
\* decision: dispatch dropped the stale ones.
SendOK(c) ==
  LET op == operators[conn[c].region]
  IN  conn[c].pc = "send" /\ conn[c].region \notin overlapped =>
        op # Nil /\ (op.kind = "remove" => conn[c].view.conf <= op.conf)

LEMMA SentIsFresh ==
  ASSUME NEW op \in OperatorT, NEW v \in Views, op.kind = "remove", IsRemoval(op),
         Check(op, v) # {}, ~Stale(op, v)
  PROVE  v.conf <= op.conf
<1>1. PICK s \in StoreSet : op.steps = <<RemovePeer(s)>>
  BY Zenon DEF IsRemoval
<1>2. op.cur = 1 /\ ~StepDone(op.steps[op.cur], v)
  BY <1>1 DEF Check
<1>3. op.steps[op.cur] = RemovePeer(s)
  BY <1>1, <1>2
<1>4. s \in StoreIds(v)
  BY <1>2, <1>3 DEF StepDone, RemovePeer
<1>5. ~ConfVerChanged(op.steps[op.cur], v)
  BY <1>3, <1>4 DEF ConfVerChanged, RemovePeer
<1>6. ~(Monus(v.conf, op.conf) > 0)
  BY <1>5, Zenon DEF Stale
<1>7. v.conf \in Nat /\ op.conf \in Nat
  BY ViewParts, Zenon DEF OperatorT
<1> QED
  BY <1>6, <1>7 DEF Monus

\* A step after which a handler is about to send found it so, or dispatched.
LEMMA SendFrame ==
  ASSUME ClusterTypeOK, ConnTypeOK, OperatorsOK, [PdNext]_pdVars, NEW c \in Conns, SendOK(c),
         conn[c].pc = "send", conn'[c].region = conn[c].region, conn'[c].view = conn[c].view,
         overlapped \subseteq overlapped',
         operators'[conn[c].region] = Nil => operators[conn[c].region] = Nil
  PROVE  SendOK(c)'
<1> DEFINE r == conn[c].region
<1>0. r \in RegionSet
  BY Zenon DEF ConnTypeOK, ConnOK, ConnT
<1> SUFFICES ASSUME r \notin overlapped
             PROVE  /\ operators'[r] # Nil
                    /\ operators'[r].kind = "remove" => conn[c].view.conf <= operators'[r].conf
  BY Zenon DEF SendOK
<1>1. /\ operators[r] # Nil
      /\ operators[r].kind = "remove" => conn[c].view.conf <= operators[r].conf
  BY Zenon DEF SendOK
<1>2. OperatorMoves(r)
  BY <1>0, OperatorMove, Zenon
<1> QED
  BY <1>1, <1>2, Zenon DEF OperatorMoves, Same

LEMMA DispatchStep ==
  ASSUME ClusterTypeOK, ConnTypeOK, OperatorsOK, [PdNext]_pdVars, NEW c \in Conns, NEW d \in Conns,
         SendOK(d), Dispatch(c), \A r \in RegionSet : IndexOK(r)
  PROVE  SendOK(d)'
<1> DEFINE h == conn[c]
           r == conn[c].region
           op == operators[r]
           p == Advanced(op, h.view)
<1>0. /\ conn \in [Conns -> ConnT] /\ h \in ConnT /\ h.pc = "dispatch" /\ r \in RegionSet /\ h.view \in Views
      /\ UNCHANGED overlapped
  BY Zenon DEF Dispatch, ConnTypeOK, ConnOK, ConnT
<1>1. operators \in [RegionSet -> OperatorT \cup {Nil}]
  BY Zenon DEF OperatorsOK
<1>2. CASE d = c
  <2>1. Done(h).pc = "idle"
    BY <1>0, Zenon DEF Done, ConnT
  <2>2. ASSUME NEW f, conn' = [conn EXCEPT ![c] = f], f.pc = "idle" PROVE SendOK(d)'
    BY <1>0, <1>2, <2>2, Zenon DEF SendOK
  <2>3. ASSUME /\ op # Nil /\ ~Leaves(p, h.view)
               /\ operators' = [operators EXCEPT ![r] = p]
               /\ Check(p, h.view) # {}
               /\ Handler(c, [h EXCEPT !.pc = "send"])
        PROVE  SendOK(d)'
    <3>1. op \in OperatorT /\ Same(op, p) /\ p \in OperatorT /\ p # Nil
      <4>1. op \in OperatorT
        BY <1>0, <1>1, <2>3, Zenon
      <4>2. Same(op, p)
        BY <4>1, AdvancedIsSame, Zenon
      <4> QED
        BY <4>1, <4>2, PdAssumption, Zenon DEF Same
    <3>2. ~Stale(p, h.view)
      BY <2>3, Zenon DEF Leaves
    <3>3. p.kind = "remove" => IsRemoval(p)
      BY <1>0, <2>3, <3>1, Zenon DEF OperatorsOK, Decided, Same, IsRemoval
    <3>4. p.kind = "remove" => h.view.conf <= p.conf
      BY <1>0, <2>3, <3>1, <3>2, <3>3, SentIsFresh, Zenon
    <3> DEFINE f == [h EXCEPT !.pc = "send"]
    <3>5. conn'[c] = f /\ f.region = r /\ f.view = h.view
      BY <1>0, <2>3, Zenon DEF Handler, ConnT
    <3>6. operators'[r] = p
      BY <1>0, <1>1, <2>3, Zenon
    <3> HIDE DEF f, p
    <3> QED
      BY <1>2, <3>1, <3>4, <3>5, <3>6, Zenon DEF SendOK
  <2>4. ASSUME Handler(c, Done(h)) PROVE SendOK(d)'
    BY <2>1, <2>2, <2>4, Zenon DEF Handler
  <2> QED
    BY <2>3, <2>4, Zenon DEF Dispatch
<1>3. CASE d # c /\ conn[d].pc = "send"
  <2>1. conn'[d] = conn[d]
    BY <1>0, <1>3, Zenon DEF Dispatch, Handler
  <2>2. CASE conn[d].region = r /\ r \notin overlapped
    BY <1>0, <1>3, <2>2, Zenon DEF IndexOK, Alone
  <2>3. CASE conn[d].region = r /\ r \in overlapped
    BY <1>0, <2>1, <2>3, Zenon DEF SendOK
  <2>4. CASE conn[d].region # r
    <3>1. operators'[conn[d].region] = operators[conn[d].region]
      <4>1. \/ UNCHANGED operators
            \/ operators' = [operators EXCEPT ![r] = Nil]
            \/ operators' = [operators EXCEPT ![r] = p]
        BY Zenon DEF Dispatch
      <4>2. conn[d].region \in RegionSet
        BY <1>3, Zenon DEF ConnTypeOK, ConnOK, ConnT
      <4> HIDE DEF p
      <4> QED
        BY <1>1, <2>4, <4>1, <4>2, Zenon
    <3> QED
      BY <1>0, <1>3, <2>1, <3>1, SendFrame, Zenon
  <2> QED
    BY <2>2, <2>3, <2>4, Zenon
<1>4. CASE d # c /\ conn[d].pc # "send"
  BY <1>0, <1>4, Zenon DEF Dispatch, Handler, SendOK
<1> QED
  BY <1>2, <1>3, <1>4, Zenon

LEMMA SendStep ==
  ASSUME ClusterTypeOK, ConnTypeOK, OperatorsOK, [PdNext]_pdVars, \A r \in RegionSet : IndexOK(r),
         NEW d \in Conns, SendOK(d)
  PROVE  SendOK(d)'
<1>0. conn \in [Conns -> ConnT] /\ operators \in [RegionSet -> OperatorT \cup {Nil}]
  BY Zenon DEF ConnTypeOK, OperatorsOK
<1>1. CASE \E c \in Conns : Dispatch(c)
  BY <1>1, DispatchStep, Zenon
<1>2. ASSUME ~\E c \in Conns : Dispatch(c), NEW r \in RegionSet, operators'[r] = Nil
      PROVE  operators[r] = Nil
  <2>1. ASSUME NEW q \in RegionSet, OperatorAges(q) PROVE operators[r] = Nil
    <3> DEFINE p == [operators[q] EXCEPT !.old = TRUE]
    <3>1. operators' = [operators EXCEPT ![q] = p] /\ p \in OperatorT
      BY <1>0, <2>1, AdvancedIsSame DEF OperatorAges, Same
    <3> HIDE DEF p
    <3> QED
      BY <1>0, <1>2, <3>1, PdAssumption, Zenon
  <2>2. ASSUME AddToController PROVE operators[r] = Nil
    BY <1>0, <1>2, <2>2, Zenon DEF AddToController
  <2>3. CASE UNCHANGED operators
    BY <1>2, <2>3, Zenon
  <2> QED
    BY <1>2, <2>1, <2>2, <2>3, Zenon
       DEF PdNext, HandlerStep, ReceiveHeartbeat, StreamEnds, PutRead, PutUnindex, PutIndex, PutStats, Send,
           MemberChange, CaughtUp, LeaderChange, Change, Bootstrap, RegisterStore, StoreHeartbeat,
           StoreSilent, ProcessEnds, Connect, RegionHeartbeat, Schedule, OthersUnchanged, schedVars, pdVars
<1>3. ASSUME ~\E c \in Conns : Dispatch(c)
      PROVE  /\ conn'[d].pc = "send" => /\ conn[d].pc = "send" /\ conn'[d].region = conn[d].region
                                        /\ conn'[d].view = conn[d].view
             /\ overlapped \subseteq overlapped'
  <2> DEFINE Goal == /\ conn'[d].pc = "send" => /\ conn[d].pc = "send" /\ conn'[d].region = conn[d].region
                                                /\ conn'[d].view = conn[d].view
                     /\ overlapped \subseteq overlapped'
  <2>1. ASSUME NEW c \in Conns, NEW f, conn' = [conn EXCEPT ![c] = f], f.pc # "send",
               overlapped \subseteq overlapped'
        PROVE  Goal
    BY <1>0, <2>1, Zenon
  <2>2. \A c \in Conns : Done(conn[c]).pc = "idle"
    BY <1>0, Zenon DEF ConnT, Done
  <2>3. ASSUME NEW c \in Conns,
               PutRead(c) \/ PutUnindex(c) \/ PutIndex(c) \/ PutStats(c) \/ Send(c)
        PROVE  Goal
    <3>1. overlapped \subseteq overlapped'
      BY <2>3, Zenon DEF PutRead, PutUnindex, PutIndex, PutStats, Send
    <3>2. \E f : Handler(c, f) /\ f.pc # "send"
      <4>0. conn[c] \in ConnT
        BY <1>0, Zenon
      <4>1. CASE PutRead(c)
        <5> DEFINE f == [conn[c] EXCEPT !.old = regions[conn[c].region],
                            !.pc = IF regions[conn[c].region] = Nil THEN "index" ELSE "unindex"]
        <5>1. f.pc # "send"
          BY <4>0, Zenon DEF ConnT
        <5>2. Handler(c, f)
          BY <4>1, Zenon DEF PutRead
        <5> HIDE DEF f
        <5> QED
          BY <5>1, <5>2, Zenon
      <4>2. CASE PutUnindex(c)
        <5>1. [conn[c] EXCEPT !.old = Nil, !.pc = "index"].pc # "send"
          BY <4>0, Zenon DEF ConnT
        <5> QED
          BY <4>2, <5>1, Zenon DEF PutUnindex
      <4>3. CASE PutIndex(c) \/ PutStats(c)
        <5>1. /\ [conn[c] EXCEPT !.pc = "stats"].pc # "send"
              /\ [conn[c] EXCEPT !.pc = "dispatch"].pc # "send"
          BY <4>0, Zenon DEF ConnT
        <5> QED
          BY <4>3, <5>1, Zenon DEF PutIndex, PutStats
      <4>4. CASE Send(c)
        BY <2>2, <4>0, <4>4, Zenon DEF Send
      <4> QED
        BY <2>3, <4>1, <4>2, <4>3, <4>4, Zenon
    <3> QED
      BY <2>1, <3>1, <3>2, Zenon DEF Handler
  <2>4. ASSUME NEW c \in Conns, ReceiveHeartbeat(c) PROVE Goal
    <3> DEFINE h == conn[c]
               f == [h EXCEPT !.msg = Nil, !.bound = TRUE, !.pc = "read",
                              !.region = h.msg.region, !.view = h.msg.view]
    <3>1. f.pc = "read"
      BY <1>0, Zenon DEF ConnT
    <3>2. conn' = [conn EXCEPT ![c] = f] /\ overlapped \subseteq overlapped'
      BY <2>4, Zenon DEF ReceiveHeartbeat, Handler
    <3> HIDE DEF f
    <3> QED
      BY <2>1, <3>1, <3>2, Zenon
  <2>5. ASSUME NEW c \in Conns, StreamEnds(c) PROVE Goal
    BY <2>1, <2>5 DEF StreamEnds, Handler, Closed
  <2>6. ASSUME NEW c \in Conns, NEW s \in Leading, Connect(c, s) PROVE Goal
    BY <1>0, <2>6 DEF Connect, OthersUnchanged, ConnT
  <2>7. ASSUME NEW c \in Conns, NEW q \in RegionSet, RegionHeartbeat(c, q) PROVE Goal
    BY <1>0, <2>7 DEF RegionHeartbeat, OthersUnchanged, ConnT
  <2>8. ASSUME NEW s \in StoreSet, ProcessEnds(s) PROVE Goal
    BY <1>0, <2>8, Zenon DEF ProcessEnds, OthersUnchanged, ConnT
  <2>9. CASE UNCHANGED <<conn, overlapped>>
    BY <2>9, Zenon
  <2> QED
    BY <1>3, <2>3, <2>4, <2>5, <2>6, <2>7, <2>8, <2>9, Zenon
       DEF PdNext, HandlerStep, MemberChange, CaughtUp, LeaderChange, Change, OperatorAges, Bootstrap,
           RegisterStore, StoreHeartbeat, StoreSilent, Schedule, AddToController, PdOthers,
           OthersUnchanged, pdVars
<1>4. CASE ~\E c \in Conns : Dispatch(c)
  <2>1. CASE conn'[d].pc # "send"
    BY <2>1, Zenon DEF SendOK
  <2>2. CASE conn'[d].pc = "send"
    <3>1. /\ conn[d].pc = "send" /\ conn'[d].region = conn[d].region
          /\ conn'[d].view = conn[d].view /\ overlapped \subseteq overlapped'
      BY <1>3, <1>4, <2>2, Zenon
    <3>2. conn[d].region \in RegionSet
      BY <3>1, Zenon DEF ConnTypeOK, ConnOK, ConnT
    <3> QED
      BY <1>2, <1>4, <3>1, <3>2, SendFrame, Zenon
  <2> QED
    BY <2>1, <2>2, Zenon
<1> QED
  BY <1>1, <1>4, Zenon

\* A command to remove a peer that ScaleScheduler decided on is sent with a view
\* that has more than min_peer_count peers, unless the view is older than the
\* decision or two heartbeats of the region were handled at once: the epoch test
\* of OperatorController::dispatch makes sure of it, whatever views decision,
\* admission and dispatch saw.
THEOREM RemovalsKeepMinimum == PdSpec => []ScaleDownKeepsMinimum
<1> DEFINE Inv == /\ ClusterTypeOK /\ ConnTypeOK /\ OperatorsOK
                  /\ \A r \in RegionSet : IndexOK(r) /\ SeenOK(r)
                  /\ \A c \in Conns : SendOK(c)
<1>1. PdInit => Inv
  <2> SUFFICES ASSUME PdInit PROVE Inv
    BY Zenon
  <2>1. ClusterTypeOK /\ ConnTypeOK /\ \A r \in RegionSet : IndexOK(r)
    BY TypesInitially, IndexInitially, Zenon
  <2>2. OperatorsOK
    BY Zenon DEF PdInit, OperatorsOK
  <2>3. \A c \in Conns : conn[c].region = Nil /\ conn[c].msg = Nil /\ conn[c].pc = "idle"
    BY ConnInitially, Zenon
  <2>4. ASSUME NEW r \in RegionSet PROVE SeenOK(r)
    <3>1. \A v \in Views : Seen(r, v) => v = truth[r]
      BY <2>3, PdAssumption, Zenon DEF Seen, PdInit, ClusterInit
    <3>2. truth[r] \in Views /\ truth[r].conf \in Nat
      BY <2>1, ViewParts, Zenon DEF ClusterTypeOK
    <3> QED
      BY <3>1, <3>2 DEF SeenOK
  <2> QED
    BY <2>1, <2>2, <2>3, <2>4, Zenon DEF SendOK
<1>2. Inv /\ [PdNext]_pdVars => Inv'
  BY ClusterTypeStep, ConnTypeStep, OperatorsStep, IndexesStep, SeenStep, SendStep, Zenon
<1>3. Inv => ScaleDownKeepsMinimum
  <2> SUFFICES ASSUME Inv, NEW c \in Conns, conn[c].pc = "send", conn[c].region \notin overlapped,
                      operators[conn[c].region].kind = "remove",
                      conn[c].view.conf >= operators[conn[c].region].conf
               PROVE  Cardinality(StoreIds(conn[c].view)) > MinPeers
    BY Zenon DEF ScaleDownKeepsMinimum
  <2> DEFINE r == conn[c].region
             v == conn[c].view
  <2>1. r \in RegionSet /\ v \in Views /\ Seen(r, v)
    BY SeenAreViews, Zenon DEF ConnTypeOK, ConnOK, ConnT
  <2>2. operators[r] # Nil /\ v.conf <= operators[r].conf
    BY Zenon DEF SendOK
  <2>3. operators[r] \in OperatorT /\ operators[r].region = r /\ Decided(operators[r])
    BY <2>1, <2>2, Zenon DEF OperatorsOK
  <2>4. v.conf \in Nat /\ operators[r].conf \in Nat
    BY <2>1, <2>3, ViewParts, Zenon DEF OperatorT
  <2> QED
    BY <2>1, <2>2, <2>3, <2>4 DEF Decided
<1> QED
  BY <1>1, <1>2, <1>3, PTL DEF PdSpec
=============================================================================
