---------------------------------- MODULE Pd ----------------------------------
(***************************************************************************)
(* The placement driver and the stores that report to it: PdService and    *)
(* PdState (pd/), OperatorController, Coordinator and HeartbeatStreams     *)
(* (scheduler/), the scheduler client and the store launchers (raftstore/  *)
(* scheduler_client, bin/).  Every heartbeat stream has a handler task in  *)
(* PD; handlers, the coordinator loop and the stores interleave wherever   *)
(* the code releases its locks.  What the regions really look like is      *)
(* decided outside PD: stores only log the commands they receive.          *)
(***************************************************************************)
EXTENDS Schedulers, Functions

CONSTANTS Conns,          \* region heartbeat streams store processes may open
          Leading,        \* stores whose processes lead regions and open streams
          FirstStores,    \* stores registered at the start
          FirstRunning,   \* of these, stores whose process has just started
          SchedulerSet,   \* schedulers registered with the coordinator
          Reports,        \* statistics a store heartbeat may carry: rc, lc, size
          FirstViews,     \* what the regions may look like at the start
          Budgets         \* bounds: how many changes, terms, reports, beats and
                          \* restarts a behaviour may have

ASSUME PdAssumption ==
  /\ Nil \notin Conns \cup StoreSet \cup RegionSet
  /\ Nil \notin Views /\ Nil \notin OperatorT
  /\ Nil \notin [region : RegionSet, view : Views]
  /\ FirstRunning \cup Leading \subseteq StoreSet
  /\ FirstViews \subseteq [RegionSet -> Views]
  /\ SchedulerSet \subseteq {"scale", "balance-region", "balance-leader"}

VARIABLES
  truth,         \* external: the regions as their Raft groups know them
  process,       \* store process: "new", "connected" or "running"
  bootstrapped,  \* is_bootstrapped
  conn,          \* a stream: is the client side open, the unread message, its handler
  streams,       \* streams of HeartbeatStreams: store -> bound stream or Nil
  operators,     \* operators: region -> running Operator or Nil
  coord,         \* operator the coordinator is about to add, or Nil
  budget,        \* what is left of the chosen bounds
  overlapped     \* ghost: regions of which two heartbeats were handled at once

pdVars == <<clusterVars, truth, process, bootstrapped, conn, streams, operators,
          coord, budget, overlapped>>

Closed == [store |-> Nil, open |-> FALSE, msg |-> Nil, bound |-> FALSE, pc |-> "idle", region |-> Nil,
           view |-> Nil, old |-> Nil]
PutPcs == {"read", "unindex", "index"}

PdInit ==
  /\ ClusterInit(FirstStores)
  /\ truth \in FirstViews
  /\ process = [s \in StoreSet |-> IF s \in FirstRunning THEN "running" ELSE "new"]
  /\ bootstrapped = (FirstStores # {})
  /\ \E opened \in [Conns -> FirstRunning \cup {Nil}] :
       /\ \A s \in FirstRunning : Cardinality({c \in Conns : opened[c] = s}) = 1
       /\ conn = [c \in Conns |-> [Closed EXCEPT !.store = opened[c], !.open = opened[c] # Nil]]
  /\ streams = [s \in StoreSet |-> Nil]
  /\ operators = [r \in RegionSet |-> Nil]
  /\ coord = Nil
  /\ budget \in Budgets
  /\ overlapped = {}

schedVars == <<operators, coord>>
Spend(what) == budget[what] > 0 /\ budget' = [budget EXCEPT ![what] = @ - 1]
processVars == <<truth, process, bootstrapped, budget>>

-----------------------------------------------------------------------------
(* External: the Raft groups change membership and leadership. *)
Change(r, v) ==
  /\ truth' = [truth EXCEPT ![r] = v]
  /\ UNCHANGED <<clusterVars, process, bootstrapped, conn, streams, schedVars, overlapped>>

MemberChange(r) ==
  LET t == truth[r]
      changed(peers, pending) ==
        [peers |-> peers, leader |-> t.leader, pending |-> pending, conf |-> t.conf + 1]
  IN  /\ Spend("changes")
      /\ \/ \E s \in StoreSet \ StoreIds(t), id \in PeerIds :
               Change(r, changed([x \in StoreIds(t) \cup {s} |-> IF x = s THEN id ELSE t.peers[x]],
                                 t.pending \cup {s}))
         \/ \E s \in StoreIds(t) \ {t.leader} :
               Change(r, changed(Restrict(t.peers, StoreIds(t) \ {s}), t.pending \ {s}))

CaughtUp(r) ==
  /\ \E s \in truth[r].pending : Change(r, [truth[r] EXCEPT !.pending = @ \ {s}])
  /\ UNCHANGED budget

LeaderChange(r) ==
  /\ Spend("terms")
  /\ \E s \in (Leading \cap StoreIds(truth[r])) \ (truth[r].pending \cup {truth[r].leader}) :
       Change(r, [truth[r] EXCEPT !.leader = s])

-----------------------------------------------------------------------------
(* Store processes: connect, register, report. *)
OthersUnchanged == UNCHANGED <<truth, streams, schedVars, overlapped>>

\* Client::connect opens a stream; a later process of the same store may open
\* another while PD still has the handler of the first.
Connect(c, s) ==
  /\ process[s] = "new" /\ conn[c] = Closed
  /\ conn' = [conn EXCEPT ![c].store = s, ![c].open = TRUE]
  /\ process' = [process EXCEPT ![s] = "connected"]
  /\ UNCHANGED <<clusterVars, bootstrapped, budget>> /\ OthersUnchanged

\* PdState::bootstrap registers the store of the first caller only ...
StateBootstrap(s) ==
  /\ bootstrapped' = TRUE
  /\ IF bootstrapped THEN UNCHANGED clusterVars ELSE PutStore(s)

\* ... and never fails, so launch_local_store goes on without put_store.
Bootstrap(s) ==
  /\ process[s] = "connected"
  /\ StateBootstrap(s)
  /\ process' = [process EXCEPT ![s] = "running"]
  /\ UNCHANGED <<conn, budget>> /\ OthersUnchanged

\* launch_10stores: all but the first call put_store.
RegisterStore(s) ==
  /\ process[s] = "connected"
  /\ PutStore(s)
  /\ process' = [process EXCEPT ![s] = "running"]
  /\ UNCHANGED <<conn, bootstrapped, budget>> /\ OthersUnchanged

\* PdState::handle_store_heartbeat: an unknown store is ignored.  The store_loads
\* it also updates are only read by status views.
HandleStoreHeartbeat(s, x) ==
  /\ stores' = IF stores[s] = Nil THEN stores
               ELSE [stores EXCEPT ![s] = [rc |-> x.rc, lc |-> x.lc, size |-> x.size, heard |-> TRUE]]
  /\ UNCHANGED <<regions, storeRegions, storeLeaders>>

\* A launcher reports the statistics of its store.
StoreHeartbeat(s) ==
  /\ process[s] = "running" /\ Spend("reports")
  /\ \E x \in Reports : HandleStoreHeartbeat(s, x)
  /\ UNCHANGED <<conn, process, bootstrapped>>
  /\ OthersUnchanged

\* max_down_time passes without a heartbeat of the store.
StoreSilent(s) ==
  /\ stores[s] # Nil /\ stores[s].heard /\ process[s] = "new"
  /\ stores' = [stores EXCEPT ![s].heard = FALSE]
  /\ UNCHANGED <<regions, storeRegions, storeLeaders, conn, process, bootstrapped, budget>>
  /\ OthersUnchanged

\* The process of s ends: its streams close, PD notices later.
ProcessEnds(s) ==
  /\ process[s] # "new" /\ Spend("restarts")
  /\ process' = [process EXCEPT ![s] = "new"]
  /\ conn' = [c \in Conns |-> IF conn[c].store = s THEN [conn[c] EXCEPT !.open = FALSE] ELSE conn[c]]
  /\ UNCHANGED <<clusterVars, bootstrapped>> /\ OthersUnchanged

\* SchedulerTask::on_heartbeat and Client::region_heartbeat: the leader's store
\* reports the region on its stream.
RegionHeartbeat(c, r) ==
  /\ conn[c].open /\ process[conn[c].store] = "running" /\ conn[c].msg = Nil
  /\ truth[r].leader = conn[c].store /\ Spend("beats")
  /\ conn' = [conn EXCEPT ![c].msg = [region |-> r, view |-> truth[r]]]
  /\ UNCHANGED <<clusterVars, process, bootstrapped>> /\ OthersUnchanged

-----------------------------------------------------------------------------
(* PD: the handler of a stream (PdService::region_heartbeat). *)
Handler(c, f) == conn' = [conn EXCEPT ![c] = f]
Done(h) == [h EXCEPT !.pc = "idle", !.region = Nil, !.view = Nil, !.old = Nil]

\* bind_stream replaces a stream bound before; unbind_stream removes whatever is bound.
BindStream(s, c) == streams' = [streams EXCEPT ![s] = c]
UnbindStream(s) == streams' = [streams EXCEPT ![s] = Nil]

\* The first message binds the stream; then handle_region_heartbeat begins.
ReceiveHeartbeat(c) ==
  LET h == conn[c] IN
  /\ h.pc = "idle" /\ h.msg # Nil
  /\ Handler(c, [h EXCEPT !.msg = Nil, !.bound = TRUE, !.pc = "read",
                          !.region = h.msg.region, !.view = h.msg.view])
  /\ IF h.bound THEN UNCHANGED streams ELSE BindStream(h.store, c)
  /\ overlapped' = IF \E d \in Conns : conn[d].region = h.msg.region
                   THEN overlapped \cup {h.msg.region} ELSE overlapped
  /\ UNCHANGED <<clusterVars, processVars, schedVars>>

\* The client side is closed and everything read: the stream is unbound.
StreamEndsMutant(c) ==
  LET h == conn[c] IN
  /\ h.pc = "idle" /\ h.msg = Nil /\ ~h.open /\ h # Closed
  /\ Handler(c, Closed)
  /\ UNCHANGED streams
  /\ UNCHANGED <<clusterVars, processVars, schedVars, overlapped>>
StreamEnds(c) ==
  LET h == conn[c] IN
  /\ h.pc = "idle" /\ h.msg = Nil /\ ~h.open /\ h # Closed
  /\ Handler(c, Closed)
  /\ IF h.bound THEN UnbindStream(h.store) ELSE UNCHANGED streams
  /\ UNCHANGED <<clusterVars, processVars, schedVars, overlapped>>

\* put_region in the sections between which it holds no lock.
PutRead(c) ==
  LET h == conn[c] IN
  /\ h.pc = "read"
  /\ Handler(c, [h EXCEPT !.old = regions[h.region],
                          !.pc = IF regions[h.region] = Nil THEN "index" ELSE "unindex"])
  /\ UNCHANGED <<clusterVars, processVars, streams, schedVars, overlapped>>

PutUnindex(c) ==
  LET h == conn[c] IN
  /\ h.pc = "unindex"
  /\ Unindex(h.region, h.old)
  /\ Handler(c, [h EXCEPT !.old = Nil, !.pc = "index"])
  /\ UNCHANGED <<processVars, streams, schedVars, overlapped>>

PutIndex(c) ==
  LET h == conn[c] IN
  /\ h.pc = "index"
  /\ Index(h.region, h.view)
  /\ Handler(c, [h EXCEPT !.pc = "stats"])
  /\ UNCHANGED <<processVars, streams, schedVars, overlapped>>

PutStats(c) ==
  LET h == conn[c] IN
  /\ h.pc = "stats"
  /\ Recount
  /\ Handler(c, [h EXCEPT !.pc = "dispatch"])
  /\ UNCHANGED <<processVars, streams, schedVars, overlapped>>

\* Operator::check: the current step, unless there is none left or the view shows
\* it finished.
Check(op, v) ==
  {op.steps[i] : i \in {j \in 1..Len(op.steps) : j = op.cur /\ ~StepDone(op.steps[j], v)}}
Monus(a, b) == IF a > b THEN a - b ELSE 0
StaleMutant(op, v) == Monus(v.conf, op.conf) > Len(op.steps)
Stale(op, v) ==
  LET step == op.steps[op.cur]
  IN  Monus(v.conf, op.conf) > (IF ConfVerChanged(step, v) THEN 1 ELSE 0)

\* dispatch, the section under the operators lock.  The current step may have
\* finished; an operator leaves when it is complete, timed out or stale, and
\* otherwise an unfinished step is sent after the lock has been dropped.  The
\* record of operators that left (op_records) is only read by status views.
Advanced(op, v) == IF StepDone(op.steps[op.cur], v) THEN [op EXCEPT !.cur = @ + 1] ELSE op
Leaves(op, v) ==
  \/ op.cur > Len(op.steps)
  \/ op.old
  \/ Check(op, v) # {} /\ Stale(op, v)

Dispatch(c) ==
  LET h == conn[c]
      op == operators[h.region]
  IN  /\ h.pc = "dispatch"
      /\ \/ /\ op = Nil
            /\ Handler(c, Done(h)) /\ UNCHANGED operators
         \/ /\ op # Nil /\ Leaves(Advanced(op, h.view), h.view)
            /\ operators' = [operators EXCEPT ![h.region] = Nil]
            /\ Handler(c, Done(h))
         \/ /\ op # Nil /\ ~Leaves(Advanced(op, h.view), h.view)
            /\ operators' = [operators EXCEPT ![h.region] = Advanced(op, h.view)]
            /\ Handler(c, IF Check(Advanced(op, h.view), h.view) = {} THEN Done(h)
                          ELSE [h EXCEPT !.pc = "send"])
      /\ UNCHANGED <<clusterVars, processVars, streams, coord, overlapped>>

\* The operator is read again and its step checked against the same view; then
\* send_schedule_command and send_msg put the command into the stream bound for
\* the leader of the view, if there is one.  Stores only log commands.
Command(c) ==
  LET op == operators[conn[c].region]
  IN  IF op = Nil THEN {} ELSE Check(op, conn[c].view)
Send(c) ==
  /\ conn[c].pc = "send"
  /\ Handler(c, Done(conn[c]))
  /\ UNCHANGED <<clusterVars, processVars, streams, schedVars, overlapped>>

HandlerStep(c) ==
  \/ ReceiveHeartbeat(c) \/ StreamEnds(c) \/ PutRead(c) \/ PutUnindex(c) \/ PutIndex(c) \/ PutStats(c)
  \/ Dispatch(c) \/ Send(c)

-----------------------------------------------------------------------------
(* PD: the coordinator loop and time. *)
PdOthers == UNCHANGED <<clusterVars, processVars, conn, streams, overlapped>>

\* One scheduler of a round looks at the cluster ...
Schedule ==
  /\ coord = Nil
  /\ \E sch \in SchedulerSet : \E op \in Proposals(sch) : coord' = op
  /\ UNCHANGED operators /\ PdOthers

\* ... and add_operator takes its operator if the epoch still fits and the
\* region has none.
AddToController ==
  LET r == coord.region
      fits == regions[r] # Nil /\ regions[r].conf = coord.conf /\ operators[r] = Nil
  IN  /\ coord # Nil
      /\ operators' = IF fits THEN [operators EXCEPT ![r] = coord] ELSE operators
      /\ coord' = Nil
      /\ PdOthers

OperatorAges(r) ==
  /\ operators[r] # Nil /\ ~operators[r].old
  /\ operators' = [operators EXCEPT ![r].old = TRUE]
  /\ UNCHANGED coord /\ PdOthers

PdNext ==
  \/ \E r \in RegionSet : MemberChange(r) \/ CaughtUp(r) \/ LeaderChange(r) \/ OperatorAges(r)
  \/ \E s \in StoreSet : \/ Bootstrap(s) \/ RegisterStore(s) \/ StoreHeartbeat(s)
                       \/ StoreSilent(s) \/ ProcessEnds(s)
  \/ \E c \in Conns : HandlerStep(c) \/ (\E s \in Leading : Connect(c, s))
                       \/ \E r \in RegionSet : RegionHeartbeat(c, r)
  \/ Schedule \/ AddToController

PdSpec == PdInit /\ [][PdNext]_pdVars

-----------------------------------------------------------------------------
\* The indexes store_regions and store_leaders agree with the regions whenever
\* no put_region is under way, for a region of which no two heartbeats were ever
\* handled at once: put_region forgets exactly what the put before it indexed.
IndexAgrees ==
  \A r \in RegionSet \ overlapped :
    (\A c \in Conns : conn[c].region = r => conn[c].pc \notin PutPcs) =>
      \A s \in StoreSet :
        /\ r \in storeRegions[s] <=> regions[r] # Nil /\ s \in StoreIds(regions[r])
        /\ r \in storeLeaders[s] <=> regions[r] # Nil /\ s = regions[r].leader

\* A bound stream is one whose handler is still alive, whatever streams of the
\* same store ended before: commands never go into the channel of a dead one.
BoundStreamIsAlive ==
  \A s \in StoreSet : streams[s] # Nil => conn[streams[s]].store = s /\ conn[streams[s]].bound

\* A command to remove a peer that scaling down decided on is sent with a view of
\* the region that has more than min_peer_count peers, unless the view is older
\* than the decision or two heartbeats of the region were handled at once (then
\* dispatch may find another operator than the one it checked).  Decision,
\* admission and dispatch each see a view of their own.
ScaleDownKeepsMinimum ==
  \A c \in Conns :
    /\ conn[c].pc = "send" /\ Command(c) # {} /\ conn[c].region \notin overlapped
    /\ operators[conn[c].region].kind = "remove"
    /\ conn[c].view.conf >= operators[conn[c].region].conf
    => Cardinality(StoreIds(conn[c].view)) > MinPeers
==============================================================================
