------------------------------- MODULE Ingest -------------------------------
(***************************************************************************)
(* The ingest service (bin/ingest_http.rs): start and stop of the worker   *)
(* that loads data, single key operations, and the migration to Redis.     *)
(* Requests and spawned tasks interleave at every await; the mutexes on    *)
(* events and metrics are held across awaits, the others only for a step.  *)
(* A task that is aborted ends at its next await that really waits, and so *)
(* does a request whose client went away: its future is dropped.           *)
(***************************************************************************)
EXTENDS Naturals, FiniteSets

CONSTANTS NCalls,       \* start and stop requests
          NWorkers,     \* workers that may be spawned
          Execs,        \* requests to /api/kv/execute
          Count,        \* count of the start request
          MaxRows,      \* bound: rows in the tiers
          MaxMigrations,\* bound: migration requests
          NoTask

\* Requests are numbered as they arrive, workers as they are spawned.
Calls == 1..NCalls
Workers == NCalls + 1..NCalls + NWorkers

ASSUME IngestAssumption == Execs \cap Workers = {} /\ NoTask \notin Workers

VARIABLES
  running, handle,          \* running, worker
  evLock, mLock,            \* holders of the mutexes on events and metrics
  call,                     \* state of every start or stop request
  task,                     \* state of every worker and key operation
  doomed,                   \* workers aborted
  progress, mig, migrations,\* migration_progress; the migration tasks, by state
  owner,                    \* ghost: the start that set running last
  ordered                   \* ghost: none set it while a stop was about to abort a worker

ghosts == <<owner, ordered>>
controlVars == <<running, handle, evLock, mLock, call, task, doomed, ghosts>>
migrationVars == <<progress, mig, migrations>>
ingestVars == <<controlVars, migrationVars>>

Idle == [pc |-> "none", i |-> 0, op |-> "none"]
NoProgress == [status |-> "idle", total |-> 0, done |-> 0]

IngestInit ==
  /\ running = FALSE /\ handle = NoTask
  /\ evLock = NoTask /\ mLock = NoTask
  /\ call = [c \in Calls |-> [pc |-> "new", worker |-> NoTask]]
  /\ task = [t \in Workers \cup Execs |-> Idle]
  /\ doomed = {} /\ owner = NoTask /\ ordered = TRUE
  /\ progress = NoProgress /\ mig = {} /\ migrations = 0

-----------------------------------------------------------------------------
(* start and stop *)
Goto(c, pc, w) == call' = [call EXCEPT ![c] = [pc |-> pc, worker |-> w]]
Arrives(c) == \A d \in Calls : call[d].pc = "new" <=> d >= c
CallOnly == UNCHANGED <<evLock, task, doomed>>

\* Bound: a start finds the flag clear only while it can have a worker.
CanSpawn == Cardinality({w \in Workers : task[w] = Idle})
              > Cardinality({d \in Calls : call[d].pc \in {"reset", "clear", "spawn"}})
StartSwap(c) ==
  /\ Arrives(c) /\ (running \/ CanSpawn)
  /\ running' = TRUE
  /\ Goto(c, IF running THEN "done" ELSE "reset", NoTask)
  /\ owner' = IF running THEN owner ELSE c
  /\ ordered' = (ordered /\ (running \/ \A d \in Calls : call[d].pc # "abort"))
  /\ UNCHANGED <<handle, mLock>> /\ CallOnly

\* The old metrics and events are cleared under both mutexes, metrics first.
StartMetrics(c) ==
  /\ call[c].pc = "reset" /\ mLock = NoTask
  /\ mLock' = c
  /\ Goto(c, "clear", NoTask)
  /\ UNCHANGED <<ghosts, running, handle>> /\ CallOnly

StartEvents(c) ==
  /\ call[c].pc = "clear" /\ evLock = NoTask
  /\ mLock' = NoTask
  /\ Goto(c, "spawn", NoTask)
  /\ UNCHANGED <<ghosts, running, handle, evLock, task, doomed>>

StartSpawn(c) ==
  /\ call[c].pc = "spawn"
  /\ \E w \in Workers :
       /\ \A v \in Workers : task[v] = Idle <=> v >= w
       /\ task' = [task EXCEPT ![w].pc = "connect"]
       /\ Goto(c, "handle", w)
  /\ UNCHANGED <<ghosts, running, handle, evLock, mLock, doomed>>

StartHandle(c) ==
  /\ call[c].pc = "handle"
  /\ handle' = call[c].worker
  /\ Goto(c, "done", NoTask)
  /\ UNCHANGED <<ghosts, running, mLock>> /\ CallOnly

StopFlagMutant(c) ==
  /\ Arrives(c)
  /\ Goto(c, "abort", NoTask)
  /\ UNCHANGED <<ghosts, running, handle, mLock>> /\ CallOnly
StopFlag(c) ==
  /\ Arrives(c)
  /\ running' = FALSE
  /\ Goto(c, "abort", NoTask)
  /\ UNCHANGED <<ghosts, handle, mLock>> /\ CallOnly

StopAbort(c) ==
  /\ call[c].pc = "abort"
  /\ handle' = NoTask
  /\ doomed' = IF handle = NoTask THEN doomed ELSE doomed \cup {handle}
  /\ Goto(c, "done", NoTask)
  /\ UNCHANGED <<ghosts, running, evLock, mLock, task>>

\* The client goes away while its request waits for a mutex: a start leaves the
\* flag set without a worker, or a worker without a handle; a stop aborts nothing.
CallDropped(c) ==
  /\ call[c].pc \in {"reset", "clear", "handle", "abort"}
  /\ Goto(c, IF call[c].pc \in {"reset", "clear"} THEN "dropped" ELSE "done", NoTask)
  /\ mLock' = IF mLock = c THEN NoTask ELSE mLock
  /\ UNCHANGED <<ghosts, running, handle>> /\ CallOnly

-----------------------------------------------------------------------------
(* record and record_err, and the tasks that call them *)
TaskOnly == UNCHANGED <<handle, call, doomed, ghosts>>
Become(t, state) == task' = [task EXCEPT ![t] = state]

RecordEvent(t) ==
  /\ task[t].pc = "record" /\ evLock = NoTask
  /\ evLock' = t
  /\ Become(t, [task[t] EXCEPT !.pc = "metrics"])
  /\ UNCHANGED <<running, mLock>> /\ TaskOnly

\* What a task does after an operation: a worker may go on with a get and a
\* delete of the same key, and stops after a failed connect.
After(t) ==
  LET next(ops) == {[task[t] EXCEPT !.pc = "request", !.op = op] : op \in ops}
      again == {[task[t] EXCEPT !.pc = "sleep", !.op = "none", !.i = @ + 1]}
  IN  IF t \in Execs THEN {Idle}
      ELSE IF task[t].op = "connect" THEN {[task[t] EXCEPT !.pc = "finish"]}
      ELSE IF task[t].op = "put" THEN next({"get", "del"}) \cup again
      ELSE IF task[t].op = "get" THEN next({"del"}) \cup again
      ELSE again

RecordMetric(t) ==
  /\ task[t].pc = "metrics" /\ mLock = NoTask
  /\ evLock' = NoTask
  /\ \E state \in After(t) : Become(t, state)
  /\ UNCHANGED <<running, mLock>> /\ TaskOnly

\* The answer of the server: a connection, or the result of an operation.
Connected(w) ==
  /\ task[w].pc = "connect" /\ w \notin doomed
  /\ \/ Become(w, [task[w] EXCEPT !.pc = "loop"])
     \/ Become(w, [task[w] EXCEPT !.pc = "record", !.op = "connect"])
  /\ UNCHANGED <<running, evLock, mLock>> /\ TaskOnly

Loop(w) ==
  /\ task[w].pc = "loop" \/ (task[w].pc = "sleep" /\ w \notin doomed)
  /\ Become(w, IF running /\ task[w].i < Count THEN [task[w] EXCEPT !.pc = "request", !.op = "put"]
               ELSE [task[w] EXCEPT !.pc = "scan"])
  /\ UNCHANGED <<running, evLock, mLock>> /\ TaskOnly

Answer(t) ==
  /\ task[t].pc = "request" /\ t \notin doomed
  /\ Become(t, [task[t] EXCEPT !.pc = "record"])
  /\ UNCHANGED <<running, evLock, mLock>> /\ TaskOnly

ScanDone(w) ==
  /\ task[w].pc = "scan" /\ w \notin doomed
  /\ Become(w, [task[w] EXCEPT !.pc = "finish"])
  /\ UNCHANGED <<running, evLock, mLock>> /\ TaskOnly

FinishMutant(w) ==
  /\ task[w].pc = "finish"
  /\ running' = (running /\ task[w].op = "connect")
  /\ Become(w, [Idle EXCEPT !.pc = "dead"])
  /\ UNCHANGED <<evLock, mLock>> /\ TaskOnly
Finish(w) ==
  /\ task[w].pc = "finish"
  /\ running' = FALSE
  /\ Become(w, [Idle EXCEPT !.pc = "dead"])
  /\ UNCHANGED <<evLock, mLock>> /\ TaskOnly

\* An aborted task ends where it waits; its guard on events is dropped with it.
Aborted(w) ==
  /\ w \in doomed /\ task[w].pc \notin {"none", "finish", "dead"}
  /\ Become(w, [Idle EXCEPT !.pc = "dead"])
  /\ evLock' = IF evLock = w THEN NoTask ELSE evLock
  /\ UNCHANGED <<running, mLock>> /\ TaskOnly

\* execute_kv_operation: a failed connect, an unknown operation and a put without
\* a value answer at once and record nothing; the others end in record or
\* record_err, one event and one count each.
ExecuteKv(e) ==
  /\ task[e] = Idle
  /\ Become(e, [Idle EXCEPT !.pc = "request"])
  /\ UNCHANGED <<running, evLock, mLock>> /\ TaskOnly

ExecDropped(e) ==
  /\ task[e] # Idle
  /\ Become(e, Idle)
  /\ evLock' = IF evLock = e THEN NoTask ELSE evLock
  /\ UNCHANGED <<running, mLock>> /\ TaskOnly

-----------------------------------------------------------------------------
(* Migration; every step is one section under the lock on migration_progress. *)
StartMigration ==
  /\ migrations < MaxMigrations /\ progress.status # "running"
  /\ migrations' = migrations + 1
  /\ progress' = [NoProgress EXCEPT !.status = "running"]
  /\ mig' = mig \cup {[id |-> migrations, pc |-> "connect", left |-> 0]}

Turn(t, u) == mig' = (mig \ {t}) \cup {u} /\ UNCHANGED migrations
End(t, status) ==
  /\ progress' = [progress EXCEPT !.status = status]
  /\ mig' = mig \ {t} /\ UNCHANGED migrations

\* The connection or the read of the tiers fails.
MigrationErrorMutant(t) ==
  /\ t.pc \in {"connect", "collect"}
  /\ mig' = mig \ {t} /\ UNCHANGED <<progress, migrations>>
MigrationError(t) == t.pc \in {"connect", "collect"} /\ End(t, "error")

MigrateConnect(t) == t.pc = "connect" /\ Turn(t, [t EXCEPT !.pc = "collect"]) /\ UNCHANGED progress

\* collect: all rows of the tiers, then those with the prefix.
MigrateTotal(t) ==
  /\ t.pc = "collect"
  /\ \E n \in 0..MaxRows : /\ progress' = [progress EXCEPT !.total = n]
                           /\ Turn(t, [t EXCEPT !.pc = "filter", !.left = n])
MigrateFiltered(t) ==
  /\ t.pc = "filter"
  /\ \E n \in 0..t.left : /\ progress' = [progress EXCEPT !.total = n]
                          /\ Turn(t, [t EXCEPT !.pc = "set", !.left = n])

\* One SET in Redis: migrated or failed is one more.
MigrateSet(t) ==
  /\ t.pc = "set" /\ t.left > 0
  /\ progress' = [progress EXCEPT !.done = @ + 1]
  /\ Turn(t, [t EXCEPT !.left = @ - 1])
MigrationCompletes(t) == t.pc = "set" /\ t.left = 0 /\ End(t, "completed")

MigrateStep ==
  \E t \in mig : \/ MigrationError(t) \/ MigrateConnect(t) \/ MigrateTotal(t)
                 \/ MigrateFiltered(t) \/ MigrateSet(t) \/ MigrationCompletes(t)

StartStep(c) == StartMetrics(c) \/ StartEvents(c) \/ StartSpawn(c) \/ StartHandle(c)
WorkerStep(w) ==
  \/ Connected(w) \/ Loop(w) \/ ScanDone(w) \/ Finish(w) \/ Aborted(w)
  \/ Answer(w) \/ RecordEvent(w) \/ RecordMetric(w)

ControlNext ==
  \/ \E c \in Calls : StartSwap(c) \/ StartStep(c) \/ StopFlag(c) \/ StopAbort(c) \/ CallDropped(c)
  \/ \E w \in Workers : WorkerStep(w)
  \/ \E e \in Execs : \/ ExecuteKv(e) \/ Answer(e) \/ RecordEvent(e) \/ RecordMetric(e)
                      \/ ExecDropped(e)

IngestNext ==
  \/ ControlNext /\ UNCHANGED migrationVars
  \/ (StartMigration \/ MigrateStep) /\ UNCHANGED controlVars

IngestSpec == IngestInit /\ [][IngestNext]_ingestVars

-----------------------------------------------------------------------------
\* Only a start that has not spawned its worker leaves the service "already
\* running" without one, because it is still at it or because it was dropped:
\* while running is set, a worker that no stop has aborted is there to clear it,
\* whatever starts, stops and workers overlapped.  The exception is a start that
\* set the flag between the two steps of a stop, which may then abort its worker.
RunningMeansWorker ==
  ordered /\ running =>
    \/ \E w \in Workers \ doomed : task[w].pc \notin {"none", "dead"}
    \/ call[owner].pc \in {"reset", "clear", "spawn", "dropped"}

\* A start that has the mutex on metrics waits for a task that has the one on events.
Deadlocked == \E c \in Calls : call[c].pc = "clear" /\ evLock # NoTask

\* The service does not refuse starts as "already running" for ever, also if
\* nobody stops it: the flag is cleared, unless the start that set it was dropped,
\* was deadlocked with a task that records, or overtook a stop.
RunningEnds ==
  running ~> (~running \/ ~ordered \/ Deadlocked \/ call[owner].pc = "dropped")

\* A migration does not stay "running" for ever: later requests are not refused
\* for good, whatever failed.
MigrationEnds == progress.status = "running" ~> progress.status \in {"completed", "error"}
=============================================================================
