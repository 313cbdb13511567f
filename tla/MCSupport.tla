------------------------------ MODULE MCSupport ------------------------------
(* One instance for five parts that do not share state: failure detector    *)
(* and leader switch, start and stop of the ingest worker, the migration,   *)
(* the placement of peers, and batches written to the engines.  A behaviour *)
(* is one of a single part.  Only one of the two nodes of the detector has  *)
(* its last outage.                                                         *)
EXTENDS FailureDetector, Ingest, StoreBalancer, Engines

VARIABLE part

supportVars == <<vars, ingestVars, balancerVars, engineVars, part>>

SupportInit ==
  /\ Init /\ IngestInit /\ BalancerInit /\ EnginesInit
  /\ part \in {"detector", "control", "migration", "balancer", "engines"}
  /\ part # "engines" => DOMAIN wal = {"kv"}

OneLastOutage == Cardinality({n \in Nodes : beats'[n] = MaxBeats}) <= 1
Detector(A) ==
  /\ part = "detector" /\ A /\ OneLastOutage
  /\ UNCHANGED <<ingestVars, balancerVars, engineVars, part>>
Migration(A) == part = "migration" /\ A /\ UNCHANGED <<vars, controlVars, balancerVars, engineVars, part>>

Control(A) == part = "control" /\ A /\ UNCHANGED <<vars, migrationVars, balancerVars, engineVars, part>>

SupportNext ==
  \/ Detector(Next)
  \/ Control(ControlNext)
  \/ Migration(StartMigration \/ MigrateStep)
  \/ part = "balancer" /\ BalancerNext /\ UNCHANGED <<vars, ingestVars, engineVars, part>>
  \/ part = "engines" /\ EnginesNext /\ UNCHANGED <<vars, ingestVars, balancerVars, part>>

SupportSpec ==
  /\ SupportInit /\ [][SupportNext]_supportVars
  /\ WF_supportVars(Detector(DetectRound))
  /\ WF_supportVars(Detector(\E o \in Outages : OnFailure(o)))
  /\ WF_supportVars(Detector(MonitorRead))
  /\ WF_supportVars(Detector(MonitorReport))
  /\ WF_supportVars(Migration(MigrateStep))
  /\ WF_supportVars(Control(\E c \in Calls : StartStep(c)))
  /\ SF_supportVars(Control(\E w \in Workers : WorkerStep(w)))
  /\ WF_supportVars(Control(\E e \in Execs : RecordMetric(e)))
==============================================================================
