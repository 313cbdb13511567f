SPECIFICATION SupportSpec
CONSTANTS
  Nodes = {n1, n2}
  Regions = {r1}
  None = None
  FailureThreshold = 1
  MaxBeats = 2
  MaxFailures = 2
  MaxSwitches = 1
  NCalls = 3
  NWorkers = 2
  Execs = {0}
  Count = 1
  MaxRows = 2
  MaxMigrations = 2
  NoTask = NoTask
  LoadStores = {a, b, c}
  Absent = Absent
  Counts = {0, 1}
  Sizes = {0, 3}
  CountWeight = 2
  ReplicationFactor = 2
  BatchKeys = {x}
  PutSize = 2
  DeleteSize = 1
  MaxEntries = 2
  MaxWrites = 2
INVARIANTS OneReportPerOutage RunningMeansWorker RollbackRestores PromisedSurvives DownStoreGetsNothing
PROPERTIES SilentLeaderIsReported MigrationEnds RunningEnds
CHECK_DEADLOCK FALSE
