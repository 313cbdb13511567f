CONSTANTS
    v1 = v1  v2 = v2   c1 = c1  c2 = c2
    None = None  NoRegion = NoRegion
    NKeys = 3
    CFOf <- MCCFOf
    CacheKeyOf <- MCCacheKeyOf
    Batches <- MCBatches
    FullKey <- MCFullKey
    Stored <- MCStored
    Values = {v2}
    Promote = 1
    Demote = 0
    Hysteresis = 0
    MaxCount = 1
    MaxMove = 2
    Clients = {c1, c2}
    Backends = {"tiered", "standalone"}
    Limit = 2
    MaxCalls = 2
    MaxRounds = 1
    MaxCrashes = 1
    NRegionKeys = 3
    FirstId = 1
    NewIds <- MCNewIds
    SplitCFs <- MCSplitCFs
    SplitContents <- MCSplitContents
    SplitSize = 2
    SeekPosition <- MCSeekPosition
    MaxSize = 3
    MaxTicks = 3
    MaxQueue = 2
    GroupSize = 2
    TsBytes = 2
    LenBytes = 2
    SampleBytes = {0, 1, 255}
    MaxLen = 3
    SampleTs = {0, 255, 256}
    s1 = s1  s2 = s2  s3 = s3  p1 = p1  p2 = p2
    Nil = Nil
    StoreSet = {s1, s2, s3}
    RegionSet = {r1}
    PeerIds = {p1, p2}
    Conns = {k1, k2}
    Leading = {s1, s2}
    FirstStores = {s1, s3}
    FirstRunning = {s1}
    Reports <- MCReports
    FirstViews <- MCFirstViews
    SchedulerSet = {"scale", "balance-region", "balance-leader"}
    Budgets <- MCBudgets
    RegionSize = 1
    MinPeers = 2
    MaxPeers = 2
SPECIFICATION StoreSpec
INVARIANTS
    PutSurvives CacheMatchesDb ScanIsComplete
    EveryKeyRouted
    EncodingKeepsOrder DecodingInverts
    IndexAgrees BoundStreamIsAlive ScaleDownKeepsMinimum
SYMMETRY MCSymmetry
CHECK_DEADLOCK FALSE
