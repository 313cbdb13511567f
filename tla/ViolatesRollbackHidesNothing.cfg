CONSTANTS
    a = a  b = b
    c1 = c1  c2 = c2  r1 = r1
    Free = Free  Leaked = Leaked
    Keys <- OneKey
    Tasks <- MCTasks
    Timestamps <- MCTimestamps
    StartTs <- SuccessiveStartTs
    CommitTs <- SuccessiveCommitTs
    Mutation <- SuccessiveMutation
    Primary <- SuccessivePrimary
    Coordinator <- SuccessiveCoordinator
    Readers = {r1}
    Resolvers = {}
    Mortal = {}
    MaxTs = 5
    Fallible = {}
    LockTtl = 0
    ReadTs <- MCTimestamps
    CurrentTs <- MCTimestamps
    LogicalUnit = 2
    U64 = 8
    ScanOrder <- OneScanOrder
    ScanLimits = {1}
SPECIFICATION ThirdSpec
PROPERTY RollbackHidesNothing
CHECK_DEADLOCK FALSE
